--------------------------- MODULE ExplorerProofs ---------------------------
(***************************************************************************)
(* Theorems about the explorer, for any snapshots, texts and clicks:       *)
(* every arrow drawn has its ends and says what its rules say, a blocked   *)
(* side is never shown as confirmed, the counts of the tabs, the chips,    *)
(* the marks and the status page are those of the rows behind them,        *)
(* cluster-scoped policies stay listed, a reset hides nothing, and the     *)
(* panel asks one question.                                                *)
(***************************************************************************)
EXTENDS Explorer, FiniteSetTheorems, WellFoundedInduction, TLAPS

-----------------------------------------------------------------------------
(* Rows of findings.                                                       *)

\* A non-empty set of numbers has a least one.
LEMMA LeastOne ==
    ASSUME NEW S \in SUBSET Nat, S # {}
    PROVE \E m \in S : \A k \in S : m <= k
  <1> DEFINE less == {ss \in Nat \X Nat : ss[1] < ss[2]}
  <1>1. IsWellFoundedOn(less, Nat) BY NatLessThanWellFounded DEF OpToRel
  <1>2. PICK m \in S : \A k \in S : ~ (<<k, m>> \in less)
    <2> HIDE DEF less
    <2> QED BY <1>1, WFMin
  <1>3. ASSUME NEW k \in S PROVE m <= k
    <2>1. ~ (<<k, m>> \in less) BY <1>2
    <2>2. k \in Nat /\ m \in Nat OBVIOUS
    <2>3. k < m => <<k, m>> \in less BY <2>2
    <2> QED BY <2>1, <2>2, <2>3
  <1> QED BY <1>3

\* A non-empty set of positions has a first one (First of PolicyData).
LEMMA FirstIsIn ==
    ASSUME NEW indices \in SUBSET Nat, indices # {}
    PROVE First(indices) \in indices
  BY LeastOne DEF First

\* Findings as the server sends them.
AreFindings(issues) ==
    DOMAIN issues \subseteq Nat /\ \A k \in DOMAIN issues : IsFinding(issues[k])

\* What a row keeps of the first finding of its group.
SameSubject(r, i) ==
    /\ r.type = i.type /\ r.severity = i.severity
    /\ r.src = i.src /\ r.dst = i.dst /\ r.node = i.node

\* A blocking reason of a group is not lost (mergeReason).
LEMMA BlockingReasonStays ==
    ASSUME NEW group \in SUBSET Nat, NEW reasons, NEW k \in group, isBlockReason(reasons[k])
    PROVE isBlockReason(mergeReason(reasons, group))
  <1> DEFINE blocking == {i \in group : isBlockReason(reasons[i])}
  <1>1. First(blocking) \in blocking BY FirstIsIn
  <1> QED BY <1>1 DEF mergeReason

\* A row is the first finding of its group with the reasons of all.
LEMMA RowOfGroup ==
    ASSUME NEW issues, AreFindings(issues),
           NEW group \in SUBSET DOMAIN issues, group # {}
    PROVE LET r == MergedRow(issues, group)
          IN /\ \E k \in group : SameSubject(r, issues[k])
             /\ r.egressReason =
                  mergeReason([i \in group |-> issues[i].egressReason], group)
             /\ r.ingressReason =
                  mergeReason([i \in group |-> issues[i].ingressReason], group)
  <1> DEFINE k == First(group)
  <1>1. k \in group BY FirstIsIn DEF AreFindings
  <1>2. DOMAIN issues[k] = DOMAIN Issue("", "", "", "", NoNode, NoNode, NoNode)
    BY <1>1 DEF AreFindings, IsFinding
  <1>3. {"type", "severity", "src", "dst", "node", "egressReason", "ingressReason"}
        \subseteq DOMAIN issues[k]
    BY <1>2 DEF Issue
  <1> QED BY <1>1, <1>3 DEF MergedRow, SameSubject

PairsOf(issues) == {i \in DOMAIN issues : isEdge(issues[i])}
KeyOf(issues, i) == <<issues[i].type, nodeKey(issues[i].src), nodeKey(issues[i].dst)>>
GroupOf(issues, i) == {j \in PairsOf(issues) : KeyOf(issues, j) = KeyOf(issues, i)}

\* mergeIssuesByPair with its local definitions named.
LEMMA MergedRows ==
    ASSUME NEW issues
    PROVE mergeIssuesByPair(issues)
          = {MergedRow(issues, GroupOf(issues, i)) : i \in PairsOf(issues)}
            \cup {issues[i] : i \in DOMAIN issues \ PairsOf(issues)}
  BY DEF mergeIssuesByPair, PairsOf, KeyOf, GroupOf

\* The row of a group speaks of a pair of the group.
LEMMA RowOfPair ==
    ASSUME NEW issues, AreFindings(issues), NEW i \in PairsOf(issues)
    PROVE \E k \in GroupOf(issues, i) :
              SameSubject(MergedRow(issues, GroupOf(issues, i)), issues[k])
  <1>1. GroupOf(issues, i) \in SUBSET DOMAIN issues /\ i \in GroupOf(issues, i)
    BY DEF GroupOf, PairsOf
  <1>2. GroupOf(issues, i) # {} BY <1>1
  <1> QED BY <1>1, <1>2, RowOfGroup

\* Every row has the type and the nodes of some finding.
LEMMA RowIsFinding ==
    ASSUME NEW issues, AreFindings(issues), NEW r \in mergeIssuesByPair(issues)
    PROVE \E k \in DOMAIN issues : SameSubject(r, issues[k])
  <1>1. CASE \E i \in PairsOf(issues) : r = MergedRow(issues, GroupOf(issues, i))
    <2>1. PICK i \in PairsOf(issues) : r = MergedRow(issues, GroupOf(issues, i)) BY <1>1
    <2> QED BY <2>1, RowOfPair DEF GroupOf, PairsOf
  <1>2. CASE \E i \in DOMAIN issues : r = issues[i] BY <1>2 DEF SameSubject
  <1> QED BY <1>1, <1>2, MergedRows

\* A row about the pair of a finding is that finding's row.
LEMMA RowOfFinding ==
    ASSUME NEW issues, AreFindings(issues), NEW k \in PairsOf(issues),
           NEW r \in mergeIssuesByPair(issues), isEdge(r), r.type = issues[k].type,
           nodeKey(r.src) = nodeKey(issues[k].src), nodeKey(r.dst) = nodeKey(issues[k].dst)
    PROVE r = MergedRow(issues, GroupOf(issues, k))
  <1>1. PICK i \in PairsOf(issues) : r = MergedRow(issues, GroupOf(issues, i))
    BY MergedRows DEF PairsOf
  <1>2. PICK j \in GroupOf(issues, i) : SameSubject(r, issues[j]) BY <1>1, RowOfPair
  <1>3. KeyOf(issues, k) = KeyOf(issues, j) BY <1>2 DEF KeyOf, SameSubject
  <1>4. KeyOf(issues, j) = KeyOf(issues, i) BY <1>2 DEF GroupOf
  <1>5. GroupOf(issues, k) = GroupOf(issues, i) BY <1>3, <1>4 DEF GroupOf
  <1> QED BY <1>1, <1>5

\* The direction and the kind of a group.
LEMMA GroupFields ==
    \A direction, type, culprits, allowed, reason, engines :
        LET g == CulpritGroup(direction, type, culprits, allowed, reason, engines)
        IN g.direction = direction /\ g.kind = GroupKind(type, reason)
  <1> TAKE direction, type, culprits, allowed, reason, engines
  <1>1. \E chips, named :
          CulpritGroup(direction, type, culprits, allowed, reason, engines)
          = [direction |-> direction, kind |-> GroupKind(type, reason),
             chips |-> chips, engines |-> named]
    BY Zenon DEF CulpritGroup
  <1> QED BY <1>1

\* The two groups a finding may get.
LEMMA GroupsOfFinding ==
    ASSUME NEW r
    PROVE \E e, i :
            /\ e.direction = "egress" /\ e.kind = GroupKind(r.type, r.egressReason)
            /\ i.direction = "ingress" /\ i.kind = GroupKind(r.type, r.ingressReason)
            /\ CulpritActions(r) =
                 IF r.type = "mesh policy" THEN {MeshPolicyRow(r)}
                 ELSE {g \in {e, i} : IF g.direction = "egress"
                                      THEN ShowsDirection(r.egressCulprits, r.egressReason)
                                      ELSE ShowsDirection(r.ingressCulprits, r.ingressReason)}
  <1> DEFINE eng == IF r.engines # {} THEN r.engines ELSE {r.engine} \ {""}
             e == CulpritGroup("egress", r.type, r.egressCulprits, r.egressAllowed,
                               r.egressReason, eng)
             i == CulpritGroup("ingress", r.type, r.ingressCulprits, r.ingressAllowed,
                               r.ingressReason, eng)
  <1>1. CulpritActions(r) =
          IF r.type = "mesh policy" THEN {MeshPolicyRow(r)}
          ELSE {g \in {e, i} : IF g.direction = "egress"
                               THEN ShowsDirection(r.egressCulprits, r.egressReason)
                               ELSE ShowsDirection(r.ingressCulprits, r.ingressReason)}
    BY Zenon DEF CulpritActions
  <1> HIDE DEF eng
  <1>2. e.direction = "egress" BY GroupFields
  <1>3. e.kind = GroupKind(r.type, r.egressReason) BY GroupFields
  <1>4. i.direction = "ingress" BY GroupFields
  <1>5. i.kind = GroupKind(r.type, r.ingressReason) BY GroupFields
  <1> HIDE DEF e, i
  <1> QED BY <1>1, <1>2, <1>3, <1>4, <1>5

\* A blocking reason is never read as "permitted".
LEMMA BlockedKind ==
    ASSUME NEW type, NEW reason, isBlockReason(reason)
    PROVE GroupKind(type, reason) # "allowed"
  <1>1. reason # "permitted" BY DEF isBlockReason, BlockReasons
  <1>2. \A x \in {"layered", "scope", "mesh", "transport", "blocked"} : x # "allowed" OBVIOUS
  <1>3. GroupKind(type, reason) \in {"layered", "scope", "mesh", "transport", "blocked"}
    BY <1>1, Zenon DEF GroupKind
  <1> QED BY <1>2, <1>3

\* A blocking reason shows in its direction, and not as allowed (CulpritActions).
LEMMA BlockedIsShown ==
    ASSUME NEW r
    PROVE LET Shown(direction) == {g \in CulpritActions(r) : g.direction = direction}
          IN r.type # "mesh policy" =>
              /\ isBlockReason(r.egressReason) =>
                  Shown("egress") # {} /\ \A g \in Shown("egress") : g.kind # "allowed"
              /\ isBlockReason(r.ingressReason) =>
                  Shown("ingress") # {} /\ \A g \in Shown("ingress") : g.kind # "allowed"
  <1>1. PICK e, i :
            /\ e.direction = "egress" /\ e.kind = GroupKind(r.type, r.egressReason)
            /\ i.direction = "ingress" /\ i.kind = GroupKind(r.type, r.ingressReason)
            /\ CulpritActions(r) =
                 IF r.type = "mesh policy" THEN {MeshPolicyRow(r)}
                 ELSE {g \in {e, i} : IF g.direction = "egress"
                                      THEN ShowsDirection(r.egressCulprits, r.egressReason)
                                      ELSE ShowsDirection(r.ingressCulprits, r.ingressReason)}
    BY GroupsOfFinding
  <1>2. isBlockReason(r.egressReason) =>
          e.kind # "allowed" /\ ShowsDirection(r.egressCulprits, r.egressReason)
    BY <1>1, BlockedKind DEF ShowsDirection
  <1>3. isBlockReason(r.ingressReason) =>
          i.kind # "allowed" /\ ShowsDirection(r.ingressCulprits, r.ingressReason)
    BY <1>1, BlockedKind DEF ShowsDirection
  <1> QED BY <1>1, <1>2, <1>3

\* The row of a finding: the only one about its pair, and it keeps what blocks.
LEMMA RowOfFindingFields ==
    ASSUME NEW issues, AreFindings(issues), NEW k \in PairsOf(issues)
    PROVE LET r == MergedRow(issues, GroupOf(issues, k))
          IN /\ r \in mergeIssuesByPair(issues) /\ isEdge(r)
             /\ r.type = issues[k].type
             /\ nodeKey(r.src) = nodeKey(issues[k].src)
             /\ nodeKey(r.dst) = nodeKey(issues[k].dst)
             /\ isBlockReason(issues[k].egressReason) => isBlockReason(r.egressReason)
             /\ isBlockReason(issues[k].ingressReason) => isBlockReason(r.ingressReason)
  <1> DEFINE group == GroupOf(issues, k)
             r == MergedRow(issues, group)
             egress == [i \in group |-> issues[i].egressReason]
             ingress == [i \in group |-> issues[i].ingressReason]
  <1>1. k \in group /\ group \in SUBSET DOMAIN issues /\ group \in SUBSET Nat
    BY DEF GroupOf, PairsOf, AreFindings
  <1>2. r \in mergeIssuesByPair(issues) BY MergedRows
  <1>3. r.egressReason = mergeReason(egress, group)
        /\ r.ingressReason = mergeReason(ingress, group)
    BY <1>1, RowOfGroup
  <1>4. PICK j \in group : SameSubject(r, issues[j]) BY RowOfPair
  <1>5. isEdge(r) BY <1>4 DEF SameSubject, GroupOf, PairsOf, isEdge
  <1>6. KeyOf(issues, j) = KeyOf(issues, k) BY <1>4 DEF GroupOf
  <1>7. /\ r.type = issues[k].type
        /\ nodeKey(r.src) = nodeKey(issues[k].src)
        /\ nodeKey(r.dst) = nodeKey(issues[k].dst)
    BY <1>4, <1>6 DEF KeyOf, SameSubject
  <1>8. isBlockReason(issues[k].egressReason) => isBlockReason(r.egressReason)
    <2>1. egress[k] = issues[k].egressReason BY <1>1
    <2> HIDE DEF egress, group, r
    <2> QED BY <2>1, <1>1, <1>3, BlockingReasonStays
  <1>9. isBlockReason(issues[k].ingressReason) => isBlockReason(r.ingressReason)
    <2>1. ingress[k] = issues[k].ingressReason BY <1>1
    <2> HIDE DEF ingress, group, r
    <2> QED BY <2>1, <1>1, <1>3, BlockingReasonStays
  <1> HIDE DEF r
  <1> QED BY <1>2, <1>5, <1>7, <1>8, <1>9 DEF r

\* BlockedSideIsNotConfirmed, of whichever findings were answered.
LEMMA BlockedSide ==
    ASSUME AreFindings(data.issues)
    PROVE BlockedSideIsNotConfirmed
  <1> DEFINE issues == data.issues
             rows == mergeIssuesByPair(issues)
             RowsOf(i) == {r \in rows : /\ isEdge(r) /\ r.type = i.type
                                        /\ nodeKey(r.src) = nodeKey(i.src)
                                        /\ nodeKey(r.dst) = nodeKey(i.dst)}
             Kinds(i, direction) ==
                 {g.kind : g \in {x \in UNION {CulpritActions(r) : r \in RowsOf(i)} :
                                    x.direction = direction}}
             NotConfirmed(i, direction) ==
                 Kinds(i, direction) # {} /\ "allowed" \notin Kinds(i, direction)
  <1>1. SUFFICES ASSUME NEW k \in DOMAIN issues, isEdge(issues[k])
                 PROVE /\ isBlockReason(issues[k].egressReason) =>
                             NotConfirmed(issues[k], "egress")
                       /\ isBlockReason(issues[k].ingressReason) =>
                             NotConfirmed(issues[k], "ingress")
    BY DEF BlockedSideIsNotConfirmed
  <1> DEFINE row == MergedRow(issues, GroupOf(issues, k))
  <1>2. k \in PairsOf(issues) BY <1>1 DEF PairsOf
  <1>3. /\ row \in rows /\ isEdge(row) /\ row.type = issues[k].type
        /\ nodeKey(row.src) = nodeKey(issues[k].src)
        /\ nodeKey(row.dst) = nodeKey(issues[k].dst)
        /\ isBlockReason(issues[k].egressReason) => isBlockReason(row.egressReason)
        /\ isBlockReason(issues[k].ingressReason) => isBlockReason(row.ingressReason)
    BY <1>2, RowOfFindingFields
  <1>4. RowsOf(issues[k]) = {row}
    <2>1. \A r \in RowsOf(issues[k]) : r = row BY <1>2, RowOfFinding
    <2> HIDE DEF row, rows
    <2> QED BY <2>1, <1>3
  <1>5. \A direction : Kinds(issues[k], direction)
                      = {g.kind : g \in {x \in CulpritActions(row) : x.direction = direction}}
    <2> HIDE DEF RowsOf, row
    <2> QED BY <1>4
  <1>6. row.type # "mesh policy" BY <1>1, <1>3 DEF AreFindings, IsFinding
  <1> HIDE DEF row, Kinds, RowsOf, rows
  <1> DEFINE Shown(direction) == {g \in CulpritActions(row) : g.direction = direction}
  <1>7. isBlockReason(row.egressReason) =>
          Shown("egress") # {} /\ \A g \in Shown("egress") : g.kind # "allowed"
    BY <1>6, BlockedIsShown
  <1>8. isBlockReason(row.ingressReason) =>
          Shown("ingress") # {} /\ \A g \in Shown("ingress") : g.kind # "allowed"
    BY <1>6, BlockedIsShown
  <1>9. Kinds(issues[k], "egress") = {g.kind : g \in Shown("egress")}
        /\ Kinds(issues[k], "ingress") = {g.kind : g \in Shown("ingress")}
    BY <1>5
  <1> HIDE DEF Shown
  <1>10. isBlockReason(row.egressReason) => NotConfirmed(issues[k], "egress")
    BY <1>7, <1>9
  <1>11. isBlockReason(row.ingressReason) => NotConfirmed(issues[k], "ingress")
    BY <1>8, <1>9
  <1> QED BY <1>3, <1>10, <1>11

\* A row depends on the findings of its group alone.
LEMMA RowOfRestriction ==
    ASSUME NEW issues, NEW kept, NEW group \in SUBSET Nat, group # {},
           \A i \in group : kept[i] = issues[i]
    PROVE MergedRow(kept, group) = MergedRow(issues, group)
  <1>1. kept[First(group)] = issues[First(group)] BY FirstIsIn
  <1>2. /\ {kept[i].egressCulprits : i \in group} = {issues[i].egressCulprits : i \in group}
        /\ {kept[i].ingressCulprits : i \in group} = {issues[i].ingressCulprits : i \in group}
        /\ {kept[i].egressAllowed : i \in group} = {issues[i].egressAllowed : i \in group}
        /\ {kept[i].ingressAllowed : i \in group} = {issues[i].ingressAllowed : i \in group}
        /\ {kept[i].engine : i \in group} = {issues[i].engine : i \in group}
    OBVIOUS
  <1>3. /\ [i \in group |-> kept[i].egressReason] = [i \in group |-> issues[i].egressReason]
        /\ [i \in group |-> kept[i].ingressReason] = [i \in group |-> issues[i].ingressReason]
    OBVIOUS
  <1> QED BY <1>1, <1>2, <1>3, Zenon DEF MergedRow

\* Findings of one group touch the same namespaces (IssueNamespaces).
LEMMA GroupTouchesAlike ==
    ASSUME NEW issues, AreFindings(issues), NEW i \in PairsOf(issues),
           NEW j \in GroupOf(issues, i)
    PROVE IssueNamespaces(issues[i]) = IssueNamespaces(issues[j])
  <1>1. issues[i].node = NoNode /\ issues[j].node = NoNode
    BY DEF GroupOf, PairsOf, AreFindings, IsFinding
  <1>2. nodeKey(issues[i].src) = nodeKey(issues[j].src)
        /\ nodeKey(issues[i].dst) = nodeKey(issues[j].dst)
    BY DEF GroupOf, KeyOf
  <1>3. issues[i].src.namespace = issues[j].src.namespace
        /\ issues[i].dst.namespace = issues[j].dst.namespace
    BY <1>2 DEF nodeKey
  <1> QED BY <1>1, <1>3 DEF IssueNamespaces

\* Folding whole groups: each gives the row it gives among all findings.
LEMMA WholeGroups ==
    ASSUME NEW issues, AreFindings(issues), NEW I \in SUBSET DOMAIN issues,
           \A i \in PairsOf(issues) : \A j \in GroupOf(issues, i) : i \in I <=> j \in I,
           NEW kept, DOMAIN kept = I, \A k \in I : kept[k] = issues[k]
    PROVE mergeIssuesByPair(kept)
          = {MergedRow(issues, GroupOf(issues, i)) : i \in PairsOf(issues) \cap I}
            \cup {issues[i] : i \in I \ PairsOf(issues)}
  <1>1. PairsOf(kept) = PairsOf(issues) \cap I BY DEF PairsOf
  <1>2. ASSUME NEW i \in PairsOf(kept)
        PROVE MergedRow(kept, GroupOf(kept, i)) = MergedRow(issues, GroupOf(issues, i))
    <2>1. \A j \in PairsOf(kept) : KeyOf(kept, j) = KeyOf(issues, j)
      BY <1>1 DEF KeyOf
    <2>2. GroupOf(kept, i) = GroupOf(issues, i)
      BY <1>1, <2>1 DEF GroupOf
    <2>3. /\ GroupOf(kept, i) \in SUBSET Nat /\ GroupOf(kept, i) # {}
          /\ \A j \in GroupOf(kept, i) : kept[j] = issues[j]
      BY <1>1 DEF GroupOf, AreFindings
    <2> QED BY <2>2, <2>3, RowOfRestriction
  <1>3. {MergedRow(kept, GroupOf(kept, i)) : i \in PairsOf(kept)}
        = {MergedRow(issues, GroupOf(issues, i)) : i \in PairsOf(issues) \cap I}
    BY <1>1, <1>2
  <1>4. {kept[i] : i \in DOMAIN kept \ PairsOf(kept)} = {issues[i] : i \in I \ PairsOf(issues)}
    BY <1>1
  <1> QED BY <1>3, <1>4, MergedRows

\* Narrowing to some namespaces and folding commute (scopedIssues, mergeIssuesByPair).
LEMMA ScopedRows ==
    ASSUME NEW issues, AreFindings(issues), NEW namespaces
    PROVE mergeIssuesByPair(scopedIssues(issues, namespaces))
          = {r \in mergeIssuesByPair(issues) : Touches(r, namespaces)}
  <1> DEFINE T(i) == Touches(i, namespaces)
             I == {k \in DOMAIN issues : T(issues[k])}
             Row(i) == MergedRow(issues, GroupOf(issues, i))
  <1>1. \A r, i : SameSubject(r, i) => (T(r) <=> T(i))
    BY DEF SameSubject, Touches, IssueNamespaces
  <1>2. \A i \in PairsOf(issues) : \A j \in GroupOf(issues, i) : T(issues[i]) <=> T(issues[j])
    BY GroupTouchesAlike DEF Touches
  <1>3. \A i \in PairsOf(issues) : \A j \in GroupOf(issues, i) : i \in I <=> j \in I
    <2> HIDE DEF T
    <2> QED BY <1>2 DEF GroupOf, PairsOf
  <1>4. mergeIssuesByPair(scopedIssues(issues, namespaces))
        = {Row(i) : i \in PairsOf(issues) \cap I} \cup {issues[i] : i \in I \ PairsOf(issues)}
    BY <1>3, WholeGroups DEF scopedIssues
  <1>5. ASSUME NEW i \in PairsOf(issues)
        PROVE T(Row(i)) <=> i \in I
    <2>1. PICK k \in GroupOf(issues, i) : SameSubject(Row(i), issues[k])
      BY RowOfPair
    <2> HIDE DEF T, Row
    <2> QED BY <1>1, <1>2, <2>1 DEF PairsOf
  <1>6. mergeIssuesByPair(issues)
        = {Row(i) : i \in PairsOf(issues)} \cup {issues[i] : i \in DOMAIN issues \ PairsOf(issues)}
    BY MergedRows
  <1> HIDE DEF T, Row
  <1>7. mergeIssuesByPair(scopedIssues(issues, namespaces))
        = {r \in mergeIssuesByPair(issues) : T(r)}
    BY <1>4, <1>5, <1>6
  <1> QED BY <1>7 DEF T

\* So do narrowing to one type and folding (Listed).
LEMMA TypedRows ==
    ASSUME NEW issues, AreFindings(issues), NEW t
    PROVE mergeIssuesByPair([i \in Listed(issues, {t}) |-> issues[i]])
          = {r \in mergeIssuesByPair(issues) : r.type = t}
  <1> DEFINE I == Listed(issues, {t})
             Row(i) == MergedRow(issues, GroupOf(issues, i))
  <1>1. \A i : i \in I <=> i \in DOMAIN issues /\ issues[i].type = t BY DEF Listed
  <1>2. \A i \in PairsOf(issues) : \A j \in GroupOf(issues, i) : issues[i].type = issues[j].type
    BY DEF GroupOf, KeyOf
  <1> HIDE DEF I
  <1>3. \A i \in PairsOf(issues) : \A j \in GroupOf(issues, i) : i \in I <=> j \in I
    BY <1>1, <1>2 DEF GroupOf, PairsOf
  <1>4. mergeIssuesByPair([i \in I |-> issues[i]])
        = {Row(i) : i \in PairsOf(issues) \cap I} \cup {issues[i] : i \in I \ PairsOf(issues)}
    BY <1>1, <1>3, WholeGroups
  <1>5. ASSUME NEW i \in PairsOf(issues)
        PROVE Row(i).type = t <=> i \in I
    <2>1. PICK k \in GroupOf(issues, i) : SameSubject(Row(i), issues[k])
      BY RowOfPair
    <2> HIDE DEF Row
    <2> QED BY <1>1, <1>2, <2>1 DEF PairsOf, SameSubject
  <1>6. mergeIssuesByPair(issues)
        = {Row(i) : i \in PairsOf(issues)} \cup {issues[i] : i \in DOMAIN issues \ PairsOf(issues)}
    BY MergedRows
  <1> HIDE DEF Row
  <1>7. mergeIssuesByPair([i \in I |-> issues[i]])
        = {r \in mergeIssuesByPair(issues) : r.type = t}
    BY <1>1, <1>4, <1>5, <1>6
  <1> QED BY <1>7 DEF I

\* The tier of a row is that of its type, one of three (issueTierOf).
LEMMA TierOfRow ==
    ASSUME NEW issues, AreFindings(issues), NEW r \in mergeIssuesByPair(issues)
    PROVE /\ issueTierOf(r) = issueTier(r.type)
          /\ issueTierOf(r) \in {"blocking", "warning", "info"}
  <1>1. PICK k \in DOMAIN issues : SameSubject(r, issues[k]) BY RowIsFinding
  <1>2. r.type \in ALL_ISSUE_TYPES /\ r.severity \in {"", TYPE_SEVERITY[r.type]}
    BY <1>1 DEF SameSubject, AreFindings, IsFinding
  <1>3. DOMAIN TypesOf = {"high", "warning", "info"} BY DEF TypesOf
  <1>4. TYPE_SEVERITY[r.type] \in DOMAIN TypesOf
    <2>1. \E s \in DOMAIN TypesOf : r.type \in TypesOf[s] BY <1>2 DEF ALL_ISSUE_TYPES
    <2> QED BY <1>2, <2>1 DEF TYPE_SEVERITY
  <1>5. issueSeverity(r) = TYPE_SEVERITY[r.type] BY <1>2 DEF issueSeverity
  <1>6. issueTierOf(r) = issueTier(r.type) BY <1>5 DEF issueTierOf, issueTier
  <1>7. SEVERITY_TIER[TYPE_SEVERITY[r.type]] \in {"blocking", "warning", "info"}
    BY <1>3, <1>4 DEF SEVERITY_TIER
  <1> QED BY <1>6, <1>7 DEF issueTier

\* HeadlineMatchesDrawer, of whichever findings were answered.
LEMMA Headline ==
    ASSUME AreFindings(data.issues)
    PROVE HeadlineMatchesDrawer
  <1> DEFINE rows == mergeIssuesByPair(data.issues)
             N == st.selectedNamespaces
  <1>1. actionableIssues(data, st) = {r \in rows : Touches(r, N) /\ issueTierOf(r) # "info"}
    <2>1. mergeIssuesByPair(scopedIssues(data.issues, N)) = {r \in rows : Touches(r, N)}
      BY ScopedRows
    <2> HIDE DEF rows
    <2> QED BY <2>1 DEF actionableIssues, Actionable
  <1>2. IssuesDrawer(data.issues).blocking \cup IssuesDrawer(data.issues).warnings
        = {r \in rows : issueTierOf(r) \in {"blocking", "warning"}}
    BY DEF IssuesDrawer
  <1>3. \A r \in rows : issueTierOf(r) # "info" <=> issueTierOf(r) \in {"blocking", "warning"}
    BY TierOfRow
  <1> HIDE DEF rows
  <1> QED BY <1>1, <1>2, <1>3 DEF HeadlineMatchesDrawer

-----------------------------------------------------------------------------
(* The drawing.                                                            *)

\* An arrow joins the ends of some rule.
LEMMA ArrowEnds ==
    ASSUME NEW edges, NEW a \in bundleEdges(edges)
    PROVE \E e \in edges : a.source = e.source /\ a.target = e.target
  <1>1. PICK e \in edges : \E policies : a = Arrow(e.source, e.target, policies)
    BY DEF bundleEdges
  <1>2. \A policies : /\ Arrow(e.source, e.target, policies).source = e.source
                      /\ Arrow(e.source, e.target, policies).target = e.target
    BY DEF Arrow
  <1> QED BY <1>1, <1>2

\* The flat drawing has an element for every workload and occupied namespace.
LEMMA FlatIds ==
    ASSUME NEW workloads, NEW edges, NEW nodes
    PROVE Ids(workloads) \cup {NsId(ns) : ns \in Occupied(workloads)}
          \subseteq Ids(buildElements(workloads, edges, nodes).nodes)
  <1> DEFINE cov == computeCoverage(edges, nodes)
             labels == {NsId(ns) : ns \in Occupied(workloads)}
             g == buildElements(workloads, edges, nodes)
  <1>1. g.nodes =
          {NodeElement(BoxId(ns), "namespace-box", NoId, NoNode, cov.ns[ns]) :
              ns \in Occupied(workloads)}
          \cup {NodeElement(NsId(ns), "namespace", BoxId(ns), nsNodeById(nodes, ns),
                            cov.ns[ns]) : ns \in Occupied(workloads)}
          \cup {WorkloadElement(w, cov, IF w.namespace = "" THEN NoId
                                        ELSE BoxId(w.namespace)) :
                  w \in {x \in workloads : x.id \notin labels}}
    BY DEF buildElements
  <1> HIDE DEF g, cov
  <1>3. ASSUME NEW ns \in Occupied(workloads) PROVE NsId(ns) \in Ids(g.nodes)
    <2> DEFINE l == NodeElement(NsId(ns), "namespace", BoxId(ns), nsNodeById(nodes, ns),
                                cov.ns[ns])
    <2>1. l.id = NsId(ns) BY DEF NodeElement
    <2>2. l \in g.nodes BY <1>1
    <2> HIDE DEF l
    <2> QED BY <2>1, <2>2 DEF Ids
  <1>4. ASSUME NEW w \in workloads PROVE w.id \in Ids(g.nodes)
    <2>1. CASE w.id \in labels BY <1>3, <2>1
    <2>2. CASE w.id \notin labels
      <3> DEFINE x == WorkloadElement(w, cov, IF w.namespace = "" THEN NoId
                                              ELSE BoxId(w.namespace))
      <3>1. x.id = w.id BY DEF WorkloadElement, NodeElement
      <3>2. x \in g.nodes
        <4> HIDE DEF labels
        <4> QED BY <1>1, <2>2
      <3> QED BY <3>1, <3>2 DEF Ids
    <2> QED BY <2>1, <2>2
  <1> QED BY <1>3, <1>4 DEF Ids, g

\* The aggregated drawing drops an arrow without ends (validIds of
\* buildAggregatedElements).
LEMMA AggregatedEnds ==
    ASSUME NEW workloads, NEW edges, NEW nodes,
           NEW a \in buildAggregatedElements(workloads, edges, nodes).arrows
    PROVE /\ {a.source, a.target}
             \subseteq Ids(buildAggregatedElements(workloads, edges, nodes).nodes)
          /\ a.policies \subseteq edges
  <1> DEFINE cov == computeCoverage(edges, nodes)
             occupied == Occupied(workloads)
             external == {w \in workloads : w.namespace = ""}
             valid == {NsId(ns) : ns \in occupied} \cup Ids(external)
             groupOf(id) == IF NamespaceOf(nodes, id) = {} THEN id
                            ELSE NsId(CHOOSE ns \in NamespaceOf(nodes, id) : TRUE)
             Ends(e) == IF e.level = "namespace" THEN <<e.source, e.target>>
                        ELSE <<groupOf(e.source), groupOf(e.target)>>
             Key(e) == <<Ends(e), e.action, e.coverage = "except">>
             drawn == {e \in edges : /\ Ends(e)[1] # Ends(e)[2]
                                     /\ Ends(e)[1] \in valid /\ Ends(e)[2] \in valid}
             g == buildAggregatedElements(workloads, edges, nodes)
  <1>1. g.nodes =
          {NodeElement(NsId(ns), "namespace-agg", NoId, nsNodeById(nodes, ns), cov.ns[ns]) :
              ns \in occupied}
          \cup {WorkloadElement(w, cov, NoId) : w \in external}
    BY DEF buildAggregatedElements
  <1>2. g.arrows = {Arrow(Ends(e)[1], Ends(e)[2], {x \in drawn : Key(x) = Key(e)}) : e \in drawn}
    BY DEF buildAggregatedElements
  <1>3. a \in g.arrows OBVIOUS
  <1> HIDE DEF g, cov
  <1>4. ASSUME NEW ns \in occupied PROVE NsId(ns) \in Ids(g.nodes)
    <2> DEFINE l == NodeElement(NsId(ns), "namespace-agg", NoId, nsNodeById(nodes, ns), cov.ns[ns])
    <2>1. l.id = NsId(ns) BY DEF NodeElement
    <2>2. l \in g.nodes BY <1>1
    <2> HIDE DEF l
    <2> QED BY <2>1, <2>2 DEF Ids
  <1>5. ASSUME NEW w \in external PROVE w.id \in Ids(g.nodes)
    <2> DEFINE x == WorkloadElement(w, cov, NoId)
    <2>1. x.id = w.id BY DEF WorkloadElement, NodeElement
    <2>2. x \in g.nodes BY <1>1
    <2> HIDE DEF x, external
    <2> QED BY <2>1, <2>2 DEF Ids
  <1>6. valid \subseteq Ids(g.nodes) BY <1>4, <1>5 DEF Ids
  <1> HIDE DEF Ends, Key, valid
  <1>7. PICK e \in drawn : a = Arrow(Ends(e)[1], Ends(e)[2], {x \in drawn : Key(x) = Key(e)})
    BY <1>2, <1>3
  <1>8. /\ a.source = Ends(e)[1] /\ a.target = Ends(e)[2]
        /\ a.policies = {x \in drawn : Key(x) = Key(e)}
    BY <1>7 DEF Arrow
  <1>9. Ends(e)[1] \in valid /\ Ends(e)[2] \in valid OBVIOUS
  <1>10. drawn \subseteq edges OBVIOUS
  <1> HIDE DEF drawn
  <1>11. a.policies \subseteq edges BY <1>8, <1>10
  <1> QED BY <1>6, <1>8, <1>9, <1>11 DEF g

\* Whatever the data and the filters, an arrow has its two ends.
LEMMA EndsDrawn ==
    ASSUME NEW d, NEW s, NEW a \in PolicyGraph(d, s).arrows
    PROVE {a.source, a.target} \subseteq Ids(PolicyGraph(d, s).nodes)
  <1> DEFINE nodes == filteredNodes(d, s)
             edges == filteredEdges(d, s)
  <1>1. CASE s.aggregateByNamespace
    <2>1. PolicyGraph(d, s) = buildAggregatedElements(nodes, d.edges, d.nodes)
      BY <1>1 DEF PolicyGraph
    <2> QED BY <2>1, AggregatedEnds
  <1>2. CASE ~s.aggregateByNamespace
    <2> DEFINE g == buildElements(nodes, edges, d.nodes)
    <2>1. PolicyGraph(d, s) = g BY <1>2 DEF PolicyGraph
    <2>2. g.arrows = bundleEdges(edges) BY DEF buildElements
    <2>3. PICK e \in edges : a.source = e.source /\ a.target = e.target
      BY <2>1, <2>2, ArrowEnds
    <2>4. {e.source, e.target} \subseteq Ids(nodes) \cup {NsId(ns) : ns \in Occupied(nodes)}
      BY DEF filteredEdges
    <2>5. {e.source, e.target} \subseteq Ids(g.nodes)
      <3> HIDE DEF nodes, edges
      <3> QED BY <2>4, FlatIds
    <2> HIDE DEF g
    <2> QED BY <2>1, <2>3, <2>5
  <1> QED BY <1>1, <1>2

\* DrawnEdgesHaveEnds.
LEMMA DrawnEdges == DrawnEdgesHaveEnds
  BY EndsDrawn DEF DrawnEdgesHaveEnds

-----------------------------------------------------------------------------
(* What an arrow says of the rules behind it.                              *)

\* Rules that agree on what they do and on being carve-outs.
Alike(policies) ==
    \A x, y \in policies : /\ x.action = y.action
                           /\ x.coverage = "except" <=> y.coverage = "except"

\* An arrow says of each of its rules what the rule says itself.
Speaks(a) == \A e \in a.policies : e.action = a.action /\ (e.coverage = "except") = a.except

LEMMA AlikeSpeak ==
    ASSUME NEW src, NEW dst, NEW policies, Alike(policies)
    PROVE Speaks(Arrow(src, dst, policies))
  <1> DEFINE a == Arrow(src, dst, policies)
  <1>1. /\ a.policies = policies
        /\ a.action = (CHOOSE e \in policies : TRUE).action
        /\ a.except = \A e \in policies : e.coverage = "except"
    BY DEF Arrow
  <1> HIDE DEF a
  <1>2. ASSUME NEW e \in policies PROVE e.action = a.action
    <2>1. (CHOOSE x \in policies : TRUE) \in policies OBVIOUS
    <2> QED BY <1>1, <2>1 DEF Alike
  <1>3. ASSUME NEW e \in policies PROVE (e.coverage = "except") = a.except
    <2>1. e.coverage = "except" <=> \A x \in policies : x.coverage = "except" BY DEF Alike
    <2> QED BY <1>1, <2>1, Zenon
  <1> QED BY <1>1, <1>2, <1>3 DEF Speaks, a

\* In the flat drawing a rule is behind one arrow, the one of its key.
LEMMA BundlesSpeak ==
    ASSUME NEW edges
    PROVE /\ \A a \in bundleEdges(edges) : Speaks(a)
          /\ \A e \in edges : Cardinality({a \in bundleEdges(edges) : e \in a.policies}) = 1
  <1> DEFINE Key(e) == <<e.source, e.target, e.action, e.coverage = "except">>
             Behind(e) == {x \in edges : Key(x) = Key(e)}
             Of(e) == Arrow(e.source, e.target, Behind(e))
  <1>1. bundleEdges(edges) = {Of(e) : e \in edges} BY DEF bundleEdges
  <1>2. \A e : Of(e).policies = Behind(e) BY DEF Arrow
  <1>3. ASSUME NEW e PROVE Alike(Behind(e))
    BY DEF Alike
  <1>4. ASSUME NEW e \in edges, NEW x \in edges, Key(x) = Key(e) PROVE Of(x) = Of(e)
    BY <1>4
  <1>5. \A e : Speaks(Of(e)) BY <1>3, AlikeSpeak
  <1>6. ASSUME NEW e \in edges
        PROVE Cardinality({a \in bundleEdges(edges) : e \in a.policies}) = 1
    <2>1. ASSUME NEW x \in edges PROVE e \in Of(x).policies <=> Key(x) = Key(e)
      <3>1. e \in Behind(x) <=> Key(x) = Key(e)
        <4> HIDE DEF Key
        <4> QED OBVIOUS
      <3> HIDE DEF Behind, Key, Of
      <3> QED BY <1>2, <3>1, Zenon
    <2> HIDE DEF Of, Key
    <2>2. {a \in bundleEdges(edges) : e \in a.policies} = {Of(e)} BY <1>1, <1>4, <2>1
    <2> QED BY <2>2, FS_Singleton
  <1> HIDE DEF Of
  <1> QED BY <1>1, <1>5, <1>6

\* And so in the aggregated one.
LEMMA AggregatesSpeak ==
    ASSUME NEW workloads, NEW edges, NEW nodes,
           NEW a \in buildAggregatedElements(workloads, edges, nodes).arrows
    PROVE Speaks(a)
  <1> DEFINE groupOf(id) == IF NamespaceOf(nodes, id) = {} THEN id
                            ELSE NsId(CHOOSE ns \in NamespaceOf(nodes, id) : TRUE)
             valid == {NsId(ns) : ns \in Occupied(workloads)}
                      \cup Ids({w \in workloads : w.namespace = ""})
             Ends(e) == IF e.level = "namespace" THEN <<e.source, e.target>>
                        ELSE <<groupOf(e.source), groupOf(e.target)>>
             Key(e) == <<Ends(e), e.action, e.coverage = "except">>
             drawn == {e \in edges : /\ Ends(e)[1] # Ends(e)[2]
                                     /\ Ends(e)[1] \in valid /\ Ends(e)[2] \in valid}
             Behind(e) == {x \in drawn : Key(x) = Key(e)}
  <1>1. buildAggregatedElements(workloads, edges, nodes).arrows
           = {Arrow(Ends(e)[1], Ends(e)[2], Behind(e)) : e \in drawn}
    BY DEF buildAggregatedElements
  <1> HIDE DEF Ends, drawn
  <1>2. \A e : Alike(Behind(e)) BY DEF Alike
  <1> HIDE DEF Behind
  <1> QED BY <1>1, <1>2, AlikeSpeak

\* ArrowSpeaksForItsRules.
LEMMA ArrowsSpeak == ArrowSpeaksForItsRules
  <1> DEFINE g == PolicyGraph(data, st)
  <1>1. \A a \in g.arrows : Speaks(a)
    <2>1. CASE st.aggregateByNamespace BY <2>1, AggregatesSpeak DEF PolicyGraph
    <2>2. CASE ~st.aggregateByNamespace
      BY <2>2, BundlesSpeak DEF PolicyGraph, buildElements
    <2> QED BY <2>1, <2>2
  <1>2. ~st.aggregateByNamespace => g.arrows = bundleEdges(filteredEdges(data, st))
    BY DEF PolicyGraph, buildElements
  <1> HIDE DEF g
  <1>3. ~st.aggregateByNamespace =>
           \A e \in filteredEdges(data, st) : Cardinality({a \in g.arrows : e \in a.policies}) = 1
    BY <1>2, BundlesSpeak
  <1> QED BY <1>1, <1>3, Zenon DEF ArrowSpeaksForItsRules, Speaks, g

-----------------------------------------------------------------------------
(* Cluster-scoped policies in the policies tab.                            *)

StoreFields == DOMAIN InitialStore({}, {})

\* The widest selection changes the namespaces and nothing else.
LEMMA WideFields ==
    ASSUME NEW s, DOMAIN s = StoreFields
    PROVE /\ DOMAIN WideOpen(s) = StoreFields
          /\ WideOpen(s).selectedNamespaces = s.availableNamespaces
          /\ \A f \in StoreFields \ {"selectedNamespaces"} : WideOpen(s)[f] = s[f]
          /\ WideOpen(WideOpen(s)) = WideOpen(s)
  <1>1. {"selectedNamespaces", "availableNamespaces"} \subseteq StoreFields
    BY DEF StoreFields, InitialStore
  <1> QED BY <1>1 DEF WideOpen

\* The fields the filters read.
LEMMA FilterFields ==
    {"selectedNodeTypes", "searchQuery", "selectedMeshFilters", "showConnectedNamespaces",
     "selectedPolicySources", "selectedActions", "selectedDirections", "showNamespaceEdges",
     "availableNamespaces", "selectedIssueTypes"} \subseteq StoreFields \ {"selectedNamespaces"}
  BY DEF StoreFields, InitialStore

\* More namespaces never hide a node (filteredNodes).
LEMMA NodesMonotone ==
    ASSUME NEW d, NEW s, DOMAIN s = StoreFields,
           s.selectedNamespaces \subseteq s.availableNamespaces
    PROVE filteredNodes(d, s) \subseteq filteredNodes(d, WideOpen(s))
  <1> DEFINE w == WideOpen(s)
  <1>1. /\ w.selectedNamespaces = s.availableNamespaces
        /\ w.selectedNodeTypes = s.selectedNodeTypes /\ w.searchQuery = s.searchQuery
        /\ w.selectedMeshFilters = s.selectedMeshFilters
        /\ w.showConnectedNamespaces = s.showConnectedNamespaces
    BY WideFields, FilterFields
  <1> HIDE DEF w
  <1>2. \A n : nodeMatchesMeshFilter(d, s, n) <=> nodeMatchesMeshFilter(d, w, n)
    BY <1>1 DEF nodeMatchesMeshFilter
  <1>3. BaseNodes(d, s) \subseteq BaseNodes(d, w)
    BY <1>1, <1>2 DEF BaseNodes
  <1>4. Ids(BaseNodes(d, s)) \subseteq Ids(BaseNodes(d, w)) BY <1>3 DEF Ids
  <1>5. filteredNodes(d, s) \subseteq filteredNodes(d, w)
    BY <1>1, <1>2, <1>3, <1>4 DEF filteredNodes
  <1> QED BY <1>5 DEF w

\* Nor a rule (filteredEdges).
LEMMA EdgesMonotone ==
    ASSUME NEW d, NEW s, DOMAIN s = StoreFields,
           s.selectedNamespaces \subseteq s.availableNamespaces
    PROVE filteredEdges(d, s) \subseteq filteredEdges(d, WideOpen(s))
  <1> DEFINE w == WideOpen(s)
             nodes(t) == filteredNodes(d, t)
  <1>1. /\ w.selectedNamespaces = s.availableNamespaces
        /\ w.showConnectedNamespaces = s.showConnectedNamespaces
        /\ w.showNamespaceEdges = s.showNamespaceEdges
        /\ w.selectedPolicySources = s.selectedPolicySources
        /\ w.selectedActions = s.selectedActions
        /\ w.selectedDirections = s.selectedDirections
    BY WideFields, FilterFields
  <1>2. nodes(s) \subseteq nodes(w) BY NodesMonotone
  <1> HIDE DEF w, nodes
  <1>3. Ids(nodes(s)) \subseteq Ids(nodes(w)) /\ Occupied(nodes(s)) \subseteq Occupied(nodes(w))
    BY <1>2 DEF Ids, Occupied
  <1>4. \A e : edgeMatchesPolicyFilters(s, e) <=> edgeMatchesPolicyFilters(w, e)
    BY <1>1 DEF edgeMatchesPolicyFilters
  <1>5. filteredEdges(d, s) \subseteq filteredEdges(d, w)
    BY <1>1, <1>3, <1>4 DEF filteredEdges, nodes
  <1> QED BY <1>5 DEF w

\* The policies the tab is given, before its filter on findings.
LEMMA RefsListed ==
    ASSUME NEW d, NEW s
    PROVE {EdgeRef(e) : e \in policyTableEdges(d, s)}
          = {EdgeRef(e) : e \in filteredEdges(d, s)
                               \cup {x \in filteredEdges(d, WideOpen(s)) : x.namespace = ""}
                               \cup BlanketEdges(d, s, WideOpen(s))}
  <1> DEFINE scoped == filteredEdges(d, s)
             extra == {x \in filteredEdges(d, WideOpen(s)) : x.namespace = ""}
                      \cup BlanketEdges(d, s, WideOpen(s))
             seen == {edgeIdentity(e) : e \in scoped}
             more == {e \in extra : edgeIdentity(e) \notin seen}
             Pick(e) == CHOOSE x \in more : edgeIdentity(x) = edgeIdentity(e)
  <1>1. policyTableEdges(d, s) = scoped \cup {Pick(e) : e \in more}
    BY DEF policyTableEdges
  <1> HIDE DEF scoped, extra
  <1>2. \A e, x : edgeIdentity(e) = edgeIdentity(x) => EdgeRef(e) = EdgeRef(x)
    BY DEF edgeIdentity
  <1>3. ASSUME NEW e \in more
        PROVE Pick(e) \in more /\ EdgeRef(Pick(e)) = EdgeRef(e)
    <2>1. Pick(e) \in more /\ edgeIdentity(Pick(e)) = edgeIdentity(e)
      <3> HIDE DEF more
      <3> QED OBVIOUS
    <2> QED BY <1>2, <2>1
  <1>4. \A e \in extra \ more : \E x \in scoped : EdgeRef(x) = EdgeRef(e)
    BY <1>2
  <1>5. more \subseteq extra OBVIOUS
  <1> HIDE DEF more, Pick
  <1>6. {EdgeRef(e) : e \in scoped \cup {Pick(x) : x \in more}}
        = {EdgeRef(e) : e \in scoped \cup extra}
    BY <1>3, <1>4, <1>5
  <1> QED BY <1>1, <1>6 DEF scoped, extra

\* Cluster-scoped policies among the refs of some rules.
ScopedRefs(edges) == {ref \in {EdgeRef(e) : e \in edges} : ref.namespace = ""}

\* Blanket rules of cluster-scoped policies do not depend on the selection.
LEMMA BlanketsStay ==
    ASSUME NEW d, NEW s, DOMAIN s = StoreFields
    PROVE {e \in BlanketEdges(d, s, WideOpen(s)) : e.namespace = ""}
          = {e \in BlanketEdges(d, WideOpen(s), WideOpen(WideOpen(s))) : e.namespace = ""}
  <1> DEFINE w == WideOpen(s)
  <1>1. /\ w.availableNamespaces = s.availableNamespaces
        /\ w.selectedPolicySources = s.selectedPolicySources
        /\ w.selectedActions = s.selectedActions
        /\ w.selectedDirections = s.selectedDirections
        /\ WideOpen(w) = w
    BY WideFields, FilterFields
  <1> HIDE DEF w
  <1>2. \A e : edgeMatchesPolicyFilters(s, e) <=> edgeMatchesPolicyFilters(w, e)
    BY <1>1 DEF edgeMatchesPolicyFilters
  <1>3. {e \in BlanketEdges(d, s, w) : e.namespace = ""}
        = {e \in BlanketEdges(d, w, w) : e.namespace = ""}
    BY <1>1, <1>2 DEF BlanketEdges
  <1> QED BY <1>1, <1>3 DEF w

\* The cluster-scoped policies given to the tab do not depend on the selection.
LEMMA ScopedRefsStay ==
    ASSUME NEW d, NEW s, DOMAIN s = StoreFields,
           s.selectedNamespaces \subseteq s.availableNamespaces
    PROVE ScopedRefs(policyTableEdges(d, s)) = ScopedRefs(policyTableEdges(d, WideOpen(s)))
  <1> DEFINE w == WideOpen(s)
             Of(t) == filteredEdges(d, t)
                      \cup {x \in filteredEdges(d, WideOpen(t)) : x.namespace = ""}
                      \cup BlanketEdges(d, t, WideOpen(t))
  <1>1. \A t : ScopedRefs(policyTableEdges(d, t)) = {EdgeRef(e) : e \in {x \in Of(t) : x.namespace = ""}}
    <2> TAKE t
    <2>1. {EdgeRef(e) : e \in policyTableEdges(d, t)} = {EdgeRef(e) : e \in Of(t)}
      BY RefsListed
    <2>2. \A e : EdgeRef(e).namespace = e.namespace BY DEF EdgeRef, PolicyRef
    <2> HIDE DEF Of
    <2> QED BY <2>1, <2>2 DEF ScopedRefs
  <1>2. filteredEdges(d, s) \subseteq filteredEdges(d, w) BY EdgesMonotone
  <1>3. WideOpen(w) = w BY WideFields
  <1>4. {e \in BlanketEdges(d, s, w) : e.namespace = ""}
        = {e \in BlanketEdges(d, w, WideOpen(w)) : e.namespace = ""}
    BY BlanketsStay
  <1> HIDE DEF w
  <1>5. {x \in Of(s) : x.namespace = ""} = {x \in Of(w) : x.namespace = ""}
    BY <1>2, <1>3, <1>4 DEF w
  <1> HIDE DEF Of
  <1> QED BY <1>1, <1>5 DEF w

\* ClusterScopedAreListed, of any store.
LEMMA ScopedListed ==
    ASSUME DOMAIN st = StoreFields
    PROVE ClusterScopedAreListed
  <1> DEFINE Shown(t) == {r.ref : r \in {x \in PoliciesTable(data, t) : x.ref.namespace = ""}}
             Cited(t, ref) == \/ t.selectedIssueTypes = {}
                              \/ ref \in DOMAIN indexIssuesByPolicy(data.issues, t.selectedIssueTypes)
  <1>1. SUFFICES ASSUME st.selectedNamespaces \subseteq st.availableNamespaces
                 PROVE Shown(st) = Shown(WideOpen(st))
    BY DEF ClusterScopedAreListed
  <1>2. \A t : Shown(t) = {ref \in ScopedRefs(policyTableEdges(data, t)) : Cited(t, ref)}
    <2> TAKE t
    <2>1. tableEdges(data, t) = {e \in policyTableEdges(data, t) : Cited(t, EdgeRef(e))}
      BY DEF tableEdges
    <2>2. \A edges, ref : PolicyRow(data, edges, ref).ref = ref BY DEF PolicyRow
    <2>3. {r.ref : r \in PoliciesTable(data, t)} = {EdgeRef(e) : e \in tableEdges(data, t)}
      BY <2>2 DEF PoliciesTable
    <2>4. Shown(t) = {ref \in {r.ref : r \in PoliciesTable(data, t)} : ref.namespace = ""}
      OBVIOUS
    <2> HIDE DEF Shown, Cited
    <2> QED BY <2>1, <2>3, <2>4 DEF ScopedRefs
  <1>3. \A ref : Cited(st, ref) <=> Cited(WideOpen(st), ref)
    BY WideFields, FilterFields
  <1> HIDE DEF Shown, Cited
  <1> QED BY <1>1, <1>2, <1>3, ScopedRefsStay

-----------------------------------------------------------------------------
(* The inductive invariant: a store the clicks can make, and data the      *)
(* server has sent.                                                        *)

AllEdges == UNION {World[r].edges : r \in DOMAIN World}

\* Fields that hold some of a fixed set, and fields that hold one of a fixed set.
Bounded ==
    [selectedNodeTypes |-> ALL_NODE_TYPES, selectedStatuses |-> StatusKeys,
     selectedMeshFilters |-> MESH_FILTERS, selectedIssueTypes |-> ALL_ISSUE_TYPES,
     selectedPolicySources |-> World[1].sources, availablePolicySources |-> World[1].sources,
     selectedActions |-> Actions, selectedDirections |-> Directions,
     availableNamespaces |-> World[1].namespaces, selectedEdges |-> AllEdges]
FreeChoices ==
    [view |-> {"graph", "tables", "status"}, searchQuery |-> Searches \cup {Names},
     tablesTab |-> {"workloads", "policies", "issues"}]

FieldOK(f, v) ==
    /\ f \in DOMAIN Bounded => v \subseteq Bounded[f]
    /\ f \in DOMAIN FreeChoices => v \in FreeChoices[f]

PanelFields == {"selectedNode", "selectedEdges", "reachabilitySource", "reachabilityTarget"}

\* A pair the panel may ask about.
Askable(src, dst) == src # NoNode /\ (src.id = dst.id => IsSelfPair(src.id))

PanelOK(s) ==
    /\ s.selectedNode = NoNode \/ s.selectedEdges = {}
    /\ s.reachabilityTarget # NoNode => Askable(s.reachabilitySource, s.reachabilityTarget)

StoreOK(s) ==
    /\ DOMAIN s = StoreFields
    /\ \A f \in StoreFields : FieldOK(f, s[f])
    /\ PanelOK(s)

DataOK(d) ==
    /\ DOMAIN d = {"nodes", "edges", "issues", "mesh"}
    /\ IsFiniteSet(d.nodes) /\ \A n \in d.nodes : IsListed(n)
    /\ IsFiniteSet(d.edges) /\ d.edges \subseteq AllEdges
    /\ d.issues = <<>> \/ \E r \in DOMAIN World : d.issues = World[r].issues
    /\ \A id \in DOMAIN d.mesh : d.mesh[id].verdict \in DOMAIN MtlsTag
    /\ d.nodes = {} => d.issues = <<>>

IInv == StoreOK(st) /\ DataOK(data)

\* What the store lists is what the first answer listed.
LEMMA Listings ==
    ASSUME NEW s, StoreOK(s)
    PROVE /\ s.availablePolicySources \subseteq World[1].sources
          /\ s.availableNamespaces \subseteq World[1].namespaces
  <1>1. {"availablePolicySources", "availableNamespaces"} \subseteq StoreFields
    BY DEF StoreFields, InitialStore
  <1> QED BY <1>1 DEF StoreOK, FieldOK, Bounded

\* The fields the clicks write.
LEMMA Written ==
    /\ PanelFields \subseteq StoreFields
    /\ DOMAIN Bounded \cup DOMAIN FreeChoices \subseteq StoreFields
    /\ {"selectedNamespaces", "selectedPolicySources", "selectedActions",
        "selectedDirections", "issuesDrawerOpen", "availableNamespaces",
        "availablePolicySources"} \subseteq StoreFields
    /\ {"aggregateByNamespace", "showConnectedNamespaces", "showEngineIcons",
        "showMeshOverlay"} \subseteq StoreFields
  BY DEF StoreFields, InitialStore, PanelFields, Bounded, FreeChoices

\* Writing one field outside the panel.
LEMMA SetField ==
    ASSUME NEW s, StoreOK(s), NEW f \in StoreFields \ PanelFields, NEW v, FieldOK(f, v)
    PROVE StoreOK([s EXCEPT ![f] = v])
  <1> DEFINE t == [s EXCEPT ![f] = v]
  <1>1. DOMAIN t = StoreFields BY DEF StoreOK
  <1>2. \A g \in StoreFields : t[g] = IF g = f THEN v ELSE s[g] BY DEF StoreOK
  <1>3. \A g \in PanelFields : t[g] = s[g] BY <1>2, Written
  <1> HIDE DEF t
  <1>4. PanelOK(t)
    <2>1. PanelOK(s) BY DEF StoreOK
    <2> QED BY <1>3, <2>1 DEF PanelOK, PanelFields
  <1>5. \A g \in StoreFields : FieldOK(g, t[g]) BY <1>2 DEF StoreOK
  <1>6. StoreOK(t) BY <1>1, <1>4, <1>5 DEF StoreOK
  <1> QED BY <1>6 DEF t

\* Writing the panel's fields.
LEMMA SetPanel ==
    ASSUME NEW s, StoreOK(s), NEW t, DOMAIN t = StoreFields,
           \A g \in StoreFields \ PanelFields : t[g] = s[g],
           t.selectedEdges \subseteq AllEdges, PanelOK(t)
    PROVE StoreOK(t)
  <1>1. \A g \in PanelFields \ {"selectedEdges"} : g \notin DOMAIN Bounded \cup DOMAIN FreeChoices
    BY DEF PanelFields, Bounded, FreeChoices
  <1>2. FieldOK("selectedEdges", t.selectedEdges) BY DEF FieldOK, Bounded, FreeChoices
  <1>3. ASSUME NEW g \in StoreFields PROVE FieldOK(g, t[g])
    <2>1. CASE g \in StoreFields \ PanelFields BY <2>1 DEF StoreOK
    <2>2. CASE g = "selectedEdges" BY <1>2, <2>2
    <2>3. CASE g \in PanelFields \ {"selectedEdges"} BY <1>1, <2>3 DEF FieldOK
    <2> QED BY <2>1, <2>2, <2>3
  <1> QED BY <1>3 DEF StoreOK

-----------------------------------------------------------------------------
(* Clicks that select and pin.                                             *)

LEMMA StoreEdges ==
    ASSUME NEW s, StoreOK(s)
    PROVE s.selectedEdges \subseteq AllEdges /\ {} \subseteq AllEdges
  BY Written DEF StoreOK, FieldOK, Bounded, PanelFields

LEMMA Deselected ==
    ASSUME NEW s, StoreOK(s)
    PROVE StoreOK(deselect(s))
  <1>1. /\ DOMAIN deselect(s) = StoreFields
        /\ \A g \in StoreFields \ PanelFields : deselect(s)[g] = s[g]
        /\ deselect(s).selectedEdges = {} /\ deselect(s).selectedNode = NoNode
        /\ deselect(s).reachabilitySource = s.reachabilitySource
        /\ deselect(s).reachabilityTarget = s.reachabilityTarget
    BY Written DEF deselect, StoreOK, PanelFields
  <1>2. PanelOK(deselect(s)) BY <1>1 DEF StoreOK, PanelOK
  <1> QED BY <1>1, <1>2, SetPanel

LEMMA SelectedNode ==
    ASSUME NEW s, StoreOK(s), NEW node
    PROVE StoreOK(setSelectedNode(s, node))
  <1> DEFINE t == setSelectedNode(s, node)
  <1>1. CASE s.reachabilitySource # NoNode /\ node # NoNode /\ node.id # s.reachabilitySource.id
    <2>1. /\ DOMAIN t = StoreFields
          /\ \A g \in StoreFields \ PanelFields : t[g] = s[g]
          /\ t.selectedEdges = s.selectedEdges /\ t.selectedNode = s.selectedNode
          /\ t.reachabilitySource = s.reachabilitySource /\ t.reachabilityTarget = node
      BY <1>1, Written DEF setSelectedNode, StoreOK, PanelFields
    <2> HIDE DEF t
    <2>2. PanelOK(t) BY <1>1, <2>1 DEF StoreOK, PanelOK, Askable
    <2>3. StoreOK(t) BY <2>1, <2>2, SetPanel, StoreEdges
    <2> QED BY <2>3 DEF t
  <1>2. CASE ~(s.reachabilitySource # NoNode /\ node # NoNode /\ node.id # s.reachabilitySource.id)
    <2>1. /\ DOMAIN t = StoreFields
          /\ \A g \in StoreFields \ PanelFields : t[g] = s[g]
          /\ t.selectedEdges = {} /\ t.selectedNode = node
          /\ t.reachabilitySource = s.reachabilitySource
          /\ t.reachabilityTarget = s.reachabilityTarget
      BY <1>2, Written DEF setSelectedNode, StoreOK, PanelFields
    <2> HIDE DEF t
    <2>2. PanelOK(t) BY <2>1 DEF StoreOK, PanelOK
    <2>3. StoreOK(t) BY <2>1, <2>2, SetPanel, StoreEdges
    <2> QED BY <2>3 DEF t
  <1> QED BY <1>1, <1>2

LEMMA SelectedEdges ==
    ASSUME NEW s, StoreOK(s), NEW edges \in SUBSET AllEdges
    PROVE StoreOK(setSelectedEdges(s, edges))
  <1> DEFINE t == setSelectedEdges(s, edges)
  <1>1. /\ DOMAIN t = StoreFields
        /\ \A g \in StoreFields \ PanelFields : t[g] = s[g]
        /\ t.selectedEdges = edges /\ t.selectedNode = NoNode
        /\ t.reachabilitySource = s.reachabilitySource
        /\ t.reachabilityTarget = s.reachabilityTarget
    BY Written DEF setSelectedEdges, StoreOK, PanelFields
  <1> HIDE DEF t
  <1>2. PanelOK(t) BY <1>1 DEF StoreOK, PanelOK
  <1>3. StoreOK(t) BY <1>1, <1>2, SetPanel
  <1> QED BY <1>3 DEF t

LEMMA Pinned ==
    ASSUME NEW s, StoreOK(s), NEW node
    PROVE StoreOK(pinReachabilitySource(s, node)) /\ StoreOK(clearReachability(s))
  <1> DEFINE t == pinReachabilitySource(s, node)
  <1>1. clearReachability(s) = pinReachabilitySource(s, NoNode)
    BY DEF clearReachability, pinReachabilitySource
  <1>2. ASSUME NEW n PROVE StoreOK(pinReachabilitySource(s, n))
    <2> DEFINE u == pinReachabilitySource(s, n)
    <2>1. /\ DOMAIN u = StoreFields
          /\ \A g \in StoreFields \ PanelFields : u[g] = s[g]
          /\ u.selectedEdges = s.selectedEdges /\ u.selectedNode = s.selectedNode
          /\ u.reachabilitySource = n /\ u.reachabilityTarget = NoNode
      BY Written DEF pinReachabilitySource, StoreOK, PanelFields
    <2> HIDE DEF u
    <2>2. PanelOK(u) BY <2>1 DEF StoreOK, PanelOK
    <2>3. StoreOK(u) BY <2>1, <2>2, SetPanel, StoreEdges
    <2> QED BY <2>3 DEF u
  <1> QED BY <1>1, <1>2

LEMMA PairShown ==
    ASSUME NEW s, StoreOK(s), NEW src, NEW dst, Askable(src, dst)
    PROVE StoreOK(showReachability(s, src, dst))
  <1> DEFINE t == showReachability(s, src, dst)
  <1>1. /\ DOMAIN t = StoreFields
        /\ \A g \in StoreFields \ PanelFields : t[g] = s[g]
        /\ t.selectedEdges = {} /\ t.selectedNode = NoNode
        /\ t.reachabilitySource = src /\ t.reachabilityTarget = dst
    BY Written DEF showReachability, StoreOK, PanelFields
  <1> HIDE DEF t
  <1>2. PanelOK(t) BY <1>1 DEF PanelOK
  <1>3. StoreOK(t) BY <1>1, <1>2, SetPanel, StoreEdges
  <1> QED BY <1>3 DEF t

-----------------------------------------------------------------------------
(* Clicks on filters.                                                      *)

FilterNames ==
    {"selectedNamespaces", "selectedStatuses", "selectedPolicySources", "selectedNodeTypes",
     "selectedActions", "selectedDirections", "selectedMeshFilters", "selectedIssueTypes"}

\* What a filter may hold: some of its fixed set, if it has one.
Fits(f, values) == f \in DOMAIN Bounded => values \subseteq Bounded[f]

LEMMA FilterIsField ==
    ASSUME NEW f \in FilterNames
    PROVE f \in StoreFields \ PanelFields /\ f \notin DOMAIN FreeChoices
  <1>1. f \in StoreFields BY DEF FilterNames, StoreFields, InitialStore
  <1>2. f \notin PanelFields /\ f \notin DOMAIN FreeChoices BY DEF FilterNames, PanelFields, FreeChoices
  <1> QED BY <1>1, <1>2

LEMMA ChangedOK ==
    ASSUME NEW s, StoreOK(s), NEW f \in FilterNames, NEW v, Fits(f, v)
    PROVE StoreOK(Changed(s, f, v))
  <1>1. FieldOK(f, v) BY FilterIsField DEF FieldOK, Fits
  <1>2. StoreOK([s EXCEPT ![f] = v]) BY <1>1, FilterIsField, SetField
  <1>3. StoreOK(deselect([s EXCEPT ![f] = v])) BY <1>2, Deselected
  <1> QED BY <1>2, <1>3 DEF Changed

\* A filter holds what fits it.
LEMMA FilterFits ==
    ASSUME NEW s, StoreOK(s), NEW f \in FilterNames
    PROVE Fits(f, s[f])
  BY FilterIsField DEF StoreOK, FieldOK, Fits

LEMMA ToggleOK ==
    ASSUME NEW s, StoreOK(s), NEW f \in FilterNames, NEW values, Fits(f, values)
    PROVE /\ \A t \in CheckBoxes(s, f, values) : StoreOK(t)
          /\ \A t \in Links(s, f, values) : StoreOK(t)
          /\ \A v \in values : StoreOK(toggle(s, f, v))
  <1>1. Fits(f, s[f]) BY FilterFits
  <1>2. ASSUME NEW v \in values PROVE StoreOK(toggle(s, f, v))
    <2> DEFINE set == IF v \in s[f] THEN s[f] \ {v} ELSE s[f] \cup {v}
    <2>1. Fits(f, set) BY <1>1 DEF Fits
    <2> HIDE DEF set
    <2>2. StoreOK(Changed(s, f, set)) BY <2>1, ChangedOK
    <2> QED BY <2>2 DEF toggle, set
  <1>3. Fits(f, s[f] \cup values) /\ Fits(f, s[f] \ values) BY <1>1 DEF Fits
  <1>4. \A v : Fits(f, v) => StoreOK(Changed(s, f, v)) BY ChangedOK
  <1>5. \A t \in Links(s, f, values) :
          \/ t = Changed(s, f, s[f] \cup values) \/ t = Changed(s, f, s[f] \ values)
    BY DEF Links
  <1>6. \A t \in Links(s, f, values) : StoreOK(t) BY <1>3, <1>4, <1>5
  <1> QED BY <1>2, <1>6 DEF CheckBoxes

\* Every drop-down.
LEMMA DropdownsOK ==
    ASSUME NEW s, StoreOK(s)
    PROVE /\ \A t \in NamespaceDropdown(s) : StoreOK(t)
          /\ \A t \in StatusDropdown(s) : StoreOK(t)
          /\ \A t \in PolicySourceDropdown(s) : StoreOK(t)
          /\ \A t \in NodeTypeDropdown(s) : StoreOK(t)
          /\ \A t \in ActionDropdown(s) : StoreOK(t)
          /\ \A t \in DirectionDropdown(s) : StoreOK(t)
          /\ \A t \in MeshDropdown(s) : StoreOK(t)
  <1>1. /\ Fits("selectedNamespaces", s.availableNamespaces)
        /\ Fits("selectedPolicySources", s.availablePolicySources)
        /\ Fits("selectedActions", Actions) /\ Fits("selectedDirections", Directions)
        /\ Fits("selectedStatuses", StatusKeys \cap Clicks)
        /\ Fits("selectedNodeTypes", ALL_NODE_TYPES \cap Clicks)
        /\ Fits("selectedNodeTypes", ALL_NODE_TYPES)
        /\ Fits("selectedMeshFilters", MESH_FILTERS \cap Clicks)
        /\ Fits("selectedMeshFilters", {})
    BY Listings DEF Fits, Bounded
  <1>2. FilterNames = {"selectedNamespaces", "selectedStatuses", "selectedPolicySources",
                       "selectedNodeTypes", "selectedActions", "selectedDirections",
                       "selectedMeshFilters", "selectedIssueTypes"}
    BY DEF FilterNames
  <1>3. \A t \in NamespaceDropdown(s) : StoreOK(t)
    BY <1>1, <1>2, ToggleOK DEF NamespaceDropdown
  <1>4. \A t \in StatusDropdown(s) : StoreOK(t)
    BY <1>1, <1>2, ToggleOK DEF StatusDropdown
  <1>5. \A t \in PolicySourceDropdown(s) : StoreOK(t)
    BY <1>1, <1>2, ToggleOK DEF PolicySourceDropdown
  <1>6. \A t \in NodeTypeDropdown(s) : StoreOK(t)
    BY <1>1, <1>2, ToggleOK DEF NodeTypeDropdown
  <1>7. \A t \in ActionDropdown(s) : StoreOK(t) BY <1>1, <1>2, ToggleOK DEF ActionDropdown
  <1>8. \A t \in DirectionDropdown(s) : StoreOK(t)
    BY <1>1, <1>2, ToggleOK DEF DirectionDropdown
  <1>9. \A t \in MeshDropdown(s) : StoreOK(t)
    BY <1>1, <1>2, ToggleOK, ChangedOK DEF MeshDropdown
  <1> QED BY <1>3, <1>4, <1>5, <1>6, <1>7, <1>8, <1>9

LEMMA IssueTypesOK ==
    ASSUME NEW d, NEW s, StoreOK(s)
    PROVE /\ \A t \in IssueTypeDropdown(d, s) : StoreOK(t)
          /\ StoreOK([s EXCEPT !.issuesDrawerOpen = FALSE])
  <1>1. /\ \A v : FieldOK("issuesDrawerOpen", v)
        /\ "issuesDrawerOpen" \in StoreFields \ PanelFields
    BY Written DEF FieldOK, Bounded, FreeChoices, PanelFields
  <1>2. StoreOK([s EXCEPT !.issuesDrawerOpen = FALSE]) BY <1>1, SetField
  <1>3. StoreOK([s EXCEPT !.issuesDrawerOpen = TRUE]) BY <1>1, SetField
  <1> DEFINE found == {t \in ALL_ISSUE_TYPES : countIssuesByType(d.issues)[t] > 0}
             boxes == CheckBoxes(s, "selectedIssueTypes", found \cap Clicks)
             links == Links(s, "selectedIssueTypes", ALL_ISSUE_TYPES \cap Clicks)
             opened == {[s EXCEPT !.issuesDrawerOpen = TRUE] : t \in found}
  <1>4. IssueTypeDropdown(d, s) = boxes \cup links \cup opened BY DEF IssueTypeDropdown
  <1>5. \A t \in opened : StoreOK(t) BY <1>3
  <1>6. found \subseteq ALL_ISSUE_TYPES OBVIOUS
  <1> HIDE DEF found
  <1>7. /\ Fits("selectedIssueTypes", found \cap Clicks)
        /\ Fits("selectedIssueTypes", ALL_ISSUE_TYPES \cap Clicks)
    BY <1>6 DEF Fits, Bounded
  <1>8. "selectedIssueTypes" \in FilterNames BY DEF FilterNames
  <1>9. (\A t \in boxes : StoreOK(t)) /\ (\A t \in links : StoreOK(t))
    BY <1>7, <1>8, ToggleOK
  <1> QED BY <1>2, <1>4, <1>5, <1>9

LEMMA ResetOK ==
    ASSUME NEW s, StoreOK(s)
    PROVE StoreOK(resetAll(s))
  <1> DEFINE set == [f \in DOMAIN s |->
                       IF f \notin Narrowed(s) THEN s[f]
                       ELSE IF f \in DOMAIN Full(s) THEN s[f] \cup Full(s)[f] ELSE {}]
  <1>1. /\ DOMAIN s = StoreFields /\ PanelOK(s)
        /\ \A f \in StoreFields : FieldOK(f, s[f])
    BY DEF StoreOK
  <1>2. \A f \in Narrowed(s) : f \in DOMAIN Full(s) \/ f \in EmptyFilters
    BY DEF Narrowed
  <1>3. /\ DOMAIN Full(s) = {"selectedNamespaces", "selectedNodeTypes",
                             "selectedPolicySources", "selectedActions", "selectedDirections"}
        /\ Full(s).selectedNodeTypes = ALL_NODE_TYPES
        /\ Full(s).selectedPolicySources = s.availablePolicySources
        /\ Full(s).selectedActions = Actions /\ Full(s).selectedDirections = Directions
    BY DEF Full
  <1>4. \A f \in DOMAIN Full(s) \cup EmptyFilters : f \notin PanelFields /\ f \notin DOMAIN FreeChoices
    BY <1>3 DEF EmptyFilters, PanelFields, FreeChoices
  <1>5. \A f \in DOMAIN Full(s) : f \in DOMAIN Bounded => Full(s)[f] \subseteq Bounded[f]
    BY <1>3, Listings DEF Bounded
  <1>6. DOMAIN set = StoreFields BY <1>1
  <1>7. \A g \in PanelFields : set[g] = s[g] BY <1>1, <1>2, <1>4, Written
  <1>8. ASSUME NEW f \in StoreFields PROVE FieldOK(f, set[f])
    <2>1. CASE f \notin Narrowed(s) BY <1>1, <2>1
    <2>2. CASE f \in Narrowed(s) /\ f \in DOMAIN Full(s)
      <3>1. set[f] = s[f] \cup Full(s)[f] BY <1>1, <2>2
      <3>2. FieldOK(f, s[f]) /\ f \notin DOMAIN FreeChoices BY <1>1, <1>4, <2>2
      <3> HIDE DEF set
      <3> QED BY <1>5, <2>2, <3>1, <3>2 DEF FieldOK
    <2>3. CASE f \in Narrowed(s) /\ f \notin DOMAIN Full(s)
      <3>1. set[f] = {} BY <1>1, <2>3
      <3>2. f \notin DOMAIN FreeChoices BY <1>2, <1>4, <2>3
      <3> HIDE DEF set
      <3> QED BY <3>1, <3>2 DEF FieldOK
    <2> QED BY <2>1, <2>2, <2>3
  <1> HIDE DEF set
  <1>9. PanelOK(set) BY <1>1, <1>7 DEF PanelOK, PanelFields
  <1>10. StoreOK(set) BY <1>6, <1>8, <1>9 DEF StoreOK
  <1>11. StoreOK(deselect(set)) BY <1>10, Deselected
  <1> QED BY <1>10, <1>11 DEF resetAll, set

\* A field of a fixed choice, and the display options.
LEMMA PlacesOK ==
    ASSUME NEW s, StoreOK(s)
    PROVE /\ \A v \in {"graph", "tables", "status"} : StoreOK([s EXCEPT !.view = v])
          /\ \A v \in {"workloads", "policies", "issues"} : StoreOK([s EXCEPT !.tablesTab = v])
          /\ \A v \in Searches \cup {Names} : StoreOK([s EXCEPT !.searchQuery = v])
  <1>1. {"view", "tablesTab", "searchQuery"} \subseteq StoreFields \ PanelFields
    BY Written DEF FreeChoices, PanelFields
  <1>2. /\ \A v \in {"graph", "tables", "status"} : FieldOK("view", v)
        /\ \A v \in {"workloads", "policies", "issues"} : FieldOK("tablesTab", v)
        /\ \A v \in Searches \cup {Names} : FieldOK("searchQuery", v)
    BY DEF FieldOK, Bounded, FreeChoices
  <1> QED BY <1>1, <1>2, SetField

LEMMA ToolbarOK ==
    ASSUME NEW s, StoreOK(s)
    PROVE \A t \in FilterPanel(s) : StoreOK(t)
  <1>1. /\ {"aggregateByNamespace", "showConnectedNamespaces", "showEngineIcons",
           "showMeshOverlay"} \subseteq StoreFields \ PanelFields
        /\ \A f \in {"aggregateByNamespace", "showConnectedNamespaces", "showEngineIcons",
                     "showMeshOverlay"} : \A v : FieldOK(f, v)
    BY Written DEF PanelFields, FieldOK, Bounded, FreeChoices
  <1>2. \A f \in {"aggregateByNamespace", "showConnectedNamespaces", "showEngineIcons",
                 "showMeshOverlay"} : StoreOK([s EXCEPT ![f] = ~s[f]])
    BY <1>1, SetField
  <1>3. \A t \in DisplayDropdown(s) : StoreOK(t) BY <1>2 DEF DisplayDropdown
  <1> QED BY <1>3, ResetOK, PlacesOK DEF FilterPanel

-----------------------------------------------------------------------------
(* Clicks on findings.                                                     *)

\* What the answers so far tell of the findings.
LEMMA DataFindings ==
    ASSUME NEW d, DataOK(d)
    PROVE /\ AreFindings(d.issues)
          /\ \A k \in DOMAIN d.issues : isEdge(d.issues[k]) =>
                Askable(d.issues[k].src, d.issues[k].dst)
  <1>1. CASE d.issues = <<>>
    <2>1. DOMAIN d.issues = {} BY <1>1
    <2> QED BY <2>1 DEF AreFindings
  <1>2. CASE \E r \in DOMAIN World : d.issues = World[r].issues
    <2>1. PICK r \in DOMAIN World : d.issues = World[r].issues BY <1>2
    <2>2. AreFindings(d.issues) BY <2>1, WorldAssumption DEF AreFindings
    <2>3. ASSUME NEW k \in DOMAIN d.issues, isEdge(d.issues[k])
          PROVE Askable(d.issues[k].src, d.issues[k].dst)
      <3>1. d.issues[k].src # NoNode BY <2>3 DEF isEdge
      <3>2. d.issues[k].src.id = d.issues[k].dst.id => IsSelfPair(d.issues[k].src.id)
        BY <2>1, <2>3 DEF IsSelfPair
      <3> QED BY <3>1, <3>2 DEF Askable
    <2> QED BY <2>2, <2>3
  <1> QED BY <1>1, <1>2 DEF DataOK

\* The rows the findings are folded into are about askable pairs, too.
LEMMA RowsAskable ==
    ASSUME NEW issues, AreFindings(issues),
           \A k \in DOMAIN issues : isEdge(issues[k]) => Askable(issues[k].src, issues[k].dst),
           NEW r \in mergeIssuesByPair(issues), isEdge(r)
    PROVE Askable(r.src, r.dst)
  <1>1. PICK k \in DOMAIN issues : SameSubject(r, issues[k]) BY RowIsFinding
  <1>2. isEdge(issues[k]) /\ r.src = issues[k].src /\ r.dst = issues[k].dst
    BY <1>1 DEF SameSubject, isEdge
  <1> QED BY <1>2

LEMMA PolicySelected ==
    ASSUME NEW d, DataOK(d), NEW s, StoreOK(s), NEW ref
    PROVE StoreOK(selectPolicyByRef(d, s, ref))
  <1> DEFINE matching == {e \in d.edges : EdgeRef(e) = ref}
  <1>1. matching \in SUBSET AllEdges BY DEF DataOK
  <1> HIDE DEF matching
  <1>2. StoreOK(setSelectedEdges(s, matching)) BY <1>1, SelectedEdges
  <1> QED BY <1>2 DEF selectPolicyByRef, matching

LEMMA FindingOpened ==
    ASSUME NEW d, DataOK(d), NEW s, StoreOK(s), NEW i,
           isEdge(i) => Askable(i.src, i.dst)
    PROVE /\ StoreOK(openIssue(s, i))
          /\ \A t \in FindingClicks(d, s, i) : StoreOK(t)
  <1>1. isEdge(i) => StoreOK(showReachability(s, i.src, i.dst)) BY PairShown
  <1>2. StoreOK(setSelectedNode(s, i.node)) BY SelectedNode
  <1>3. StoreOK(openIssue(s, i)) BY <1>1, <1>2 DEF openIssue
  <1> QED BY <1>3, PolicySelected DEF FindingClicks

LEMMA DrawerOK ==
    ASSUME NEW d, DataOK(d), NEW s, StoreOK(s)
    PROVE \A t \in DrawerClicks(d, s) : StoreOK(t)
  <1>1. \A r \in mergeIssuesByPair(d.issues) : isEdge(r) => Askable(r.src, r.dst)
    BY DataFindings, RowsAskable
  <1>2. \A r \in mergeIssuesByPair(d.issues) : StoreOK(openIssue(s, r))
    BY <1>1, FindingOpened
  <1> QED BY <1>2, IssueTypesOK DEF DrawerClicks

LEMMA PopoverOK ==
    ASSUME NEW d, DataOK(d), NEW s, StoreOK(s), NEW indices \in SUBSET DOMAIN d.issues
    PROVE \A t \in IssuesPopover(d, s, indices) : StoreOK(t)
  <1>1. \A i \in indices : isEdge(d.issues[i]) => Askable(d.issues[i].src, d.issues[i].dst)
    BY DataFindings
  <1>2. \A i \in indices : \A t \in FindingClicks(d, s, d.issues[i]) : StoreOK(t)
    BY <1>1, FindingOpened
  <1> QED BY <1>2 DEF IssuesPopover

-----------------------------------------------------------------------------
(* Clicks on the graph.                                                    *)

\* The rules behind an arrow are rules of the data.
LEMMA ArrowPolicies ==
    ASSUME NEW d, NEW s, NEW a \in PolicyGraph(d, s).arrows
    PROVE a.policies \subseteq d.edges
  <1>1. \A src, dst, p : Arrow(src, dst, p).policies = p BY DEF Arrow
  <1>2. filteredEdges(d, s) \subseteq d.edges BY DEF filteredEdges
  <1>3. ASSUME NEW edges, NEW x \in bundleEdges(edges) PROVE x.policies \subseteq edges
    <2> DEFINE Key(e) == <<e.source, e.target, e.action, e.coverage = "except">>
               Behind(e) == {y \in edges : Key(y) = Key(e)}
    <2>1. PICK e \in edges : x = Arrow(e.source, e.target, Behind(e)) BY DEF bundleEdges
    <2>2. Behind(e) \subseteq edges OBVIOUS
    <2> HIDE DEF Behind
    <2> QED BY <1>1, <2>1, <2>2
  <1>4. ASSUME NEW workloads, NEW edges, NEW nodes,
               NEW x \in buildElements(workloads, edges, nodes).arrows
        PROVE x \in bundleEdges(edges)
    BY <1>4 DEF buildElements
  <1>5. ASSUME NEW workloads, NEW edges, NEW nodes,
               NEW x \in buildAggregatedElements(workloads, edges, nodes).arrows
        PROVE x.policies \subseteq edges
    BY <1>5, AggregatedEnds
  <1> QED BY <1>2, <1>3, <1>4, <1>5 DEF PolicyGraph

LEMMA MarkTags ==
    ASSUME NEW d, DataOK(d), NEW s, NEW g, NEW m \in MeshMarks(d, s, g)
    PROVE m.tag \in MESH_FILTERS
  <1>1. \A id : Membership(d.mesh, id).verdict \in DOMAIN MtlsTag
    BY DEF Membership, DataOK, MtlsTag
  <1>2. \A id : meshFilterFor(d, id) \in MESH_FILTERS
    BY <1>1 DEF meshFilterFor, MESH_FILTERS
  <1> QED BY <1>2 DEF MeshMarks

LEMMA GraphOK ==
    ASSUME NEW d, DataOK(d), NEW s, StoreOK(s)
    PROVE /\ \A t \in TapNode(d, s) : StoreOK(t)
          /\ \A t \in RightClickNode(d, s) : StoreOK(t)
          /\ \A t \in TapEdge(d, s) : StoreOK(t)
          /\ StoreOK(TapBackground(s))
          /\ \A t \in ClickMeshMark(d, s) : StoreOK(t)
  <1>1. \A t \in TapNode(d, s) : \E n : t = setSelectedNode(s, n)
    BY DEF TapNode
  <1>2. \A t \in RightClickNode(d, s) : \E n : t = pinReachabilitySource(s, n)
    BY DEF RightClickNode
  <1>3. \A a \in PolicyGraph(d, s).arrows : a.policies \in SUBSET AllEdges
    BY ArrowPolicies DEF DataOK
  <1>4. \A t \in TapEdge(d, s) : StoreOK(t) BY <1>3, SelectedEdges DEF TapEdge
  <1>5. StoreOK(TapBackground(s))
    <2>1. StoreOK(setSelectedNode(s, NoNode)) BY SelectedNode
    <2> QED BY <2>1, SelectedEdges DEF TapBackground
  <1>6. Fits("selectedMeshFilters", MESH_FILTERS) /\ "selectedMeshFilters" \in FilterNames
    BY DEF Fits, Bounded, FilterNames
  <1>7. \A v \in MESH_FILTERS : StoreOK(toggle(s, "selectedMeshFilters", v))
    BY <1>6, ToggleOK
  <1>8. \A t \in ClickMeshMark(d, s) : StoreOK(t) BY <1>7, MarkTags DEF ClickMeshMark
  <1> QED BY <1>1, <1>2, <1>4, <1>5, <1>8, SelectedNode, Pinned

-----------------------------------------------------------------------------
(* Clicks in the tables.                                                   *)

LEMMA VisibleNodes ==
    ASSUME NEW d, NEW s
    PROVE filteredNodes(d, s) \subseteq d.nodes
  BY DEF filteredNodes, BaseNodes

LEMMA TableEdgesLoaded ==
    ASSUME NEW d, NEW s
    PROVE tableEdges(d, s) \subseteq d.edges
  <1> DEFINE scoped == filteredEdges(d, s)
             seen == {edgeIdentity(e) : e \in scoped}
             more == {e \in {x \in filteredEdges(d, WideOpen(s)) : x.namespace = ""}
                           \cup BlanketEdges(d, s, WideOpen(s)) : edgeIdentity(e) \notin seen}
  <1>1. policyTableEdges(d, s)
        = scoped \cup {CHOOSE x \in more : edgeIdentity(x) = edgeIdentity(e) : e \in more}
    BY DEF policyTableEdges
  <1>2. scoped \subseteq d.edges BY DEF filteredEdges
  <1>3. more \subseteq d.edges BY DEF filteredEdges, BlanketEdges
  <1> HIDE DEF scoped, more
  <1>4. \A e \in more : (CHOOSE x \in more : edgeIdentity(x) = edgeIdentity(e)) \in more
    OBVIOUS
  <1>5. policyTableEdges(d, s) \subseteq d.edges BY <1>1, <1>2, <1>3, <1>4
  <1> QED BY <1>5 DEF tableEdges

\* The indexes hold positions of findings.
LEMMA LookupPositions ==
    ASSUME NEW issues, NEW types, NEW key
    PROVE /\ Lookup(indexIssuesByNode(issues, types), key) \subseteq DOMAIN issues
          /\ Lookup(indexIssuesByPolicy(issues, types), key) \subseteq DOMAIN issues
  <1>1. Listed(issues, types) \subseteq DOMAIN issues BY DEF Listed
  <1>2. Lookup(indexIssuesByNode(issues, types), key) \subseteq DOMAIN issues
    BY <1>1 DEF Lookup, indexIssuesByNode
  <1>3. Lookup(indexIssuesByPolicy(issues, types), key) \subseteq DOMAIN issues
    BY <1>1 DEF Lookup, indexIssuesByPolicy
  <1> QED BY <1>2, <1>3

LEMMA OpenedOK ==
    ASSUME NEW s, StoreOK(s)
    PROVE StoreOK(openInGraph(s))
  BY PlacesOK DEF openInGraph

LEMMA WorkloadsOK ==
    ASSUME NEW d, DataOK(d), NEW s, StoreOK(s)
    PROVE \A t \in WorkloadClicks(d, s) : StoreOK(t)
  <1>1. DOMAIN StatusRollup(filteredNodes(d, s)) \subseteq StatusKeys
    <2>1. \A n \in filteredNodes(d, s) : n.statuses \subseteq StatusKeys
      BY VisibleNodes DEF DataOK, IsListed, IsNode
    <2> QED BY <2>1 DEF StatusRollup
  <1>2. Fits("selectedStatuses", StatusKeys) /\ "selectedStatuses" \in FilterNames
    BY DEF Fits, Bounded, FilterNames
  <1>3. \A k \in StatusKeys : StoreOK(toggle(s, "selectedStatuses", k))
    BY <1>2, ToggleOK
  <1>4. \A r \in WorkloadsTable(d, s) : r.issues \in SUBSET DOMAIN d.issues
    BY LookupPositions DEF WorkloadsTable
  <1>5. \A r \in WorkloadsTable(d, s) : /\ StoreOK(setSelectedNode(s, r.node))
                                       /\ StoreOK(openInGraph(setSelectedNode(s, r.node)))
    BY SelectedNode, OpenedOK
  <1>6. \A r \in WorkloadsTable(d, s) : \A t \in IssuesPopover(d, s, r.issues) : StoreOK(t)
    BY <1>4, PopoverOK
  <1> QED BY <1>1, <1>3, <1>5, <1>6 DEF WorkloadClicks

LEMMA PoliciesOK ==
    ASSUME NEW d, DataOK(d), NEW s, StoreOK(s)
    PROVE \A t \in PolicyClicks(d, s) : StoreOK(t)
  <1>1. Fits("selectedPolicySources", s.availablePolicySources)
        /\ "selectedPolicySources" \in FilterNames
    BY Listings DEF Fits, Bounded, FilterNames
  <1>2. \A t \in CheckBoxes(s, "selectedPolicySources", s.availablePolicySources) : StoreOK(t)
    BY <1>1, ToggleOK
  <1>0. \A edges, ref :
          /\ PolicyRow(d, edges, ref).edges = {e \in edges : EdgeRef(e) = ref}
          /\ PolicyRow(d, edges, ref).issues = Lookup(indexIssuesByPolicy(d.issues, {}), ref)
    BY DEF PolicyRow
  <1>3. \A r \in PoliciesTable(d, s) : r.edges \subseteq tableEdges(d, s)
    BY <1>0 DEF PoliciesTable
  <1>4. \A r \in PoliciesTable(d, s) : r.edges \in SUBSET AllEdges
    BY <1>3, TableEdgesLoaded DEF DataOK
  <1>5. \A r \in PoliciesTable(d, s) : r.issues \in SUBSET DOMAIN d.issues
    BY <1>0, LookupPositions DEF PoliciesTable
  <1>6. \A r \in PoliciesTable(d, s) : /\ StoreOK(setSelectedEdges(s, r.edges))
                                      /\ StoreOK(openInGraph(setSelectedEdges(s, r.edges)))
    BY <1>4, SelectedEdges, OpenedOK
  <1>7. \A r \in PoliciesTable(d, s) : \A t \in IssuesPopover(d, s, r.issues) : StoreOK(t)
    BY <1>5, PopoverOK
  <1> QED BY <1>2, <1>6, <1>7 DEF PolicyClicks

LEMMA IssueTabOK ==
    ASSUME NEW d, DataOK(d), NEW s, StoreOK(s)
    PROVE \A t \in IssueClicks(d, s) : StoreOK(t)
  <1> DEFINE kept == tableIssues(d, s)
  <1>1. Fits("selectedIssueTypes", IssueChips \cap Clicks) /\ "selectedIssueTypes" \in FilterNames
    BY DEF Fits, Bounded, FilterNames, IssueChips
  <1>2. \A t \in CheckBoxes(s, "selectedIssueTypes", IssueChips \cap Clicks) : StoreOK(t)
    BY <1>1, ToggleOK
  <1>3. /\ DOMAIN kept \subseteq DOMAIN d.issues
        /\ \A k \in DOMAIN kept : kept[k] = d.issues[k]
    BY DEF tableIssues, Listed
  <1>4. /\ AreFindings(kept)
        /\ \A k \in DOMAIN kept : isEdge(kept[k]) => Askable(kept[k].src, kept[k].dst)
    <2> HIDE DEF kept
    <2> QED BY <1>3, DataFindings DEF AreFindings
  <1>5. IssueRows(d, s) = mergeIssuesByPair(kept) BY DEF IssueRows, IssuesTable
  <1> HIDE DEF kept
  <1>6. \A r \in IssueRows(d, s) : isEdge(r) => Askable(r.src, r.dst)
    BY <1>4, <1>5, RowsAskable
  <1>7. \A r \in IssueRows(d, s) : \A t \in FindingClicks(d, s, r) : StoreOK(t)
    BY <1>6, FindingOpened
  <1> QED BY <1>2, <1>7 DEF IssueClicks

LEMMA TablesOK ==
    ASSUME NEW d, DataOK(d), NEW s, StoreOK(s)
    PROVE \A t \in TablesView(d, s) : StoreOK(t)
  <1>1. s.tablesTab \in {"workloads", "policies", "issues"}
    BY Written DEF StoreOK, FieldOK, FreeChoices
  <1> DEFINE tabs == {[s EXCEPT !.tablesTab = t] :
                         t \in {"workloads", "policies", "issues"} \ {s.tablesTab}}
  <1>2. \A t \in tabs : StoreOK(t) BY PlacesOK
  <1>3. CASE s.tablesTab = "workloads"
    <2>1. TablesView(d, s) = WorkloadClicks(d, s) \cup tabs BY <1>3 DEF TablesView
    <2> QED BY <1>2, <2>1, WorkloadsOK
  <1>4. CASE s.tablesTab = "policies"
    <2>1. TablesView(d, s) = PolicyClicks(d, s) \cup tabs BY <1>4 DEF TablesView
    <2> QED BY <1>2, <2>1, PoliciesOK
  <1>5. CASE s.tablesTab = "issues"
    <2>1. TablesView(d, s) = IssueClicks(d, s) \cup tabs BY <1>5 DEF TablesView
    <2> QED BY <1>2, <2>1, IssueTabOK
  <1> QED BY <1>1, <1>3, <1>4, <1>5

-----------------------------------------------------------------------------
(* Clicks on the status page and in the panel.                             *)

LEMMA StatusPageOK ==
    ASSUME NEW d, DataOK(d), NEW s, StoreOK(s)
    PROVE \A t \in StatusClicks(d, s) : StoreOK(t)
  <1> DEFINE page == ClusterStatusView(d, s)
             chips == {t \in MESH_FILTERS : page.mesh[t] > 0}
  <1>1. ASSUME NEW t \in {"workloads", "policies", "issues"}
        PROVE StoreOK(openTables(s, t))
    <2> DEFINE u == [s EXCEPT !.tablesTab = t]
    <2>1. StoreOK(u) BY PlacesOK
    <2>2. openTables(s, t) = [u EXCEPT !.view = "tables"] BY DEF openTables
    <2> HIDE DEF u
    <2> QED BY <2>1, <2>2, PlacesOK
  <1>2. /\ Fits("selectedIssueTypes", IssueChips \cap Clicks)
        /\ Fits("selectedMeshFilters", MESH_FILTERS) /\ Fits("selectedStatuses", StatusKeys)
        /\ \A v : Fits("selectedNamespaces", v)
        /\ Fits("selectedPolicySources", s.availablePolicySources)
        /\ {"selectedIssueTypes", "selectedMeshFilters", "selectedStatuses",
            "selectedNamespaces", "selectedPolicySources"} \subseteq FilterNames
    BY Listings DEF Fits, Bounded, FilterNames, IssueChips
  <1>3. ASSUME NEW ns PROVE StoreOK(NamespaceRow(s, ns))
    <2>1. StoreOK(Changed(s, "selectedNamespaces", {ns})) BY <1>2, ChangedOK
    <2> QED BY <2>1, OpenedOK DEF NamespaceRow, selectNamespaceOnly
  <1>4. ASSUME NEW t \in MESH_FILTERS PROVE StoreOK(MeshChip(s, t))
    <2>1. StoreOK(toggle(s, "selectedMeshFilters", t)) BY <1>2, ToggleOK
    <2> QED BY <2>1, OpenedOK DEF MeshChip
  <1>5. \A t \in CheckBoxes(s, "selectedIssueTypes", IssueChips \cap Clicks) : StoreOK(t)
    BY <1>2, ToggleOK
  <1>6. \A t \in CheckBoxes(s, "selectedPolicySources", s.availablePolicySources) : StoreOK(t)
    BY <1>2, ToggleOK
  <1>7. DOMAIN page.statusChips \subseteq StatusKeys
    <2>1. \A n \in filteredNodes(d, s) : n.statuses \subseteq StatusKeys
      BY VisibleNodes DEF DataOK, IsListed, IsNode
    <2>2. page.statusChips = StatusRollup(filteredNodes(d, s)) BY DEF ClusterStatusView
    <2> HIDE DEF page
    <2> QED BY <2>1, <2>2 DEF StatusRollup
  <1> HIDE DEF page
  <1>8. \A t \in CheckBoxes(s, "selectedStatuses", DOMAIN page.statusChips) : StoreOK(t)
    <2>1. Fits("selectedStatuses", DOMAIN page.statusChips) BY <1>7 DEF Fits, Bounded
    <2> QED BY <1>2, <2>1, ToggleOK
  <1>9. \A n : \A t \in NodeClicks(s, n) : StoreOK(t)
    BY SelectedNode, OpenedOK DEF NodeClicks
  <1>10. \A t \in StatusClicks(d, s) :
           \/ \E tab \in {"workloads", "policies", "issues"} : t = openTables(s, tab)
           \/ \E ns : t = NamespaceRow(s, ns)
           \/ \E tag \in MESH_FILTERS : t = MeshChip(s, tag)
           \/ t \in CheckBoxes(s, "selectedIssueTypes", IssueChips \cap Clicks)
           \/ t \in CheckBoxes(s, "selectedPolicySources", s.availablePolicySources)
           \/ t \in CheckBoxes(s, "selectedStatuses", DOMAIN page.statusChips)
           \/ \E n : t \in NodeClicks(s, n)
    BY DEF StatusClicks, page
  <1> QED BY <1>1, <1>3, <1>4, <1>5, <1>6, <1>8, <1>9, <1>10

\* The findings listed in the panel are rows of the drawer.
LEMMA PanelRows ==
    ASSUME NEW d, NEW s
    PROVE PanelFindings(d, s) \subseteq mergeIssuesByPair(d.issues)
  <1>1. \A id : useScopedNodeIssues(d, id) \subseteq mergeIssuesByPair(d.issues)
    BY DEF useScopedNodeIssues
  <1>2. \A src, dst : PairIssues(d, src, dst) \subseteq mergeIssuesByPair(d.issues)
    BY DEF PairIssues
  <1> QED BY <1>1, <1>2 DEF PanelFindings

LEMMA DetailsOK ==
    ASSUME NEW d, DataOK(d), NEW s, StoreOK(s)
    PROVE \A t \in DetailClicks(d, s) : StoreOK(t)
  <1>1. StoreOK(close(s))
    <2>1. StoreOK(TapBackground(s)) BY GraphOK
    <2> QED BY <2>1, Pinned DEF close
  <1>2. ASSUME s.reachabilityTarget # NoNode
        PROVE StoreOK(showReachability(s, s.reachabilityTarget, s.reachabilitySource))
    <2>1. Askable(s.reachabilityTarget, s.reachabilitySource)
      BY <1>2 DEF StoreOK, PanelOK, Askable
    <2> QED BY <2>1, PairShown
  <1>3. ASSUME NEW n PROVE StoreOK(pinReachabilitySource(s, n)) BY Pinned
  <1>4. ASSUME NEW pair \in groupEdgesByPair(s.selectedEdges)
        PROVE StoreOK(setSelectedEdges(s, pair))
    <2>1. pair \subseteq s.selectedEdges BY DEF groupEdgesByPair
    <2>2. pair \in SUBSET AllEdges BY <2>1, StoreEdges
    <2> QED BY <2>2, SelectedEdges
  <1>5. ASSUME NEW r \in PanelFindings(d, s)
        PROVE \A t \in PanelFindingClicks(d, s, r) : StoreOK(t)
    <2>1. isEdge(r) => Askable(r.src, r.dst)
      BY PanelRows, DataFindings, RowsAskable
    <2>2. isEdge(r) => StoreOK(showReachability(s, r.src, r.dst)) BY <2>1, PairShown
    <2> QED BY <2>2, PolicySelected DEF PanelFindingClicks
  <1>6. \A t \in DetailClicks(d, s) :
          \/ t = close(s)
          \/ /\ s.reachabilityTarget # NoNode
             /\ t = showReachability(s, s.reachabilityTarget, s.reachabilitySource)
          \/ \E n : t = pinReachabilitySource(s, n)
          \/ \E pair \in groupEdgesByPair(s.selectedEdges) : t = setSelectedEdges(s, pair)
          \/ \E r \in PanelFindings(d, s) : t \in PanelFindingClicks(d, s, r)
    BY DEF DetailClicks
  <1> QED BY <1>1, <1>2, <1>3, <1>4, <1>5, <1>6

-----------------------------------------------------------------------------
(* The invariant is inductive.                                             *)

LEMMA ClickOK ==
    ASSUME IInv, NEW next, \A s \in next : StoreOK(s), Click(next)
    PROVE IInv'
  BY DEF IInv, Click

LEMMA LoadsOK ==
    ASSUME IInv, loadGraph \/ loadIssues \/ loadMeshStatus
    PROVE IInv'
  <1>1. st' = st BY DEF loadGraph, loadIssues, loadMeshStatus
  <1>2. StoreOK(st') BY <1>1 DEF IInv
  <1>3. DataOK(data) /\ DOMAIN data = {"nodes", "edges", "issues", "mesh"}
    BY DEF IInv, DataOK
  <1>4. CASE loadGraph
    <2>1. PICK r \in DOMAIN World :
            data' = [data EXCEPT !.nodes = World[r].nodes, !.edges = World[r].edges]
      BY <1>4 DEF loadGraph
    <2>2. /\ DOMAIN data' = {"nodes", "edges", "issues", "mesh"}
          /\ data'.nodes = World[r].nodes /\ data'.edges = World[r].edges
          /\ data'.issues = data.issues /\ data'.mesh = data.mesh
      BY <1>3, <2>1
    <2>3. /\ World[r].nodes # {} /\ \A n \in World[r].nodes : IsListed(n)
          /\ IsFiniteSet(World[r].nodes) /\ IsFiniteSet(World[r].edges)
      BY WorldAssumption
    <2>4. World[r].edges \subseteq AllEdges BY DEF AllEdges
    <2>5. DataOK(data') BY <1>3, <2>2, <2>3, <2>4 DEF DataOK
    <2> QED BY <1>2, <2>5 DEF IInv
  <1>5. CASE loadIssues
    <2>1. PICK r \in DOMAIN World : data' = [data EXCEPT !.issues = World[r].issues]
      BY <1>5 DEF loadIssues
    <2>2. /\ DOMAIN data' = {"nodes", "edges", "issues", "mesh"}
          /\ data'.nodes = data.nodes /\ data'.edges = data.edges
          /\ data'.issues = World[r].issues /\ data'.mesh = data.mesh
      BY <1>3, <2>1
    <2>3. data.nodes # {} BY <1>5 DEF loadIssues
    <2>4. DataOK(data') BY <1>3, <2>2, <2>3 DEF DataOK
    <2> QED BY <1>2, <2>4 DEF IInv
  <1>6. CASE loadMeshStatus
    <2>1. PICK r \in DOMAIN World : data' = [data EXCEPT !.mesh = World[r].mesh]
      BY <1>6 DEF loadMeshStatus
    <2>2. /\ DOMAIN data' = {"nodes", "edges", "issues", "mesh"}
          /\ data'.nodes = data.nodes /\ data'.edges = data.edges
          /\ data'.issues = data.issues /\ data'.mesh = World[r].mesh
      BY <1>3, <2>1
    <2>3. \A id \in DOMAIN World[r].mesh : World[r].mesh[id].verdict \in DOMAIN MtlsTag
      BY WorldAssumption
    <2>4. DataOK(data') BY <1>3, <2>2, <2>3 DEF DataOK
    <2> QED BY <1>2, <2>4 DEF IInv
  <1> QED BY <1>4, <1>5, <1>6

LEMMA InitOK == Init => IInv
  <1> SUFFICES ASSUME Init PROVE IInv OBVIOUS
  <1>1. /\ DOMAIN st = StoreFields
        /\ st.selectedNodeTypes = ALL_NODE_TYPES /\ st.selectedStatuses = {}
        /\ st.selectedMeshFilters = {} /\ st.selectedIssueTypes = {}
        /\ st.selectedEdges = {} /\ st.selectedNode = NoNode
        /\ st.reachabilityTarget = NoNode
        /\ st.view = "graph" /\ st.tablesTab = "workloads" /\ st.searchQuery = Names
        /\ st.selectedPolicySources = World[1].sources
        /\ st.availablePolicySources = World[1].sources
        /\ st.availableNamespaces = World[1].namespaces
        /\ st.selectedActions = Actions /\ st.selectedDirections = Directions
    BY DEF Init, InitialStore, StoreFields
  <1>2. \A f \in StoreFields : FieldOK(f, st[f])
    BY <1>1 DEF FieldOK, Bounded, FreeChoices
  <1>3. PanelOK(st) BY <1>1 DEF PanelOK
  <1>4. DataOK(data)
    <2>1. /\ DOMAIN data = {"nodes", "edges", "issues", "mesh"}
          /\ data.nodes = {} /\ data.edges = {} /\ data.issues = <<>> /\ data.mesh = <<>>
      BY DEF Init
    <2>2. DOMAIN data.mesh = {} BY <2>1
    <2> QED BY <2>1, <2>2, FS_EmptySet DEF DataOK
  <1> QED BY <1>1, <1>2, <1>3, <1>4 DEF IInv, StoreOK

LEMMA NextOK == IInv /\ [Next]_vars => IInv'
  <1> SUFFICES ASSUME IInv, [Next]_vars PROVE IInv' OBVIOUS
  <1> USE DEF IInv
  <1>1. ASSUME NEW next, Click(next), \A s \in next : StoreOK(s) PROVE IInv'
    BY <1>1, ClickOK
  <1>2. CASE ChooseNamespaces BY <1>1, <1>2, DropdownsOK DEF ChooseNamespaces
  <1>3. CASE ChooseStatuses BY <1>1, <1>3, DropdownsOK DEF ChooseStatuses
  <1>4. CASE ChooseSources BY <1>1, <1>4, DropdownsOK DEF ChooseSources
  <1>5. CASE ChooseNodeTypes BY <1>1, <1>5, DropdownsOK DEF ChooseNodeTypes
  <1>6. CASE ChooseActions BY <1>1, <1>6, DropdownsOK DEF ChooseActions
  <1>7. CASE ChooseDirections BY <1>1, <1>7, DropdownsOK DEF ChooseDirections
  <1>8. CASE ChooseMesh BY <1>1, <1>8, DropdownsOK DEF ChooseMesh
  <1>9. CASE ChooseIssueTypes BY <1>1, <1>9, IssueTypesOK DEF ChooseIssueTypes
  <1>10. CASE UseToolbar BY <1>1, <1>10, ToolbarOK DEF UseToolbar
  <1>11. CASE UseGraph
    <2>1. \A t \in {TapBackground(st)} : StoreOK(t) BY GraphOK
    <2> QED BY <1>1, <1>11, <2>1, GraphOK DEF UseGraph
  <1>12. CASE UseTables BY <1>1, <1>12, TablesOK DEF UseTables
  <1>13. CASE UseStatusPage BY <1>1, <1>13, StatusPageOK DEF UseStatusPage
  <1>14. CASE UseDrawer BY <1>1, <1>14, DrawerOK DEF UseDrawer
  <1>15. CASE UseDetails BY <1>1, <1>15, DetailsOK DEF UseDetails
  <1>16. CASE loadGraph \/ loadIssues \/ loadMeshStatus BY <1>16, LoadsOK
  <1>17. CASE UNCHANGED vars BY <1>17 DEF vars
  <1> QED BY <1>2, <1>3, <1>4, <1>5, <1>6, <1>7, <1>8, <1>9, <1>10, <1>11, <1>12, <1>13,
             <1>14, <1>15, <1>16, <1>17 DEF Next

LEMMA Inductive == Spec => []IInv
  BY InitOK, NextOK, PTL DEF Spec

-----------------------------------------------------------------------------
(* What is left after a reset.                                             *)

\* A filter that is not narrower than the full one, by its size, holds all of it.
LEMMA NotNarrower ==
    ASSUME NEW all, IsFiniteSet(all), NEW part \in SUBSET all,
           ~(Cardinality(part) < Cardinality(all))
    PROVE part = all
  <1>1. /\ Cardinality(all) \in Nat /\ Cardinality(part) \in Nat
        /\ Cardinality(part) <= Cardinality(all)
        /\ Cardinality(part) = Cardinality(all) => part = all
    BY FS_Subset, FS_CardinalityType
  <1> QED BY <1>1

LEMMA NoLess ==
    ASSUME NEW all, NEW part, IsFiniteSet(all), IsFiniteSet(part)
    PROVE ~(Cardinality(part \cup all) < Cardinality(all))
  <1>1. IsFiniteSet(part \cup all) BY FS_Union
  <1>2. /\ Cardinality(all) \in Nat /\ Cardinality(part \cup all) \in Nat
        /\ Cardinality(all) <= Cardinality(part \cup all)
    BY <1>1, FS_Subset, FS_CardinalityType
  <1> QED BY <1>2

\* The fixed filters are small.
LEMMA FixedFinite ==
    IsFiniteSet(ALL_NODE_TYPES) /\ IsFiniteSet(Actions) /\ IsFiniteSet(Directions)
  <1>1. \A S, x : IsFiniteSet(S) => IsFiniteSet(S \cup {x}) BY FS_AddElement
  <1> DEFINE a == {} \cup {"deployment"}
             b == (a \cup {"statefulset"}) \cup {"daemonset"}
             c == (b \cup {"cronjob"}) \cup {"job"}
             e == ((c \cup {"pod"}) \cup {"cidr"}) \cup {"namespace"}
  <1>2. IsFiniteSet(a) BY <1>1, FS_EmptySet
  <1>3. IsFiniteSet(b)
    <2> HIDE DEF a
    <2> QED BY <1>1, <1>2
  <1>4. IsFiniteSet(c)
    <2> HIDE DEF b
    <2> QED BY <1>1, <1>3
  <1>5. IsFiniteSet(e)
    <2> HIDE DEF c
    <2>1. IsFiniteSet(c \cup {"pod"}) BY <1>1, <1>4
    <2>2. IsFiniteSet((c \cup {"pod"}) \cup {"cidr"}) BY <1>1, <2>1
    <2> QED BY <1>1, <2>2
  <1>6. ALL_NODE_TYPES = e BY DEF ALL_NODE_TYPES
  <1> HIDE DEF e
  <1>7. \A x, y : IsFiniteSet({x} \cup {y}) BY <1>1, FS_Singleton
  <1>8. Actions = {0} \cup {1} /\ Directions = {"ingress"} \cup {"egress"}
    BY DEF Actions, Directions
  <1> QED BY <1>5, <1>6, <1>7, <1>8

FullFields == {"selectedNamespaces", "selectedNodeTypes", "selectedPolicySources",
               "selectedActions", "selectedDirections"}

LEMMA FullFilters ==
    ASSUME NEW s
    PROVE /\ DOMAIN Full(s) = FullFields
          /\ Full(s).selectedNamespaces = s.availableNamespaces
          /\ Full(s).selectedNodeTypes = ALL_NODE_TYPES
          /\ Full(s).selectedPolicySources = s.availablePolicySources
          /\ Full(s).selectedActions = Actions /\ Full(s).selectedDirections = Directions
  BY DEF Full, FullFields

\* A store of the inductive invariant has finite filters.
LEMMA FiniteFilters ==
    ASSUME NEW s, StoreOK(s), s.selectedNamespaces \subseteq s.availableNamespaces
    PROVE \A f \in FullFields : IsFiniteSet(s[f]) /\ IsFiniteSet(Full(s)[f])
  <1>1. \A S, T : IsFiniteSet(S) /\ T \subseteq S => IsFiniteSet(T) BY FS_Subset
  <1>2. /\ s.selectedNodeTypes \subseteq ALL_NODE_TYPES
        /\ s.selectedPolicySources \subseteq World[1].sources
        /\ s.selectedActions \subseteq Actions /\ s.selectedDirections \subseteq Directions
    BY Written DEF StoreOK, FieldOK, Bounded
  <1>3. /\ IsFiniteSet(s.availableNamespaces) /\ IsFiniteSet(s.availablePolicySources)
        /\ IsFiniteSet(s.selectedPolicySources)
    BY <1>1, <1>2, Listings, WorldAssumption
  <1>4. /\ IsFiniteSet(s.selectedNamespaces) /\ IsFiniteSet(s.selectedNodeTypes)
        /\ IsFiniteSet(s.selectedActions) /\ IsFiniteSet(s.selectedDirections)
    BY <1>1, <1>2, <1>3, FixedFinite
  <1> QED BY <1>3, <1>4, FixedFinite, FullFilters DEF FullFields

\* The store after a reset, field by field.
LEMMA ResetFields ==
    ASSUME NEW s, StoreOK(s)
    PROVE /\ DOMAIN resetAll(s) = StoreFields
          /\ \A f \in StoreFields \ {"selectedNode", "selectedEdges"} :
                resetAll(s)[f] = IF f \notin Narrowed(s) THEN s[f]
                                 ELSE IF f \in FullFields THEN s[f] \cup Full(s)[f] ELSE {}
  <1> DEFINE set == [f \in DOMAIN s |->
                       IF f \notin Narrowed(s) THEN s[f]
                       ELSE IF f \in DOMAIN Full(s) THEN s[f] \cup Full(s)[f] ELSE {}]
  <1>1. DOMAIN s = StoreFields BY DEF StoreOK
  <1>2. /\ DOMAIN set = StoreFields
        /\ \A f \in StoreFields :
              set[f] = IF f \notin Narrowed(s) THEN s[f]
                       ELSE IF f \in FullFields THEN s[f] \cup Full(s)[f] ELSE {}
    BY <1>1, FullFilters
  <1> HIDE DEF set
  <1>3. /\ DOMAIN deselect(set) = StoreFields
        /\ \A f \in StoreFields \ {"selectedNode", "selectedEdges"} : deselect(set)[f] = set[f]
    BY <1>2 DEF deselect
  <1>4. resetAll(s) = set \/ resetAll(s) = deselect(set) BY DEF resetAll, set
  <1> QED BY <1>2, <1>3, <1>4

\* After a reset no filter counts as active, and those that hide nodes are full.
LEMMA NothingNarrowed ==
    ASSUME NEW s, StoreOK(s), s.selectedNamespaces \subseteq s.availableNamespaces
    PROVE /\ Narrowed(resetAll(s)) = {}
          /\ resetAll(s).selectedNamespaces = s.availableNamespaces
          /\ resetAll(s).selectedNodeTypes = ALL_NODE_TYPES
          /\ resetAll(s).selectedMeshFilters = {}
          /\ resetAll(s).searchQuery = s.searchQuery
  <1> DEFINE after == resetAll(s)
  <1>1. /\ FullFields \subseteq StoreFields /\ EmptyFilters \subseteq StoreFields
        /\ {"selectedNode", "selectedEdges"} \cap (FullFields \cup EmptyFilters) = {}
        /\ {"searchQuery", "availableNamespaces", "availablePolicySources"} \subseteq StoreFields
        /\ FullFields \cap EmptyFilters = {}
    BY DEF FullFields, EmptyFilters, StoreFields, InitialStore
  <1>2. \A t, f : f \in Narrowed(t) <=>
           \/ f \in FullFields /\ Cardinality(t[f]) < Cardinality(Full(t)[f])
           \/ f \in EmptyFilters /\ t[f] # {}
    BY FullFilters DEF Narrowed
  <1>3. ASSUME NEW f \in StoreFields \ {"selectedNode", "selectedEdges"}
        PROVE after[f] = IF f \notin Narrowed(s) THEN s[f]
                         ELSE IF f \in FullFields THEN s[f] \cup Full(s)[f] ELSE {}
    BY ResetFields
  <1> HIDE DEF after
  <1>4. /\ after.searchQuery = s.searchQuery
        /\ after.availableNamespaces = s.availableNamespaces
        /\ after.availablePolicySources = s.availablePolicySources
    <2>1. {"searchQuery", "availableNamespaces", "availablePolicySources"} \cap
          (FullFields \cup EmptyFilters \cup {"selectedNode", "selectedEdges"}) = {}
      BY DEF FullFields, EmptyFilters
    <2> QED BY <1>1, <1>2, <1>3, <2>1
  <1>5. \A f \in FullFields : Full(after)[f] = Full(s)[f]
    BY <1>4, FullFilters DEF FullFields
  <1>6. ASSUME NEW f \in FullFields
        PROVE ~(Cardinality(after[f]) < Cardinality(Full(after)[f]))
    <2>1. CASE f \notin Narrowed(s)
      <3>1. after[f] = s[f] BY <1>1, <1>3, <2>1
      <3> QED BY <1>2, <1>5, <2>1, <3>1
    <2>2. CASE f \in Narrowed(s)
      <3>1. after[f] = s[f] \cup Full(s)[f] BY <1>1, <1>3, <2>2
      <3>2. IsFiniteSet(s[f]) /\ IsFiniteSet(Full(s)[f]) BY FiniteFilters
      <3> QED BY <1>5, <3>1, <3>2, NoLess
    <2> QED BY <2>1, <2>2
  <1>7. ASSUME NEW f \in EmptyFilters PROVE after[f] = {}
    <2>1. f \in StoreFields \ {"selectedNode", "selectedEdges"} /\ f \notin FullFields
      BY <1>1
    <2> QED BY <1>2, <1>3, <2>1
  <1>8. Narrowed(after) = {} BY <1>2, <1>6, <1>7
  <1>9. ASSUME NEW f \in FullFields, s[f] \subseteq Full(s)[f]
        PROVE after[f] = Full(s)[f]
    <2>1. after[f] \subseteq Full(s)[f] BY <1>1, <1>3, <1>9
    <2>2. IsFiniteSet(Full(s)[f]) BY FiniteFilters
    <2>3. ~(Cardinality(after[f]) < Cardinality(Full(s)[f])) BY <1>5, <1>6
    <2> QED BY <2>1, <2>2, <2>3, NotNarrower
  <1>10. /\ s.selectedNodeTypes \subseteq ALL_NODE_TYPES
         /\ {"selectedNamespaces", "selectedNodeTypes"} \subseteq FullFields
         /\ "selectedMeshFilters" \in EmptyFilters
    BY Written DEF StoreOK, FieldOK, Bounded, FullFields, EmptyFilters
  <1>11. /\ after.selectedNamespaces = s.availableNamespaces
         /\ after.selectedNodeTypes = ALL_NODE_TYPES
         /\ after.selectedMeshFilters = {}
    BY <1>7, <1>9, <1>10, FullFilters
  <1> QED BY <1>4, <1>8, <1>11 DEF after

\* ResetShowsEverything, of any store and data of the inductive invariant.
LEMMA AllShown ==
    ASSUME StoreOK(st), DataOK(data)
    PROVE ResetShowsEverything
  <1> DEFINE after == resetAll(st)
  <1>1. SUFFICES ASSUME st.selectedNamespaces \subseteq st.availableNamespaces
                 PROVE /\ activeCount(after) = 0
                       /\ st.searchQuery = Names =>
                            {n \in data.nodes : n.namespace \in {""} \cup st.availableNamespaces}
                            \subseteq filteredNodes(data, after)
    BY DEF ResetShowsEverything
  <1>2. /\ Narrowed(after) = {}
        /\ after.selectedNamespaces = st.availableNamespaces
        /\ after.selectedNodeTypes = ALL_NODE_TYPES
        /\ after.selectedMeshFilters = {}
        /\ after.searchQuery = st.searchQuery
    BY <1>1, NothingNarrowed
  <1> HIDE DEF after
  <1>3. activeCount(after) = 0 BY <1>2, FS_EmptySet DEF activeCount
  <1>4. ASSUME st.searchQuery = Names, NEW n \in data.nodes,
               n.namespace \in {""} \cup st.availableNamespaces
        PROVE n \in filteredNodes(data, after)
    <2>1. n.type \in ALL_NODE_TYPES /\ n.label \in Names BY DEF DataOK, IsListed
    <2>2. nodeMatchesMeshFilter(data, after, n) BY <1>2 DEF nodeMatchesMeshFilter
    <2>3. n \in BaseNodes(data, after) BY <1>2, <1>4, <2>1, <2>2 DEF BaseNodes
    <2>4. BaseNodes(data, after) \subseteq filteredNodes(data, after)
      BY DEF filteredNodes
    <2> QED BY <2>3, <2>4
  <1> QED BY <1>3, <1>4

-----------------------------------------------------------------------------
(* Counts and rows.                                                        *)

\* Rows that carry each key of a finite set once are as many as the keys.
LEMMA RowsAreKeys ==
    ASSUME NEW keys, IsFiniteSet(keys), NEW rows, NEW keyOf, DOMAIN keyOf = rows,
           \A r \in rows : keyOf[r] \in keys,
           \A k \in keys : \E r \in rows : keyOf[r] = k,
           \A x, y \in rows : keyOf[x] = keyOf[y] => x = y
    PROVE Cardinality(rows) = Cardinality(keys)
  <1> DEFINE rowOf == [k \in keys |-> CHOOSE r \in rows : keyOf[r] = k]
  <1>1. \A k \in keys : rowOf[k] \in rows /\ keyOf[rowOf[k]] = k OBVIOUS
  <1>2. rowOf \in [keys -> rows] BY <1>1
  <1> HIDE DEF rowOf
  <1>3. rowOf \in Injection(keys, rows) BY <1>1, <1>2 DEF Injection, IsInjective
  <1>4. \A r \in rows : \E k \in keys : rowOf[k] = r BY <1>1
  <1>5. rowOf \in Surjection(keys, rows) BY <1>2, <1>4 DEF Surjection
  <1>6. ExistsBijection(keys, rows)
    BY <1>3, <1>5 DEF ExistsBijection, Bijection
  <1> QED BY <1>6, FS_Bijection

\* The policies behind some rules.
RefsOf(edges) == {EdgeRef(e) : e \in edges}

LEMMA RefsFinite ==
    ASSUME NEW edges, IsFiniteSet(edges)
    PROVE IsFiniteSet(RefsOf(edges))
  <1> DEFINE ref == [e \in edges |-> EdgeRef(e)]
  <1>1. ref \in Surjection(edges, RefsOf(edges)) BY DEF Surjection, RefsOf
  <1> HIDE DEF ref
  <1> QED BY <1>1, FS_Surjection

\* A row per workload given to the tab.
LEMMA WorkloadRows ==
    ASSUME NEW d, NEW s, IsFiniteSet(tableNodes(d, s))
    PROVE Cardinality(WorkloadsTable(d, s)) = Cardinality(tableNodes(d, s))
  <1> DEFINE rows == WorkloadsTable(d, s)
             nodeOf == [r \in rows |-> r.node]
             edges == filteredEdges(d, s)
             index == indexIssuesByNode(d.issues, {})
             Row(n) == [node |-> n,
                        policies |-> [g \in s.availablePolicySources |->
                                         policyCountByNode(edges, n.id, g)],
                        issues |-> Lookup(index, n.id),
                        mesh |-> meshBadgeMeta(Membership(d.mesh, n.id))]
  <1>1. rows = {Row(n) : n \in tableNodes(d, s)} BY DEF WorkloadsTable
  <1>2. \A n : Row(n).node = n OBVIOUS
  <1> HIDE DEF rows, Row
  <1>3. /\ DOMAIN nodeOf = rows
        /\ \A r \in rows : nodeOf[r] \in tableNodes(d, s)
        /\ \A n \in tableNodes(d, s) : \E r \in rows : nodeOf[r] = n
        /\ \A x, y \in rows : nodeOf[x] = nodeOf[y] => x = y
    BY <1>1, <1>2
  <1> HIDE DEF nodeOf
  <1>4. Cardinality(rows) = Cardinality(tableNodes(d, s)) BY <1>3, RowsAreKeys
  <1> QED BY <1>4 DEF rows

\* A row per policy given to the tab.
LEMMA PolicyRows ==
    ASSUME NEW d, NEW s, IsFiniteSet(tableEdges(d, s))
    PROVE Cardinality(PoliciesTable(d, s)) = Cardinality(RefsOf(tableEdges(d, s)))
  <1> DEFINE edges == tableEdges(d, s)
             rows == PoliciesTable(d, s)
             refOf == [r \in rows |-> r.ref]
             Row(ref) == PolicyRow(d, edges, ref)
  <1>1. rows = {Row(ref) : ref \in RefsOf(edges)} BY DEF PoliciesTable, RefsOf
  <1>2. \A ref : Row(ref).ref = ref BY DEF PolicyRow
  <1> HIDE DEF rows, Row
  <1>3. /\ DOMAIN refOf = rows
        /\ \A r \in rows : refOf[r] \in RefsOf(edges)
        /\ \A ref \in RefsOf(edges) : \E r \in rows : refOf[r] = ref
        /\ \A x, y \in rows : refOf[x] = refOf[y] => x = y
    BY <1>1, <1>2
  <1>4. IsFiniteSet(RefsOf(edges)) BY RefsFinite
  <1> HIDE DEF refOf, edges
  <1>5. Cardinality(rows) = Cardinality(RefsOf(edges)) BY <1>3, <1>4, RowsAreKeys
  <1> QED BY <1>5 DEF rows, edges

\* The rules that reach the policies tab, before one is picked for each identity.
Candidates(d, s) ==
    filteredEdges(d, s)
    \cup {x \in filteredEdges(d, WideOpen(s)) : x.namespace = ""}
    \cup BlanketEdges(d, s, WideOpen(s))

\* Stores that differ in the engines only show the same nodes.
SameButEngines(s, b) ==
    /\ DOMAIN s = StoreFields /\ DOMAIN b = StoreFields
    /\ \A g \in StoreFields \ {"selectedPolicySources", "selectedIssueTypes",
                               "selectedStatuses"} : b[g] = s[g]

LEMMA SameNodes ==
    ASSUME NEW d, NEW s, NEW b, SameButEngines(s, b)
    PROVE filteredNodes(d, b) = filteredNodes(d, s)
  <1>1. /\ b.selectedNamespaces = s.selectedNamespaces
        /\ b.selectedNodeTypes = s.selectedNodeTypes /\ b.searchQuery = s.searchQuery
        /\ b.selectedMeshFilters = s.selectedMeshFilters
        /\ b.showConnectedNamespaces = s.showConnectedNamespaces
    BY FilterFields DEF SameButEngines, StoreFields, InitialStore
  <1>2. BaseNodes(d, b) = BaseNodes(d, s)
    BY <1>1 DEF BaseNodes, nodeMatchesMeshFilter
  <1>3. \A n : nodeMatchesMeshFilter(d, b, n) <=> nodeMatchesMeshFilter(d, s, n)
    BY <1>1 DEF nodeMatchesMeshFilter
  <1> QED BY <1>1, <1>2, <1>3 DEF filteredNodes

\* One engine's candidates are those of all engines that are the engine's.
LEMMA EngineCandidates ==
    ASSUME NEW d, NEW a, NEW b, SameButEngines(a, b), NEW g \in a.selectedPolicySources,
           b.selectedPolicySources = {g}
    PROVE Candidates(d, b) = {e \in Candidates(d, a) : e.policySource = g}
  <1>1. SameButEngines(WideOpen(a), WideOpen(b))
    <2>1. WideOpen(a).selectedNamespaces = WideOpen(b).selectedNamespaces
      BY WideFields, FilterFields DEF SameButEngines
    <2> QED BY <2>1, WideFields DEF SameButEngines
  <1>2. /\ filteredNodes(d, b) = filteredNodes(d, a)
        /\ filteredNodes(d, WideOpen(b)) = filteredNodes(d, WideOpen(a))
    BY <1>1, SameNodes
  <1>3. ASSUME NEW x, NEW y, SameButEngines(x, y), g \in x.selectedPolicySources,
               y.selectedPolicySources = {g}, filteredNodes(d, y) = filteredNodes(d, x)
        PROVE /\ \A e : edgeMatchesPolicyFilters(y, e)
                         <=> edgeMatchesPolicyFilters(x, e) /\ e.policySource = g
              /\ filteredEdges(d, y) = {e \in filteredEdges(d, x) : e.policySource = g}
    <2>1. /\ y.selectedNamespaces = x.selectedNamespaces
          /\ y.showConnectedNamespaces = x.showConnectedNamespaces
          /\ y.showNamespaceEdges = x.showNamespaceEdges
          /\ y.selectedActions = x.selectedActions
          /\ y.selectedDirections = x.selectedDirections
      BY <1>3 DEF SameButEngines, StoreFields, InitialStore
    <2>2. \A e : edgeMatchesPolicyFilters(y, e)
                  <=> edgeMatchesPolicyFilters(x, e) /\ e.policySource = g
      BY <1>3, <2>1 DEF edgeMatchesPolicyFilters
    <2> QED BY <1>3, <2>1, <2>2 DEF filteredEdges
  <1>4. /\ \A e : edgeMatchesPolicyFilters(b, e)
                   <=> edgeMatchesPolicyFilters(a, e) /\ e.policySource = g
        /\ filteredEdges(d, b) = {e \in filteredEdges(d, a) : e.policySource = g}
    BY <1>2, <1>3
  <1>5. filteredEdges(d, WideOpen(b))
        = {e \in filteredEdges(d, WideOpen(a)) : e.policySource = g}
    <2>1. /\ WideOpen(a).selectedPolicySources = a.selectedPolicySources
          /\ WideOpen(b).selectedPolicySources = b.selectedPolicySources
      BY WideFields, FilterFields DEF SameButEngines
    <2> QED BY <1>1, <1>2, <1>3, <2>1
  <1>6. BlanketEdges(d, b, WideOpen(b))
        = {e \in BlanketEdges(d, a, WideOpen(a)) : e.policySource = g}
    <2>1. /\ b.selectedNamespaces = a.selectedNamespaces
          /\ b.availableNamespaces = a.availableNamespaces
      BY DEF SameButEngines, StoreFields, InitialStore
    <2> QED BY <1>2, <1>4, <2>1 DEF BlanketEdges
  <1> QED BY <1>4, <1>5, <1>6 DEF Candidates

\* So are the policies listed for it, whichever rule was picked for an identity.
LEMMA EngineRefs ==
    ASSUME NEW d, NEW a, NEW b, SameButEngines(a, b), NEW g \in a.selectedPolicySources,
           b.selectedPolicySources = {g}
    PROVE RefsOf({e \in policyTableEdges(d, a) : e.policySource = g})
          = RefsOf(policyTableEdges(d, b))
  <1>1. \A s : RefsOf(policyTableEdges(d, s)) = RefsOf(Candidates(d, s))
    BY RefsListed DEF RefsOf, Candidates
  <1>2. \A e, x : EdgeRef(e) = EdgeRef(x) => e.policySource = x.policySource
    BY DEF EdgeRef, PolicyRef
  <1>3. ASSUME NEW edges, NEW others, RefsOf(edges) = RefsOf(others)
        PROVE RefsOf({e \in edges : e.policySource = g})
              = RefsOf({e \in others : e.policySource = g})
    BY <1>2, <1>3 DEF RefsOf
  <1>4. RefsOf({e \in policyTableEdges(d, a) : e.policySource = g})
        = RefsOf({e \in Candidates(d, a) : e.policySource = g})
    BY <1>1, <1>3
  <1>5. Candidates(d, b) = {e \in Candidates(d, a) : e.policySource = g}
    BY EngineCandidates
  <1> QED BY <1>1, <1>4, <1>5

\* An engine chip announces the rows of the engine (EngineRollup).
LEMMA EngineChips ==
    ASSUME NEW d, IsFiniteSet(d.edges), NEW s, DOMAIN s = StoreFields,
           NEW g \in s.availablePolicySources
    PROVE LET b == [[s EXCEPT !.selectedIssueTypes = {}] EXCEPT !.selectedPolicySources = {g}]
          IN EngineRollup(edgesPreEngine(d, s), s.availablePolicySources)[g]
             = Cardinality(PoliciesTable(d, b))
  <1> DEFINE a == [s EXCEPT !.selectedPolicySources = s.availablePolicySources]
             b == [[s EXCEPT !.selectedIssueTypes = {}] EXCEPT !.selectedPolicySources = {g}]
  <1>1. /\ DOMAIN a = StoreFields
        /\ a.selectedPolicySources = s.availablePolicySources
        /\ \A f \in StoreFields \ {"selectedPolicySources"} : a[f] = s[f]
    BY FilterFields
  <1>2. /\ DOMAIN b = StoreFields
        /\ b.selectedPolicySources = {g} /\ b.selectedIssueTypes = {}
        /\ \A f \in StoreFields \ {"selectedPolicySources", "selectedIssueTypes"} : b[f] = s[f]
    BY FilterFields
  <1>3. edgesPreEngine(d, s) = policyTableEdges(d, a) BY DEF edgesPreEngine
  <1> HIDE DEF a, b
  <1>4. SameButEngines(a, b) BY <1>1, <1>2 DEF SameButEngines
  <1>5. RefsOf({e \in policyTableEdges(d, a) : e.policySource = g})
        = RefsOf(policyTableEdges(d, b))
    BY <1>1, <1>2, <1>4, EngineRefs
  <1>6. tableEdges(d, b) = policyTableEdges(d, b) BY <1>2 DEF tableEdges
  <1>7. IsFiniteSet(tableEdges(d, b)) BY TableEdgesLoaded, FS_Subset
  <1>8. Cardinality(PoliciesTable(d, b)) = Cardinality(RefsOf(policyTableEdges(d, b)))
    BY <1>6, <1>7, PolicyRows
  <1>9. EngineRollup(edgesPreEngine(d, s), s.availablePolicySources)[g]
        = Cardinality(RefsOf({e \in policyTableEdges(d, a) : e.policySource = g}))
    BY <1>3 DEF EngineRollup, RefsOf
  <1> QED BY <1>5, <1>8, <1>9 DEF b

\* A status chip announces the workloads with the status (StatusRollup).
LEMMA StatusChips ==
    ASSUME NEW d, IsFiniteSet(d.nodes), NEW s, DOMAIN s = StoreFields,
           NEW k \in DOMAIN StatusRollup(filteredNodes(d, s))
    PROVE LET b == [[s EXCEPT !.selectedIssueTypes = {}] EXCEPT !.selectedStatuses = {k}]
          IN StatusRollup(filteredNodes(d, s))[k] = Cardinality(WorkloadsTable(d, b))
  <1> DEFINE b == [[s EXCEPT !.selectedIssueTypes = {}] EXCEPT !.selectedStatuses = {k}]
             marked == {n \in filteredNodes(d, s) : k \in n.statuses}
  <1>1. {"selectedStatuses", "selectedIssueTypes"} \subseteq StoreFields
    BY DEF StoreFields, InitialStore
  <1>2. /\ DOMAIN b = StoreFields
        /\ b.selectedStatuses = {k} /\ b.selectedIssueTypes = {}
        /\ \A f \in StoreFields \ {"selectedStatuses", "selectedIssueTypes"} : b[f] = s[f]
    BY <1>1
  <1> HIDE DEF b
  <1>3. filteredNodes(d, b) = filteredNodes(d, s)
    BY <1>2, SameNodes DEF SameButEngines
  <1>4. tableNodes(d, b) = marked
    BY <1>2, <1>3 DEF tableNodes, statusFilteredNodes
  <1>5. IsFiniteSet(tableNodes(d, b))
    BY VisibleNodes, FS_Subset, <1>4
  <1>6. StatusRollup(filteredNodes(d, s))[k] = Cardinality(marked)
    BY DEF StatusRollup
  <1> QED BY <1>4, <1>5, <1>6, WorkloadRows DEF b

\* A type chip announces the rows of the type, the collapsed ones included (IssueRollup).
LEMMA TypeChips ==
    ASSUME NEW d, AreFindings(d.issues), NEW s, DOMAIN s = StoreFields, NEW t \in IssueChips
    PROVE LET b == [[s EXCEPT !.selectedIssueTypes = {}] EXCEPT !.selectedIssueTypes = {t}]
          IN IssueRollup(d.issues)[t] = Cardinality(IssueRows(d, b))
  <1> DEFINE b == [[s EXCEPT !.selectedIssueTypes = {}] EXCEPT !.selectedIssueTypes = {t}]
             rows == mergeIssuesByPair(tableIssues(d, b))
  <1>1. b.selectedIssueTypes = {t} BY FilterFields
  <1> HIDE DEF b
  <1>2. rows = {r \in mergeIssuesByPair(d.issues) : r.type = t}
    <2>1. tableIssues(d, b) = [i \in Listed(d.issues, {t}) |-> d.issues[i]]
      BY <1>1 DEF tableIssues
    <2>2. mergeIssuesByPair([i \in Listed(d.issues, {t}) |-> d.issues[i]])
          = {r \in mergeIssuesByPair(d.issues) : r.type = t}
      BY TypedRows
    <2> QED BY <2>1, <2>2
  <1>3. IssueRows(d, b) = rows BY DEF IssueRows, IssuesTable
  <1>4. IssueRollup(d.issues)[t] = Cardinality({r \in mergeIssuesByPair(d.issues) : r.type = t})
    BY DEF IssueRollup
  <1> QED BY <1>2, <1>3, <1>4 DEF b

\* CountsAnnounceRows, of any store and any finite answers.
LEMMA Announced ==
    ASSUME DOMAIN st = StoreFields, IsFiniteSet(data.nodes), IsFiniteSet(data.edges),
           AreFindings(data.issues)
    PROVE CountsAnnounceRows
  <1> DEFINE base == [st EXCEPT !.selectedIssueTypes = {}]
             engines == EngineRollup(edgesPreEngine(data, st), st.availablePolicySources)
             statuses == StatusRollup(filteredNodes(data, st))
             types == IssueRollup(data.issues)
  <1>1. TabBadges(data, st).workloads = Cardinality(WorkloadsTable(data, st))
    <2>1. IsFiniteSet(tableNodes(data, st))
      BY VisibleNodes, FS_Subset DEF tableNodes, statusFilteredNodes
    <2> QED BY <2>1, WorkloadRows DEF TabBadges
  <1>2. TabBadges(data, st).policies = Cardinality(PoliciesTable(data, st))
    <2>1. IsFiniteSet(tableEdges(data, st)) BY TableEdgesLoaded, FS_Subset
    <2> QED BY <2>1, PolicyRows DEF TabBadges, RefsOf
  <1>3. \A g \in DOMAIN engines : engines[g] =
          Cardinality(PoliciesTable(data, [base EXCEPT !.selectedPolicySources = {g}]))
    <2>1. DOMAIN engines = st.availablePolicySources BY DEF EngineRollup
    <2>2. ASSUME NEW g \in st.availablePolicySources
          PROVE engines[g] =
                  Cardinality(PoliciesTable(data, [base EXCEPT !.selectedPolicySources = {g}]))
      BY EngineChips
    <2> HIDE DEF engines, base
    <2> QED BY <2>1, <2>2
  <1>4. \A k \in DOMAIN statuses : statuses[k] =
          Cardinality(WorkloadsTable(data, [base EXCEPT !.selectedStatuses = {k}]))
    BY StatusChips
  <1>5. \A t \in DOMAIN types : types[t] =
          Cardinality(IssueRows(data, [base EXCEPT !.selectedIssueTypes = {t}]))
    <2>1. DOMAIN types = IssueChips BY DEF IssueRollup
    <2> HIDE DEF types
    <2> QED BY <2>1, TypeChips DEF types
  <1> QED BY <1>1, <1>2, <1>3, <1>4, <1>5 DEF CountsAnnounceRows

-----------------------------------------------------------------------------
(* What the marks of the graph add up to.                                  *)

\* What a fold over the counts of the marks computes, set of places by set of places.
AddsUp(g, marks) ==
    g = [s \in SUBSET DOMAIN marks |->
            IF s = {} THEN 0
            ELSE marks[CHOOSE x \in s : TRUE].count + g[s \ {CHOOSE x \in s : TRUE}]]

SumOver(marks) == (CHOOSE g : AddsUp(g, marks))[DOMAIN marks]

\* There is one such sum: two differ first at some smallest set of places.
LEMMA OneSum ==
    ASSUME NEW marks, IsFiniteSet(DOMAIN marks),
           NEW g, AddsUp(g, marks), NEW h, AddsUp(h, marks)
    PROVE g[DOMAIN marks] = h[DOMAIN marks]
  <1> DEFINE wrong == {s \in SUBSET DOMAIN marks : g[s] # h[s]}
             sizes == {Cardinality(s) : s \in wrong}
  <1>1. \A s \in SUBSET DOMAIN marks : IsFiniteSet(s) /\ Cardinality(s) \in Nat
    BY FS_Subset, FS_CardinalityType
  <1>2. ASSUME wrong # {} PROVE FALSE
    <2>1. sizes \in SUBSET Nat /\ sizes # {} BY <1>1, <1>2
    <2>2. PICK m \in sizes : \A k \in sizes : m <= k
      <3> HIDE DEF sizes
      <3> QED BY <2>1, LeastOne
    <2>3. PICK s \in wrong : Cardinality(s) = m OBVIOUS
    <2>4. \A t \in wrong : Cardinality(s) <= Cardinality(t) BY <2>2, <2>3
    <2> DEFINE x == CHOOSE y \in s : TRUE
    <2>5. s # {} BY DEF AddsUp
    <2>6. x \in s BY <2>5
    <2> HIDE DEF x
    <2>7. Cardinality(s \ {x}) = Cardinality(s) - 1 BY <1>1, <2>6, FS_RemoveElement
    <2>8. s \ {x} \in SUBSET DOMAIN marks /\ s \ {x} \notin wrong
      <3>1. s \ {x} \in SUBSET DOMAIN marks OBVIOUS
      <3>2. ~ (Cardinality(s) <= Cardinality(s) - 1) BY <1>1
      <3> HIDE DEF wrong
      <3> QED BY <2>4, <2>7, <3>1, <3>2
    <2>9. g[s \ {x}] = h[s \ {x}] BY <2>8
    <2>10. /\ g[s] = marks[x].count + g[s \ {x}]
           /\ h[s] = marks[x].count + h[s \ {x}]
      BY <2>5 DEF AddsUp, x
    <2> QED BY <2>9, <2>10
  <1> QED BY <1>2

\* Marks that share out some rows add up to them.
LEMMA MarksShareRows ==
    ASSUME NEW rows, IsFiniteSet(rows), NEW keyOf, DOMAIN keyOf = rows,
           NEW marks, DOMAIN marks = {keyOf[r] : r \in rows},
           \A k \in DOMAIN marks : marks[k].count = Cardinality({r \in rows : keyOf[r] = k})
    PROVE SumOver(marks) = Cardinality(rows)
  <1> DEFINE At(s) == {r \in rows : keyOf[r] \in s}
             h == [s \in SUBSET DOMAIN marks |-> Cardinality(At(s))]
  <1>1. \A s : IsFiniteSet(At(s)) /\ Cardinality(At(s)) \in Nat
    BY FS_Subset, FS_CardinalityType
  <1>2. IsFiniteSet(DOMAIN marks)
    <2> DEFINE f == [r \in rows |-> keyOf[r]]
    <2>1. f \in Surjection(rows, DOMAIN marks) BY DEF Surjection
    <2> HIDE DEF f
    <2> QED BY <2>1, FS_Surjection
  <1>3. ASSUME NEW s \in SUBSET DOMAIN marks, s # {}, NEW x \in s
        PROVE Cardinality(At(s)) = marks[x].count + Cardinality(At(s \ {x}))
    <2>1. At(s) = At({x}) \cup At(s \ {x}) /\ At({x}) \cap At(s \ {x}) = {} OBVIOUS
    <2>2. Cardinality(At({x}) \cup At(s \ {x}))
          = Cardinality(At({x})) + Cardinality(At(s \ {x})) - Cardinality(At({x}) \cap At(s \ {x}))
      <3> HIDE DEF At
      <3> QED BY <1>1, FS_Union
    <2>3. Cardinality({}) = 0 BY FS_EmptySet
    <2>4. marks[x].count = Cardinality(At({x}))
      <3>1. At({x}) = {r \in rows : keyOf[r] = x} OBVIOUS
      <3> QED BY <3>1
    <2>5. Cardinality(At({x})) \in Nat /\ Cardinality(At(s \ {x})) \in Nat BY <1>1
    <2> HIDE DEF At
    <2>6. Cardinality(At(s)) = Cardinality(At({x})) + Cardinality(At(s \ {x})) - 0
      BY <2>1, <2>2, <2>3
    <2>7. Cardinality(At(s)) = Cardinality(At({x})) + Cardinality(At(s \ {x}))
      BY <2>5, <2>6
    <2> QED BY <2>4, <2>7
  <1>4. AddsUp(h, marks)
    <2>1. ASSUME NEW s \in SUBSET DOMAIN marks
          PROVE h[s] = IF s = {} THEN 0
                       ELSE marks[CHOOSE x \in s : TRUE].count + h[s \ {CHOOSE x \in s : TRUE}]
      <3>1. CASE s = {}
        <4>1. At(s) = {} BY <3>1
        <4> HIDE DEF At
        <4> QED BY <3>1, <4>1, FS_EmptySet
      <3>2. CASE s # {}
        <4> DEFINE x == CHOOSE y \in s : TRUE
        <4>1. x \in s BY <3>2
        <4>2. s \ {x} \in SUBSET DOMAIN marks OBVIOUS
        <4> HIDE DEF x, At
        <4>3. h[s] = marks[x].count + h[s \ {x}] BY <1>3, <3>2, <4>1, <4>2
        <4> QED BY <3>2, <4>3 DEF x
      <3> QED BY <3>1, <3>2
    <2> HIDE DEF At
    <2>2. h = [s \in SUBSET DOMAIN marks |-> h[s]] OBVIOUS
    <2> HIDE DEF h
    <2> QED BY <2>1, <2>2 DEF AddsUp
  <1>5. AddsUp(CHOOSE g : AddsUp(g, marks), marks) BY <1>4
  <1>6. (CHOOSE g : AddsUp(g, marks))[DOMAIN marks] = h[DOMAIN marks]
    <2> HIDE DEF h
    <2> QED BY <1>2, <1>4, <1>5, OneSum
  <1>7. At(DOMAIN marks) = rows OBVIOUS
  <1>8. h[DOMAIN marks] = Cardinality(rows) BY <1>7
  <1> QED BY <1>6, <1>8 DEF SumOver

\* Folding finitely many findings gives finitely many rows.
LEMMA RowsFinite ==
    ASSUME NEW issues, IsFiniteSet(DOMAIN issues)
    PROVE IsFiniteSet(mergeIssuesByPair(issues))
  <1> DEFINE rowOf == [i \in DOMAIN issues |-> IF i \in PairsOf(issues)
                                               THEN MergedRow(issues, GroupOf(issues, i))
                                               ELSE issues[i]]
  <1>1. PairsOf(issues) \subseteq DOMAIN issues BY DEF PairsOf
  <1>2. \A i \in DOMAIN issues : rowOf[i] \in mergeIssuesByPair(issues)
    BY <1>1, MergedRows
  <1>3. \A r \in mergeIssuesByPair(issues) : \E i \in DOMAIN issues : rowOf[i] = r
    BY <1>1, MergedRows
  <1>4. rowOf \in Surjection(DOMAIN issues, mergeIssuesByPair(issues))
    BY <1>2, <1>3 DEF Surjection
  <1> HIDE DEF rowOf
  <1> QED BY <1>4, FS_Surjection

\* The marks of either mode add up to the drawer's rows (buildIssueMarks, IssuesDrawer).
LEMMA MarksCounted ==
    ASSUME AreFindings(data.issues), IsFiniteSet(DOMAIN data.issues)
    PROVE MarksAddUpToDrawer
  <1> DEFINE rows == mergeIssuesByPair(data.issues)
             aggregate == st.aggregateByNamespace
             endpointKey(n) == IF aggregate /\ n.namespace # "" THEN NsId(n.namespace) ELSE n.id
             Key(r) == IF isEdge(r) THEN <<endpointKey(r.src), endpointKey(r.dst)>>
                       ELSE <<endpointKey(r.node), endpointKey(r.node)>>
             Placed(r) == isEdge(r) \/ r.node # NoNode
             marked == {r \in rows : issueTier(r.type) # "info" /\ Placed(r)}
             keyOf == [r \in marked |-> Key(r)]
             marks == buildIssueMarks(data.issues, aggregate)
             drawer == IssuesDrawer(data.issues)
  <1>1. marks = [k \in {Key(r) : r \in marked} |-> Mark({r \in marked : Key(r) = k})]
    BY Zenon DEF buildIssueMarks, MarksOf
  <1>2. \A group : Mark(group).count = Cardinality(group) BY DEF Mark
  <1>3. IsFiniteSet(marked) BY RowsFinite, FS_Subset
  <1> HIDE DEF marks, Key, marked
  <1>4. /\ DOMAIN keyOf = marked
        /\ DOMAIN marks = {keyOf[r] : r \in marked}
        /\ \A k \in DOMAIN marks : marks[k].count = Cardinality({r \in marked : keyOf[r] = k})
    <2>1. DOMAIN marks = {keyOf[r] : r \in marked} BY <1>1
    <2>2. ASSUME NEW k \in DOMAIN marks
          PROVE marks[k].count = Cardinality({r \in marked : keyOf[r] = k})
      <3>1. {r \in marked : keyOf[r] = k} = {r \in marked : Key(r) = k} OBVIOUS
      <3>2. marks[k] = Mark({r \in marked : Key(r) = k}) BY <1>1
      <3> QED BY <1>2, <3>1, <3>2
    <2> QED BY <2>1, <2>2
  <1> HIDE DEF keyOf
  <1>5. SumOver(marks) = Cardinality(marked)
    BY <1>3, <1>4, MarksShareRows
  <1>6. marked = {r \in drawer.blocking \cup drawer.warnings : Placed(r)}
    <2>1. drawer.blocking \cup drawer.warnings
          = {r \in rows : issueTierOf(r) \in {"blocking", "warning"}}
      BY DEF IssuesDrawer
    <2>2. \A r \in rows : issueTier(r.type) # "info" <=> issueTierOf(r) \in {"blocking", "warning"}
      BY TierOfRow
    <2> HIDE DEF rows, drawer, Placed
    <2> QED BY <2>1, <2>2 DEF marked
  <1>7. SumOver(marks) = Cardinality({r \in drawer.blocking \cup drawer.warnings : Placed(r)})
    BY <1>5, <1>6
  <1> HIDE DEF drawer, Placed
  <1>8. MapThenSumSet(LAMBDA k : marks[k].count, DOMAIN marks) = SumOver(marks)
    BY DEF MapThenSumSet, MapThenFoldSet, SumOver, AddsUp
  <1>9. MapThenSumSet(LAMBDA k : marks[k].count, DOMAIN marks)
        = Cardinality({r \in drawer.blocking \cup drawer.warnings : Placed(r)})
    BY <1>7, <1>8, Zenon
  <1> QED BY <1>9, Zenon DEF MarksAddUpToDrawer, marks, drawer, Placed

-----------------------------------------------------------------------------
(* What a drill-down leaves.                                               *)

\* A click that sets a filter and goes to the graph writes nothing else the views read.
LEMMA DrilledFields ==
    ASSUME NEW s, DOMAIN s = StoreFields, NEW f \in FilterNames, NEW v,
           NEW t, t = openInGraph(Changed(s, f, v))
    PROVE /\ t[f] = v
          /\ \A g \in FilterNames \ {f} : t[g] = s[g]
          /\ t.searchQuery = s.searchQuery
          /\ t.showConnectedNamespaces = s.showConnectedNamespaces
  <1> DEFINE u == Changed(s, f, v)
  <1>1. FilterNames \subseteq StoreFields \ {"view", "selectedNode", "selectedEdges"}
    BY DEF FilterNames, StoreFields, InitialStore
  <1>2. {"searchQuery", "showConnectedNamespaces"}
        \subseteq StoreFields \ (FilterNames \cup {"view", "selectedNode", "selectedEdges"})
    BY DEF FilterNames, StoreFields, InitialStore
  <1>3. /\ DOMAIN u = StoreFields
        /\ u[f] = v
        /\ \A g \in StoreFields \ {f, "selectedNode", "selectedEdges"} : u[g] = s[g]
    BY <1>1 DEF Changed, deselect
  <1>0. t = openInGraph(u) OBVIOUS
  <1> HIDE DEF u
  <1>4. /\ t[f] = v
        /\ \A g \in StoreFields \ {f, "view", "selectedNode", "selectedEdges"} : t[g] = s[g]
    BY <1>0, <1>1, <1>3 DEF openInGraph
  <1> QED BY <1>1, <1>2, <1>4

\* The fields of a namespace row that the properties read.
LEMMA StatFields ==
    ASSUME NEW ns, NEW workloads, NEW policies, NEW issues, NEW protection
    PROVE LET r == NamespaceStat(ns, workloads, policies, issues, protection)
          IN /\ r.namespace = ns
             /\ r.workloads = Cardinality({n \in workloads : n.namespace = ns})
             /\ r.policies = Cardinality(policies)
  BY DEF NamespaceStat

\* A namespace row counts what its click leaves (NamespaceTable).
LEMMA NamespaceRowShows ==
    ASSUME NEW d, NEW s, DOMAIN s = StoreFields, ~s.showConnectedNamespaces,
           NEW r \in NamespaceTable(d, s)
    PROVE LET after == NamespaceRow(s, r.namespace)
          IN /\ r.workloads =
                  Cardinality({n \in {x \in filteredNodes(d, after) : IsWorkload(x)} :
                                  n.namespace = r.namespace})
             /\ r.policies = coverageStats(scopedPolicyEdges(d, after)).policyTotal
  <1> DEFINE edges == scopedPolicyEdges(d, s)
             workloads == {n \in filteredNodes(d, s) : IsWorkload(n)}
             PoliciesOf(ns) == {EdgeRef(e) : e \in {x \in edges : x.namespace = ns}}
             all == Occupied(workloads) \cup ({e.namespace : e \in edges} \ {""})
             after == NamespaceRow(s, r.namespace)
  <1>1. PICK ns \in all : \E i, p : r = NamespaceStat(ns, workloads, PoliciesOf(ns), i, p)
    <2> HIDE DEF workloads, edges
    <2> QED BY DEF NamespaceTable, namespaceStats, workloads, edges
  <1>2. /\ r.namespace = ns
        /\ r.workloads = Cardinality({n \in workloads : n.namespace = ns})
        /\ r.policies = Cardinality(PoliciesOf(ns))
    <2>1. PICK i, p : r = NamespaceStat(ns, workloads, PoliciesOf(ns), i, p)
      BY <1>1
    <2> HIDE DEF workloads, PoliciesOf, all, edges
    <2> QED BY <2>1, StatFields
  <1>3. /\ after.selectedNamespaces = {ns}
        /\ \A g \in FilterNames \ {"selectedNamespaces"} : after[g] = s[g]
        /\ after.searchQuery = s.searchQuery
        /\ after.showConnectedNamespaces = s.showConnectedNamespaces
    <2>1. after = openInGraph(Changed(s, "selectedNamespaces", {ns}))
      BY <1>2 DEF NamespaceRow, selectNamespaceOnly
    <2>2. "selectedNamespaces" \in FilterNames BY DEF FilterNames
    <2> HIDE DEF after, all, edges, workloads, PoliciesOf
    <2>3. after["selectedNamespaces"] = {ns}
      BY <2>1, <2>2, DrilledFields
    <2>4. \A g \in FilterNames \ {"selectedNamespaces"} : after[g] = s[g]
      BY <2>1, <2>2, DrilledFields
    <2>5. /\ after.searchQuery = s.searchQuery
          /\ after.showConnectedNamespaces = s.showConnectedNamespaces
      BY <2>1, <2>2, DrilledFields
    <2> QED BY <2>3, <2>4, <2>5
  <1> HIDE DEF after
  <1>4. /\ after.selectedNodeTypes = s.selectedNodeTypes
        /\ after.selectedMeshFilters = s.selectedMeshFilters
        /\ after.selectedPolicySources = s.selectedPolicySources
        /\ after.selectedActions = s.selectedActions
        /\ after.selectedDirections = s.selectedDirections
    BY <1>3 DEF FilterNames
  <1>5. filteredNodes(d, s) = BaseNodes(d, s) /\ filteredNodes(d, after) = BaseNodes(d, after)
    BY <1>3 DEF filteredNodes
  <1>6. ns # "" /\ ns \in s.selectedNamespaces
    BY <1>1, <1>5 DEF Occupied, BaseNodes, scopedPolicyEdges
  <1>7. {n \in workloads : n.namespace = ns}
        = {n \in {x \in filteredNodes(d, after) : IsWorkload(x)} : n.namespace = ns}
    BY <1>3, <1>4, <1>5, <1>6 DEF BaseNodes, nodeMatchesMeshFilter
  <1>8. scopedPolicyEdges(d, after) = {x \in edges : x.namespace = ns}
    BY <1>3, <1>4, <1>6 DEF scopedPolicyEdges, edgeMatchesPolicyFilters
  <1>9. coverageStats(scopedPolicyEdges(d, after)).policyTotal = Cardinality(PoliciesOf(ns))
    BY <1>8 DEF coverageStats
  <1>10. /\ r.workloads =
              Cardinality({n \in {x \in filteredNodes(d, after) : IsWorkload(x)} :
                              n.namespace = r.namespace})
         /\ r.policies = coverageStats(scopedPolicyEdges(d, after)).policyTotal
    BY <1>2, <1>7, <1>9
  <1> QED BY <1>10 DEF after

\* A mesh chip counts what it leaves when no other one is set (MeshRollup).
LEMMA MeshChipShows ==
    ASSUME NEW d, NEW s, DOMAIN s = StoreFields, ~s.showConnectedNamespaces,
           s.selectedMeshFilters = {}, NEW t \in MESH_FILTERS
    PROVE MeshRollup(d, filteredNodes(d, s))[t]
          = Cardinality({n \in filteredNodes(d, MeshChip(s, t)) : IsWorkload(n)})
  <1> DEFINE after == MeshChip(s, t)
             tagged == {n \in {x \in filteredNodes(d, s) : IsWorkload(x)} :
                           t \in MeshTags(Membership(d.mesh, n.id))}
  <1>1. /\ after.selectedMeshFilters = {t}
        /\ \A g \in FilterNames \ {"selectedMeshFilters"} : after[g] = s[g]
        /\ after.searchQuery = s.searchQuery
        /\ after.showConnectedNamespaces = s.showConnectedNamespaces
    BY DrilledFields DEF MeshChip, toggle, FilterNames
  <1> HIDE DEF after
  <1>2. /\ after.selectedNodeTypes = s.selectedNodeTypes
        /\ after.selectedNamespaces = s.selectedNamespaces
    BY <1>1 DEF FilterNames
  <1>3. filteredNodes(d, s) = BaseNodes(d, s) /\ filteredNodes(d, after) = BaseNodes(d, after)
    BY <1>1 DEF filteredNodes
  <1>4. {n \in filteredNodes(d, after) : IsWorkload(n)} = tagged
    BY <1>1, <1>2, <1>3 DEF BaseNodes, nodeMatchesMeshFilter
  <1>5. MeshRollup(d, filteredNodes(d, s))[t] = Cardinality(tagged)
    BY DEF MeshRollup
  <1> QED BY <1>4, <1>5 DEF after

\* DrillDownShowsCounted, of any store the clicks can make.
LEMMA DrillDowns ==
    ASSUME StoreOK(st)
    PROVE DrillDownShowsCounted
  <1>1. DOMAIN st = StoreFields BY DEF StoreOK
  <1> QED BY <1>1, NamespaceRowShows, MeshChipShows DEF DrillDownShowsCounted

-----------------------------------------------------------------------------
(* From the inductive invariant to the properties.                         *)

LEMMA InvImplies ==
    IInv => /\ TypeOK /\ PanelAsksOneQuestion /\ ClusterScopedAreListed
            /\ BlockedSideIsNotConfirmed /\ HeadlineMatchesDrawer /\ ResetShowsEverything
            /\ CountsAnnounceRows /\ MarksAddUpToDrawer /\ DrillDownShowsCounted
  <1> SUFFICES ASSUME IInv
               PROVE /\ TypeOK /\ PanelAsksOneQuestion /\ ClusterScopedAreListed
                     /\ BlockedSideIsNotConfirmed /\ HeadlineMatchesDrawer /\ ResetShowsEverything
                     /\ CountsAnnounceRows /\ MarksAddUpToDrawer /\ DrillDownShowsCounted
    OBVIOUS
  <1>1. /\ DOMAIN st = StoreFields /\ PanelOK(st)
        /\ \A f \in StoreFields : FieldOK(f, st[f])
        /\ DataOK(data)
    BY DEF IInv, StoreOK
  <1>2. TypeOK
    <2>1. {"view", "tablesTab", "searchQuery", "selectedNodeTypes", "selectedStatuses",
           "selectedMeshFilters", "selectedIssueTypes", "selectedEdges"} \subseteq StoreFields
      BY DEF StoreFields, InitialStore
    <2>2. /\ st.view \in {"graph", "tables", "status"}
          /\ st.tablesTab \in {"workloads", "policies", "issues"}
          /\ st.searchQuery \in Searches \cup {Names}
      BY <1>1, <2>1 DEF FieldOK, FreeChoices
    <2>3. /\ st.selectedNodeTypes \subseteq ALL_NODE_TYPES
          /\ st.selectedStatuses \subseteq StatusKeys
          /\ st.selectedMeshFilters \subseteq MESH_FILTERS
          /\ st.selectedIssueTypes \subseteq ALL_ISSUE_TYPES
          /\ st.selectedEdges \subseteq AllEdges
      BY <1>1, <2>1 DEF FieldOK, Bounded
    <2> QED BY <1>1, <2>2, <2>3 DEF TypeOK, DataOK, AllEdges, StoreFields
  <1>3. PanelAsksOneQuestion BY <1>1 DEF PanelOK, Askable, PanelAsksOneQuestion
  <1>4. AreFindings(data.issues) BY <1>1, DataFindings
  <1>5. ClusterScopedAreListed BY <1>1, ScopedListed
  <1>6. BlockedSideIsNotConfirmed /\ HeadlineMatchesDrawer BY <1>4, BlockedSide, Headline
  <1>7. ResetShowsEverything /\ DrillDownShowsCounted BY AllShown, DrillDowns DEF IInv
  <1>8. IsFiniteSet(data.nodes) /\ IsFiniteSet(data.edges) BY <1>1 DEF DataOK
  <1>9. IsFiniteSet(DOMAIN data.issues)
    <2>1. DOMAIN <<>> = {} OBVIOUS
    <2> QED BY <1>1, <2>1, WorldAssumption, FS_EmptySet DEF DataOK
  <1>10. CountsAnnounceRows BY <1>1, <1>4, <1>8, Announced
  <1>11. MarksAddUpToDrawer BY <1>4, <1>9, MarksCounted
  <1> QED BY <1>2, <1>3, <1>5, <1>6, <1>7, <1>10, <1>11

-----------------------------------------------------------------------------
(* The results.                                                            *)

\* Whatever the user clicks, the store keeps its type (every setter of graphStore.ts).
THEOREM StoreTyped == Spec => []TypeOK
  BY Inductive, InvImplies, PTL

\* The panel asks one question whatever was clicked in whichever view
\* (setSelectedNode, setSelectedEdges, showReachability, pinReachabilitySource).
THEOREM OneQuestion == Spec => []PanelAsksOneQuestion
  BY Inductive, InvImplies, PTL

\* No arrow handed to cytoscape dangles (buildElements, buildAggregatedElements).
THEOREM ArrowsHaveEnds == Spec => []DrawnEdgesHaveEnds
  BY DrawnEdges, PTL

\* The namespace selection never hides a cluster-scoped policy (policyTableEdges).
THEOREM ScopedAreListed == Spec => []ClusterScopedAreListed
  BY Inductive, InvImplies, PTL

\* A blocked direction is never shown as confirmed (mergeReason, CulpritActions).
THEOREM BlockedNotConfirmed == Spec => []BlockedSideIsNotConfirmed
  BY Inductive, InvImplies, PTL

\* An arrow never speaks for a rule that says something else (bundleEdges, buildAggregatedElements).
THEOREM ArrowsAreHonest == Spec => []ArrowSpeaksForItsRules
  BY ArrowsSpeak, PTL

\* The status page and the drawer agree on what needs attention (scopedIssues).
THEOREM HeadlineIsDrawers == Spec => []HeadlineMatchesDrawer
  BY Inductive, InvImplies, PTL

\* "Reset filters" leaves no filter active and hides no node (use-filter-reset.ts).
THEOREM ResetIsComplete == Spec => []ResetShowsEverything
  BY Inductive, InvImplies, PTL

\* Every number on a tab, an engine, a status or a type chip is the number of rows its
\* click leaves (TablesView's badges, EngineRollup, StatusRollup, IssueRollup).
THEOREM CountsAreRows == Spec => []CountsAnnounceRows
  BY Inductive, InvImplies, PTL

\* The marks on the graph share out the drawer's rows, flat and by namespace: none is
\* lost and none counted twice (buildIssueMarks, IssuesDrawer).
THEOREM MarksAreRows == Spec => []MarksAddUpToDrawer
  BY Inductive, InvImplies, PTL

\* A namespace row and a mesh chip of the status page show what they counted
\* (namespaceStats, MeshRollup and the selection their clicks make).
THEOREM DrillDownsAgree == Spec => []DrillDownShowsCounted
  BY Inductive, InvImplies, PTL
=============================================================================
