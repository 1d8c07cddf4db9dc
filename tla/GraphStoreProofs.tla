-------------------------- MODULE GraphStoreProofs --------------------------
(***************************************************************************)
(* For any graph, any number of outstanding calls and any order of answers *)
(* and failures, what the panel shows belongs to what is selected.  The    *)
(* properties are predicates of the store alone, so the proof shows that   *)
(* every write of the store, and every continuation, keeps Good.           *)
(***************************************************************************)
EXTENDS GraphStore, TLAPS

InfoMatches(s) ==
    s.selectedNode # None /\ s.nodeInfo # None => s.nodeInfo.id = s.selectedNode

PairMatches(s) ==
    s.reachabilityTarget # None =>
        /\ s.reachability # None =>
              /\ s.reachability.src = s.reachabilitySource
              /\ s.reachability.dst = s.reachabilityTarget
        /\ s.reachabilityReverse # None =>
              /\ s.reachabilityReverse.src = s.reachabilityTarget
              /\ s.reachabilityReverse.dst = s.reachabilitySource

Good(s) == s \in Stores /\ InfoMatches(s) /\ PairMatches(s)

\* An edge verdict is only asked for between two known nodes.
Resolved(f) == f.call = "edge" => f.from.source \in Nodes /\ f.from.target \in Nodes
CallsResolved == \A f \in Fetches : inflight[f] > 0 => Resolved(f)

Inv == TypeOK /\ Good(st) /\ CallsResolved

-----------------------------------------------------------------------------
(* The writes of the store.                                                *)

\* The initial store is good.
LEMMA InitialGood == Good(InitialStore)
  <1>1. InitialStore \in Stores
    BY StoreAssumption DEF InitialStore, Stores
  <1> QED BY <1>1 DEF Good, InfoMatches, PairMatches, InitialStore

\* Dropping the selection keeps a good store good.
LEMMA DeselectGood ==
  ASSUME NEW s, Good(s) PROVE Good(deselect(s))
  <1>1. deselect(s) \in Stores BY DEF Good, deselect, Stores
  <1> QED BY <1>1 DEF Good, InfoMatches, PairMatches, deselect, Stores

\* So does setSelectedNode, which drops the old detail.
LEMMA SelectNodeGood ==
  ASSUME NEW s, Good(s), NEW node \in Nodes \cup {None} PROVE Good(selectNode(s, node))
  <1>1. selectNode(s, node) \in Stores BY DEF Good, selectNode, Stores
  <1> QED BY <1>1 DEF Good, InfoMatches, PairMatches, selectNode, Stores

\* So does setSelectedEdges.
LEMMA SelectEdgesGood ==
  ASSUME NEW s, Good(s), NEW edge \in Edges \cup {None} PROVE Good(selectEdges(s, edge))
  <1>1. selectEdges(s, edge) \in Stores BY DEF Good, selectEdges, Stores
  <1> QED BY <1>1 DEF Good, InfoMatches, PairMatches, selectEdges, Stores

\* So does clearReachability.
LEMMA ClearReachabilityGood ==
  ASSUME NEW s, Good(s) PROVE Good(clearReachability(s))
  <1>1. clearReachability(s) \in Stores BY DEF Good, clearReachability, Stores
  <1> QED BY <1>1 DEF Good, InfoMatches, PairMatches, clearReachability, Stores

\* Asking for a new pair drops both old verdicts.
LEMMA AskReachabilityGood ==
  ASSUME NEW s, Good(s), NEW src \in Nodes, NEW dst \in Nodes
  PROVE  Good(askReachability(s, src, dst))
  <1>1. askReachability(s, src, dst) \in Stores BY DEF Good, askReachability, Stores
  <1> QED BY <1>1 DEF Good, InfoMatches, PairMatches, askReachability, Stores

-----------------------------------------------------------------------------
(* Calls and their continuations.                                          *)

\* A call's captured arguments have the types its continuation relies on.
LEMMA CapturedArguments ==
  ASSUME NEW f \in Fetches
  PROVE  /\ f.since \in Revs
         /\ f.call = "nodeInfo" => f.from \in Nodes
         /\ f.call \in {"forward", "reverse"} => f.from \in Nodes /\ f.to \in Nodes
         /\ f.call = "edge" => f.from \in Edges
  BY DEF Fetches, LoadCalls

\* An answer comes from a snapshot that was really served.
LEMMA AnswerRevision ==
  ASSUME served \in Revs, NEW f \in Fetches, NEW rev \in Answers(f)
  PROVE  rev \in Revs
  BY CapturedArguments, StoreAssumption DEF Answers, Revs

\* Sending calls keeps the counts natural numbers,
LEMMA SendCounts ==
  ASSUME inflight \in [Fetches -> Nat], CallsResolved, NEW calls, Send(calls),
         \A g \in calls : Resolved(g)
  PROVE  inflight' \in [Fetches -> Nat] /\ CallsResolved'
  <1>1. \A g \in Fetches : inflight'[g] = inflight[g] + One(g \in calls) BY DEF Send
  <1>2. inflight' \in [Fetches -> Nat] BY DEF Send, One
  <1>3. \A g \in Fetches : inflight'[g] > 0 => inflight[g] > 0 \/ g \in calls
    BY <1>1 DEF One
  <1> QED BY <1>2, <1>3 DEF CallsResolved, Resolved

\* and so does ending one, because a call only ends while it is outstanding.
LEMMA ExchangeCounts ==
  ASSUME inflight \in [Fetches -> Nat], CallsResolved, NEW f \in Fetches, NEW calls,
         Exchange(f, calls), \A g \in calls : Resolved(g)
  PROVE  inflight' \in [Fetches -> Nat] /\ CallsResolved'
  <1>1. \A g \in Fetches : inflight'[g] = inflight[g] - One(g = f) + One(g \in calls)
    BY DEF Exchange
  <1>2. inflight' \in [Fetches -> Nat] BY DEF Exchange, One
  <1>3. \A g \in Fetches : inflight'[g] > 0 => inflight[g] > 0 \/ g \in calls
    BY <1>1 DEF One
  <1> QED BY <1>2, <1>3 DEF CallsResolved, Resolved

\* A continuation that writes a good store keeps the invariant.
LEMMA ArrivesInv ==
  ASSUME Inv, NEW f \in Fetches, NEW s, NEW calls, Good(s), Arrives(f, s, calls),
         \A g \in calls : Resolved(g)
  PROVE  Inv'
  <1>1. inflight' \in [Fetches -> Nat] /\ CallsResolved'
    BY ExchangeCounts DEF Inv, TypeOK, Arrives
  <1>2. Good(st') BY DEF Arrives
  <1> QED BY <1>1, <1>2 DEF Inv, TypeOK, Good, Arrives

\* So does one that caught an error.
LEMMA FailsInv ==
  ASSUME Inv, NEW f \in Fetches, NEW s, Good(s), Fails(f, s)
  PROVE  Inv'
  <1>1. inflight' \in [Fetches -> Nat] /\ CallsResolved'
    BY ExchangeCounts DEF Inv, TypeOK, Fails
  <1>2. Good(st') BY DEF Fails
  <1> QED BY <1>1, <1>2 DEF Inv, TypeOK, Good, Fails

\* So does a user action.
LEMMA UserActsInv ==
  ASSUME Inv, NEW s, NEW calls, Good(s), UserActs(s, calls),
         \A g \in calls : Resolved(g)
  PROVE  Inv'
  <1>1. inflight' \in [Fetches -> Nat] /\ CallsResolved'
    BY SendCounts DEF Inv, TypeOK, UserActs
  <1>2. Good(st') BY DEF UserActs
  <1> QED BY <1>1, <1>2 DEF Inv, TypeOK, Good, UserActs

\* Writes that touch neither the selection nor what is shown of it.
LEMMA OtherWritesGood ==
  ASSUME NEW s, Good(s), NEW rev \in 0..MaxRev, NEW names \in SUBSET NsNames
  PROVE  /\ Good([s EXCEPT !.selectedNamespaces = names])
         /\ Good([s EXCEPT !.availableNamespaces = NsNames, !.selectedNamespaces = NsNames])
         /\ Good([s EXCEPT !.error = TRUE])
         /\ Good([s EXCEPT !.graph = rev, !.loading = FALSE, !.issuesLoading = TRUE])
         /\ Good([s EXCEPT !.graph = rev, !.loading = FALSE, !.issuesLoading = TRUE,
                          !.nodeInfoLoading = TRUE])
         /\ Good([s EXCEPT !.loading = FALSE, !.error = TRUE])
         /\ Good([s EXCEPT !.issues = rev, !.issuesLoading = FALSE])
         /\ Good([s EXCEPT !.issuesLoading = FALSE, !.error = TRUE])
         /\ Good([s EXCEPT !.meshStatus = rev])
         /\ Good([s EXCEPT !.clusterMetrics = rev])
         /\ Good([s EXCEPT !.loading = TRUE, !.error = FALSE])
         /\ Good([s EXCEPT !.nodeInfoLoading = FALSE])
         /\ Good([s EXCEPT !.reachabilityLoading = FALSE])
         /\ Good([s EXCEPT !.reachabilityReverseLoading = FALSE, !.reachabilityReverseError = TRUE])
         /\ Good([s EXCEPT !.edgeReachabilityLoading = FALSE])
         /\ Good([s EXCEPT !.edgeReachabilityLoading = TRUE])
         /\ Good([s EXCEPT !.nodeInfoLoading = TRUE])
  <1>1. Good([s EXCEPT !.selectedNamespaces = names])
    <2>1. [s EXCEPT !.selectedNamespaces = names] \in Stores
      BY DEF Good, Stores
    <2> QED BY <2>1 DEF Good, InfoMatches, PairMatches, Stores
  <1>2. Good([s EXCEPT !.availableNamespaces = NsNames, !.selectedNamespaces = NsNames])
    <2>1. [s EXCEPT !.availableNamespaces = NsNames, !.selectedNamespaces = NsNames] \in Stores
      BY DEF Good, Stores
    <2> QED BY <2>1 DEF Good, InfoMatches, PairMatches, Stores
  <1>3. Good([s EXCEPT !.error = TRUE])
    <2>1. [s EXCEPT !.error = TRUE] \in Stores
      BY DEF Good, Stores
    <2> QED BY <2>1 DEF Good, InfoMatches, PairMatches, Stores
  <1>4. Good([s EXCEPT !.graph = rev, !.loading = FALSE, !.issuesLoading = TRUE])
    <2>1. [s EXCEPT !.graph = rev, !.loading = FALSE, !.issuesLoading = TRUE] \in Stores
      BY DEF Good, Stores
    <2> QED BY <2>1 DEF Good, InfoMatches, PairMatches, Stores
  <1>5. Good([s EXCEPT !.graph = rev, !.loading = FALSE, !.issuesLoading = TRUE, !.nodeInfoLoading = TRUE])
    <2>1. [s EXCEPT !.graph = rev, !.loading = FALSE, !.issuesLoading = TRUE, !.nodeInfoLoading = TRUE] \in Stores
      BY DEF Good, Stores
    <2> QED BY <2>1 DEF Good, InfoMatches, PairMatches, Stores
  <1>6. Good([s EXCEPT !.loading = FALSE, !.error = TRUE])
    <2>1. [s EXCEPT !.loading = FALSE, !.error = TRUE] \in Stores
      BY DEF Good, Stores
    <2> QED BY <2>1 DEF Good, InfoMatches, PairMatches, Stores
  <1>7. Good([s EXCEPT !.issues = rev, !.issuesLoading = FALSE])
    <2>1. [s EXCEPT !.issues = rev, !.issuesLoading = FALSE] \in Stores
      BY DEF Good, Stores
    <2> QED BY <2>1 DEF Good, InfoMatches, PairMatches, Stores
  <1>8. Good([s EXCEPT !.issuesLoading = FALSE, !.error = TRUE])
    <2>1. [s EXCEPT !.issuesLoading = FALSE, !.error = TRUE] \in Stores
      BY DEF Good, Stores
    <2> QED BY <2>1 DEF Good, InfoMatches, PairMatches, Stores
  <1>9. Good([s EXCEPT !.meshStatus = rev])
    <2>1. [s EXCEPT !.meshStatus = rev] \in Stores
      BY DEF Good, Stores
    <2> QED BY <2>1 DEF Good, InfoMatches, PairMatches, Stores
  <1>10. Good([s EXCEPT !.clusterMetrics = rev])
    <2>1. [s EXCEPT !.clusterMetrics = rev] \in Stores
      BY DEF Good, Stores
    <2> QED BY <2>1 DEF Good, InfoMatches, PairMatches, Stores
  <1>11. Good([s EXCEPT !.loading = TRUE, !.error = FALSE])
    <2>1. [s EXCEPT !.loading = TRUE, !.error = FALSE] \in Stores
      BY DEF Good, Stores
    <2> QED BY <2>1 DEF Good, InfoMatches, PairMatches, Stores
  <1>12. Good([s EXCEPT !.nodeInfoLoading = FALSE])
    <2>1. [s EXCEPT !.nodeInfoLoading = FALSE] \in Stores
      BY DEF Good, Stores
    <2> QED BY <2>1 DEF Good, InfoMatches, PairMatches, Stores
  <1>13. Good([s EXCEPT !.reachabilityLoading = FALSE])
    <2>1. [s EXCEPT !.reachabilityLoading = FALSE] \in Stores
      BY DEF Good, Stores
    <2> QED BY <2>1 DEF Good, InfoMatches, PairMatches, Stores
  <1>14. Good([s EXCEPT !.reachabilityReverseLoading = FALSE, !.reachabilityReverseError = TRUE])
    <2>1. [s EXCEPT !.reachabilityReverseLoading = FALSE, !.reachabilityReverseError = TRUE] \in Stores
      BY DEF Good, Stores
    <2> QED BY <2>1 DEF Good, InfoMatches, PairMatches, Stores
  <1>15. Good([s EXCEPT !.edgeReachabilityLoading = FALSE])
    <2>1. [s EXCEPT !.edgeReachabilityLoading = FALSE] \in Stores
      BY DEF Good, Stores
    <2> QED BY <2>1 DEF Good, InfoMatches, PairMatches, Stores
  <1>16. Good([s EXCEPT !.edgeReachabilityLoading = TRUE])
    <2>1. [s EXCEPT !.edgeReachabilityLoading = TRUE] \in Stores
      BY DEF Good, Stores
    <2> QED BY <2>1 DEF Good, InfoMatches, PairMatches, Stores
  <1>17. Good([s EXCEPT !.nodeInfoLoading = TRUE])
    <2>1. [s EXCEPT !.nodeInfoLoading = TRUE] \in Stores
      BY DEF Good, Stores
    <2> QED BY <2>1 DEF Good, InfoMatches, PairMatches, Stores
  <1> QED BY <1>1, <1>2, <1>3, <1>4, <1>5, <1>6, <1>7, <1>8, <1>9, <1>10, <1>11, <1>12, <1>13, <1>14, <1>15, <1>16, <1>17

\* The continuations of the loads do not touch selection or verdicts.
LEMMA LoadSettles ==
  ASSUME Inv, NEW f \in Fetches,
         StateSettles(f) \/ GraphSettles(f) \/ IssuesSettle(f)
            \/ MeshStatusSettles(f) \/ ClusterMetricsSettle(f)
  PROVE  Inv'
  <1>0. Good(st) /\ served \in Revs BY DEF Inv, TypeOK
  <1>r. \A rev \in Answers(f) : rev \in 0..MaxRev
    BY <1>0, AnswerRevision, StoreAssumption DEF Revs
  <1>z. 0 \in 0..MaxRev /\ {} \in SUBSET NsNames BY StoreAssumption
  <1>1. CASE StateSettles(f)
    <2>1. Good([st EXCEPT !.availableNamespaces = NsNames, !.selectedNamespaces = NsNames])
      BY <1>0, <1>z, OtherWritesGood
    <2>2. Good([st EXCEPT !.error = TRUE]) BY <1>0, <1>z, OtherWritesGood
    <2> QED BY <1>1, <2>1, <2>2, ArrivesInv, FailsInv DEF StateSettles
  <1>2. CASE GraphSettles(f)
    <2> DEFINE After(rev) == [st EXCEPT !.graph = rev, !.loading = FALSE,
                                        !.issuesLoading = TRUE]
               AfterFocused(rev) == [st EXCEPT !.graph = rev, !.loading = FALSE,
                                               !.issuesLoading = TRUE,
                                               !.nodeInfoLoading = TRUE]
               Loads == {Load("issues"), Load("mesh"), Load("metrics")}
               Details == {Load("issues"), Load("mesh"), Load("metrics"),
                           Fetch("nodeInfo", st.selectedNode, None)}
    <2>1. \A g \in Loads : Resolved(g) BY DEF Resolved, Load, Fetch
    <2>2. \A g \in Details : Resolved(g) BY DEF Resolved, Load, Fetch
    <2>3. \A rev \in Answers(f) : Good(After(rev)) /\ Good(AfterFocused(rev))
      BY <1>0, <1>r, <1>z, OtherWritesGood
    <2>4. Good([st EXCEPT !.loading = FALSE, !.error = TRUE])
      BY <1>0, <1>z, OtherWritesGood
    <2>5. \/ \E rev \in Answers(f) :
                Arrives(f, After(rev), Loads) \/ Arrives(f, AfterFocused(rev), Details)
          \/ Fails(f, [st EXCEPT !.loading = FALSE, !.error = TRUE])
      BY <1>2, Zenon DEF GraphSettles
    <2>6. ASSUME NEW rev \in Answers(f), Arrives(f, After(rev), Loads) PROVE Inv'
      <3> HIDE DEF After, Loads
      <3> QED BY <2>1, <2>3, <2>6, ArrivesInv
    <2>7. ASSUME NEW rev \in Answers(f), Arrives(f, AfterFocused(rev), Details) PROVE Inv'
      <3> HIDE DEF AfterFocused, Details
      <3> QED BY <2>2, <2>3, <2>7, ArrivesInv
    <2>8. CASE Fails(f, [st EXCEPT !.loading = FALSE, !.error = TRUE])
      BY <2>4, <2>8, FailsInv
    <2> HIDE DEF After, AfterFocused, Loads, Details
    <2> QED BY <2>5, <2>6, <2>7, <2>8
  <1>3. CASE IssuesSettle(f)
    <2>1. CASE \E rev \in Answers(f) :
                  Arrives(f, [st EXCEPT !.issues = rev, !.issuesLoading = FALSE], {})
      <3>1. PICK rev \in Answers(f) :
                  Arrives(f, [st EXCEPT !.issues = rev, !.issuesLoading = FALSE], {}) BY <2>1
      <3>2. Good([st EXCEPT !.issues = rev, !.issuesLoading = FALSE]) BY <1>0, <1>r, <1>z, OtherWritesGood
      <3> QED BY <3>1, <3>2, ArrivesInv
    <2>2. Good([st EXCEPT !.issuesLoading = FALSE, !.error = TRUE]) BY <1>0, <1>z, OtherWritesGood
    <2> QED BY <1>3, <2>1, <2>2, FailsInv DEF IssuesSettle
  <1>4. CASE MeshStatusSettles(f)
    <2>1. CASE \E rev \in Answers(f) : Arrives(f, [st EXCEPT !.meshStatus = rev], {})
      <3>1. PICK rev \in Answers(f) : Arrives(f, [st EXCEPT !.meshStatus = rev], {}) BY <2>1
      <3>2. Good([st EXCEPT !.meshStatus = rev]) BY <1>0, <1>r, <1>z, OtherWritesGood
      <3> QED BY <3>1, <3>2, ArrivesInv
    <2>2. Good([st EXCEPT !.error = TRUE]) BY <1>0, <1>z, OtherWritesGood
    <2> QED BY <1>4, <2>1, <2>2, FailsInv DEF MeshStatusSettles
  <1>5. CASE ClusterMetricsSettle(f)
    <2>1. CASE \E rev \in Answers(f) : Arrives(f, [st EXCEPT !.clusterMetrics = rev], {})
      <3>1. PICK rev \in Answers(f) : Arrives(f, [st EXCEPT !.clusterMetrics = rev], {}) BY <2>1
      <3>2. Good([st EXCEPT !.clusterMetrics = rev]) BY <1>0, <1>r, <1>z, OtherWritesGood
      <3> QED BY <3>1, <3>2, ArrivesInv
    <2>2. Good([st EXCEPT !.error = TRUE]) BY <1>0, <1>z, OtherWritesGood
    <2> QED BY <1>5, <2>1, <2>2, FailsInv DEF ClusterMetricsSettle
  <1> QED BY <1>1, <1>2, <1>3, <1>4, <1>5

\* Storing a node's detail, a verdict of the pinned pair in either direction, or
\* the verdict of an edge keeps a good store good: the bail checks are what makes
\* the first two true.
LEMMA ShownWritesGood ==
  ASSUME NEW s, Good(s), NEW x \in Nodes, NEW y \in Nodes, NEW rev \in Revs
  PROVE  /\ s.selectedNode = x =>
               Good([s EXCEPT !.nodeInfo = [id |-> x, rev |-> rev], !.nodeInfoLoading = FALSE])
         /\ s.reachabilitySource = x /\ s.reachabilityTarget = y =>
               /\ Good([s EXCEPT !.reachability = [src |-> x, dst |-> y, rev |-> rev],
                                 !.reachabilityLoading = FALSE])
               /\ Good([s EXCEPT !.reachabilityReverse = [src |-> y, dst |-> x, rev |-> rev],
                                 !.reachabilityReverseLoading = FALSE])
         /\ Good([s EXCEPT !.edgeReachability = [src |-> x, dst |-> y, rev |-> rev],
                           !.edgeReachabilityLoading = FALSE])
  <1>1. /\ [id |-> x, rev |-> rev] \in NodeInfos
        /\ [src |-> x, dst |-> y, rev |-> rev] \in Results
        /\ [src |-> y, dst |-> x, rev |-> rev] \in Results
    BY DEF NodeInfos, Results
  <1>2. ASSUME s.selectedNode = x
        PROVE  Good([s EXCEPT !.nodeInfo = [id |-> x, rev |-> rev], !.nodeInfoLoading = FALSE])
    <2>1. [s EXCEPT !.nodeInfo = [id |-> x, rev |-> rev], !.nodeInfoLoading = FALSE] \in Stores
      BY <1>1 DEF Good, Stores
    <2> QED BY <2>1, <1>2 DEF Good, InfoMatches, PairMatches, Stores
  <1>3. ASSUME s.reachabilitySource = x, s.reachabilityTarget = y
        PROVE  Good([s EXCEPT !.reachability = [src |-> x, dst |-> y, rev |-> rev],
                              !.reachabilityLoading = FALSE])
    <2>1. [s EXCEPT !.reachability = [src |-> x, dst |-> y, rev |-> rev],
                    !.reachabilityLoading = FALSE] \in Stores
      BY <1>1 DEF Good, Stores
    <2> QED BY <2>1, <1>3 DEF Good, InfoMatches, PairMatches, Stores
  <1>4. ASSUME s.reachabilitySource = x, s.reachabilityTarget = y
        PROVE  Good([s EXCEPT !.reachabilityReverse = [src |-> y, dst |-> x, rev |-> rev],
                              !.reachabilityReverseLoading = FALSE])
    <2>1. [s EXCEPT !.reachabilityReverse = [src |-> y, dst |-> x, rev |-> rev],
                    !.reachabilityReverseLoading = FALSE] \in Stores
      BY <1>1 DEF Good, Stores
    <2> QED BY <2>1, <1>4 DEF Good, InfoMatches, PairMatches, Stores
  <1>5. Good([s EXCEPT !.edgeReachability = [src |-> x, dst |-> y, rev |-> rev],
                       !.edgeReachabilityLoading = FALSE])
    <2>1. [s EXCEPT !.edgeReachability = [src |-> x, dst |-> y, rev |-> rev],
                    !.edgeReachabilityLoading = FALSE] \in Stores
      BY <1>1 DEF Good, Stores
    <2> QED BY <2>1 DEF Good, InfoMatches, PairMatches, Stores
  <1> QED BY <1>2, <1>3, <1>4, <1>5

\* The continuations of the panel's calls keep the invariant.
LEMMA PanelSettles ==
  ASSUME Inv, NEW f \in Fetches,
         NodeInfoSettles(f) \/ ForwardSettles(f) \/ ReverseSettles(f) \/ EdgeVerdictSettles(f)
  PROVE  Inv'
  <1>0. Good(st) /\ served \in Revs BY DEF Inv, TypeOK
  <1>r. \A rev \in Answers(f) : rev \in Revs BY <1>0, AnswerRevision
  <1>z. 0 \in 0..MaxRev /\ {} \in SUBSET NsNames BY StoreAssumption
  <1>1. CASE NodeInfoSettles(f)
    <2>0. f.from \in Nodes BY <1>1, CapturedArguments DEF NodeInfoSettles
    <2>1. CASE \E rev \in Answers(f) :
                 Arrives(f, IF st.selectedNode # f.from THEN st
                            ELSE [st EXCEPT !.nodeInfo = [id |-> f.from, rev |-> rev],
                                            !.nodeInfoLoading = FALSE], {})
      <3>1. PICK rev \in Answers(f) :
                 Arrives(f, IF st.selectedNode # f.from THEN st
                            ELSE [st EXCEPT !.nodeInfo = [id |-> f.from, rev |-> rev],
                                            !.nodeInfoLoading = FALSE], {}) BY <2>1
      <3>2. CASE st.selectedNode # f.from
        <4>1. Arrives(f, st, {}) BY <3>1, <3>2
        <4> QED BY <4>1, <1>0, ArrivesInv
      <3>3. CASE st.selectedNode = f.from
        <4>1. Arrives(f, [st EXCEPT !.nodeInfo = [id |-> f.from, rev |-> rev],
                                    !.nodeInfoLoading = FALSE], {}) BY <3>1, <3>3
        <4>2. Good([st EXCEPT !.nodeInfo = [id |-> f.from, rev |-> rev],
                              !.nodeInfoLoading = FALSE])
          BY <1>0, <1>r, <2>0, <3>3, ShownWritesGood
        <4> QED BY <4>1, <4>2, ArrivesInv
      <3> QED BY <3>2, <3>3
    <2>2. Good([st EXCEPT !.nodeInfoLoading = FALSE]) BY <1>0, <1>z, OtherWritesGood
    <2> QED BY <1>1, <2>1, <2>2, FailsInv DEF NodeInfoSettles
  <1>2. CASE ForwardSettles(f)
    <2>0. f.from \in Nodes /\ f.to \in Nodes BY <1>2, CapturedArguments DEF ForwardSettles
    <2>1. CASE \E rev \in Answers(f) :
                 Arrives(f, IF MovedOn(f) THEN st
                            ELSE [st EXCEPT !.reachability = [src |-> f.from, dst |-> f.to,
                                                              rev |-> rev],
                                            !.reachabilityLoading = FALSE], {})
      <3>1. PICK rev \in Answers(f) :
                 Arrives(f, IF MovedOn(f) THEN st
                            ELSE [st EXCEPT !.reachability = [src |-> f.from, dst |-> f.to,
                                                              rev |-> rev],
                                            !.reachabilityLoading = FALSE], {}) BY <2>1
      <3>2. CASE MovedOn(f)
        <4>1. Arrives(f, st, {}) BY <3>1, <3>2
        <4> QED BY <4>1, <1>0, ArrivesInv
      <3>3. CASE ~MovedOn(f)
        <4>1. Arrives(f, [st EXCEPT !.reachability = [src |-> f.from, dst |-> f.to,
                                                      rev |-> rev],
                                    !.reachabilityLoading = FALSE], {}) BY <3>1, <3>3
        <4>2. st.reachabilitySource = f.from /\ st.reachabilityTarget = f.to
          BY <3>3 DEF MovedOn
        <4>3. Good([st EXCEPT !.reachability = [src |-> f.from, dst |-> f.to, rev |-> rev],
                              !.reachabilityLoading = FALSE])
          BY <1>0, <1>r, <2>0, <4>2, ShownWritesGood
        <4> QED BY <4>1, <4>3, ArrivesInv
      <3> QED BY <3>2, <3>3
    <2>2. Good([st EXCEPT !.reachabilityLoading = FALSE]) BY <1>0, <1>z, OtherWritesGood
    <2> QED BY <1>2, <2>1, <2>2, FailsInv DEF ForwardSettles
  <1>3. CASE ReverseSettles(f)
    <2>0. f.from \in Nodes /\ f.to \in Nodes BY <1>3, CapturedArguments DEF ReverseSettles
    <2>1. CASE \E rev \in Answers(f) :
                 Arrives(f, IF MovedOn(f) THEN st
                            ELSE [st EXCEPT !.reachabilityReverse = [src |-> f.to,
                                                                     dst |-> f.from,
                                                                     rev |-> rev],
                                            !.reachabilityReverseLoading = FALSE], {})
      <3>1. PICK rev \in Answers(f) :
                 Arrives(f, IF MovedOn(f) THEN st
                            ELSE [st EXCEPT !.reachabilityReverse = [src |-> f.to,
                                                                     dst |-> f.from,
                                                                     rev |-> rev],
                                            !.reachabilityReverseLoading = FALSE], {}) BY <2>1
      <3>2. CASE MovedOn(f)
        <4>1. Arrives(f, st, {}) BY <3>1, <3>2
        <4> QED BY <4>1, <1>0, ArrivesInv
      <3>3. CASE ~MovedOn(f)
        <4>1. Arrives(f, [st EXCEPT !.reachabilityReverse = [src |-> f.to, dst |-> f.from,
                                                             rev |-> rev],
                                    !.reachabilityReverseLoading = FALSE], {})
          BY <3>1, <3>3
        <4>2. st.reachabilitySource = f.from /\ st.reachabilityTarget = f.to
          BY <3>3 DEF MovedOn
        <4>3. Good([st EXCEPT !.reachabilityReverse = [src |-> f.to, dst |-> f.from,
                                                       rev |-> rev],
                              !.reachabilityReverseLoading = FALSE])
          BY <1>0, <1>r, <2>0, <4>2, ShownWritesGood
        <4> QED BY <4>1, <4>3, ArrivesInv
      <3> QED BY <3>2, <3>3
    <2>2. CASE Fails(f, IF MovedOn(f) THEN st
                        ELSE [st EXCEPT !.reachabilityReverseLoading = FALSE,
                                        !.reachabilityReverseError = TRUE])
      <3>1. Good([st EXCEPT !.reachabilityReverseLoading = FALSE,
                            !.reachabilityReverseError = TRUE])
        BY <1>0, <1>z, OtherWritesGood
      <3>2. CASE MovedOn(f)
        <4>1. Fails(f, st) BY <2>2, <3>2
        <4> QED BY <4>1, <1>0, FailsInv
      <3>3. CASE ~MovedOn(f)
        <4>1. Fails(f, [st EXCEPT !.reachabilityReverseLoading = FALSE,
                                  !.reachabilityReverseError = TRUE]) BY <2>2, <3>3
        <4> QED BY <4>1, <3>1, FailsInv
      <3> QED BY <3>2, <3>3
    <2> QED BY <1>3, <2>1, <2>2 DEF ReverseSettles
  <1>4. CASE EdgeVerdictSettles(f)
    <2>0. ASSUME Exchange(f, {})
          PROVE  f.from.source \in Nodes /\ f.from.target \in Nodes
      BY <1>4, <2>0 DEF Inv, CallsResolved, Resolved, Exchange, EdgeVerdictSettles
    <2>1. CASE \E rev \in Answers(f) :
                 \/ Arrives(f, st, {})
                 \/ Arrives(f, [st EXCEPT !.edgeReachability = [src |-> f.from.source,
                                                                dst |-> f.from.target,
                                                                rev |-> rev],
                                          !.edgeReachabilityLoading = FALSE], {})
      <3>1. PICK rev \in Answers(f) :
                 \/ Arrives(f, st, {})
                 \/ Arrives(f, [st EXCEPT !.edgeReachability = [src |-> f.from.source,
                                                                dst |-> f.from.target,
                                                                rev |-> rev],
                                          !.edgeReachabilityLoading = FALSE], {}) BY <2>1
      <3>2. CASE Arrives(f, st, {}) BY <3>2, <1>0, ArrivesInv
      <3>3. CASE Arrives(f, [st EXCEPT !.edgeReachability = [src |-> f.from.source,
                                                             dst |-> f.from.target,
                                                             rev |-> rev],
                                       !.edgeReachabilityLoading = FALSE], {})
        <4>1. f.from.source \in Nodes /\ f.from.target \in Nodes BY <3>3, <2>0 DEF Arrives
        <4>2. Good([st EXCEPT !.edgeReachability = [src |-> f.from.source,
                                                    dst |-> f.from.target, rev |-> rev],
                              !.edgeReachabilityLoading = FALSE])
          BY <1>0, <1>r, <4>1, ShownWritesGood
        <4> QED BY <3>3, <4>2, ArrivesInv
      <3> QED BY <3>1, <3>2, <3>3
    <2>2. Good([st EXCEPT !.edgeReachabilityLoading = FALSE]) BY <1>0, <1>z, OtherWritesGood
    <2>3. CASE Fails(f, [st EXCEPT !.edgeReachabilityLoading = FALSE])
      BY <2>3, <2>2, FailsInv
    <2> QED BY <1>4, <2>1, <2>3, Zenon DEF EdgeVerdictSettles
  <1> QED BY <1>1, <1>2, <1>3, <1>4

\* What the user does keeps the invariant.
LEMMA UserInv ==
  ASSUME Inv, User PROVE Inv'
  <1>0. Good(st) BY DEF Inv
  <1>z. 0 \in 0..MaxRev /\ {} \in SUBSET NsNames BY StoreAssumption
  <1>e. \A g \in {} : Resolved(g) OBVIOUS
  <1>n. Good(selectNode(st, None)) BY <1>0, SelectNodeGood
  <1>b. Good(selectEdges(selectNode(st, None), None)) BY <1>n, SelectEdgesGood
  <1>p. \A src, dst : \A g \in BothDirections(src, dst) : Resolved(g)
    BY DEF BothDirections, Fetch, Resolved
  <1>1. CASE ToggleFilter
    <2>1. Good(deselect(st)) BY <1>0, DeselectGood
    <2>2. \A chosen \in SUBSET NsNames :
             Good([deselect(st) EXCEPT !.selectedNamespaces = chosen])
      BY <2>1, <1>z, OtherWritesGood
    <2>3. ASSUME NEW chosen \in SUBSET NsNames,
                 UserActs([deselect(st) EXCEPT !.selectedNamespaces = chosen], {})
          PROVE  Inv'
      BY <1>e, <2>2, <2>3, UserActsInv
    <2>4. CASE UserActs(deselect(st), {}) BY <1>e, <2>1, <2>4, UserActsInv
    <2> QED BY <1>1, <2>3, <2>4, Zenon DEF ToggleFilter
  <1>2. ASSUME NEW node \in Nodes, ClickTarget(node) PROVE Inv'
    <2>1. st.reachabilitySource \in Nodes BY <1>0, <1>2 DEF Good, Stores, ClickTarget
    <2>2. Good(askReachability(st, st.reachabilitySource, node))
      BY <1>0, <2>1, AskReachabilityGood
    <2> QED BY <1>2, <2>2, <1>p, UserActsInv DEF ClickTarget
  <1>3. ASSUME NEW node \in Nodes, ClickNode(node) PROVE Inv'
    <2>1. Good(selectNode(st, node)) BY <1>0, SelectNodeGood
    <2>2. Good([selectNode(st, node) EXCEPT !.nodeInfoLoading = TRUE])
      BY <2>1, <1>z, OtherWritesGood
    <2>3. \A g \in {Fetch("nodeInfo", node, None)} : Resolved(g) BY DEF Fetch, Resolved
    <2> QED BY <1>3, <2>2, <2>3, UserActsInv DEF ClickNode
  <1>4. ASSUME NEW node \in Nodes, pinReachabilitySource(node) PROVE Inv'
    <2>1. [st EXCEPT !.reachabilitySource = node, !.reachability = None,
                     !.reachabilityTarget = None] \in Stores
      BY <1>0 DEF Good, Stores
    <2>2. Good([st EXCEPT !.reachabilitySource = node, !.reachability = None,
                          !.reachabilityTarget = None])
      BY <1>0, <2>1 DEF Good, Stores, InfoMatches, PairMatches
    <2> QED BY <1>4, <1>e, <2>2, UserActsInv DEF pinReachabilitySource
  <1>5. ASSUME NEW edge \in Edges, ClickEdge(edge) PROVE Inv'
    <2>1. Good(selectEdges(st, edge)) BY <1>0, SelectEdgesGood
    <2>2. Good([selectEdges(st, edge) EXCEPT !.edgeReachabilityLoading = TRUE])
      BY <2>1, <1>z, OtherWritesGood
    <2>3. CASE UserActs(selectEdges(st, edge), {}) BY <2>3, <1>e, <2>1, UserActsInv
    <2>4. CASE /\ edge.source # None /\ edge.target # None
               /\ UserActs([selectEdges(st, edge) EXCEPT !.edgeReachabilityLoading = TRUE],
                           {Fetch("edge", edge, None)})
      <3>1. edge.source \in Nodes /\ edge.target \in Nodes
        BY <2>4, StoreAssumption DEF EdgeRecords
      <3>2. \A g \in {Fetch("edge", edge, None)} : Resolved(g) BY <3>1 DEF Fetch, Resolved
      <3> QED BY <2>4, <2>2, <3>2, UserActsInv
    <2> QED BY <1>5, <2>3, <2>4, Zenon DEF ClickEdge
  <1>6. CASE ClickFocused BY <1>6, <1>e, <1>n, UserActsInv DEF ClickFocused
  <1>7. CASE ClickBackground BY <1>7, <1>e, <1>b, UserActsInv DEF ClickBackground
  <1>8. CASE ClosePanel
    <2>1. Good(clearReachability(selectEdges(selectNode(st, None), None)))
      BY <1>b, ClearReachabilityGood
    <2> QED BY <1>8, <1>e, <2>1, UserActsInv DEF ClosePanel
  <1>9. ASSUME NEW src \in Nodes, NEW dst \in Nodes, showReachability(src, dst) PROVE Inv'
    <2>1. Good(askReachability(selectNode(st, None), src, dst)) BY <1>n, AskReachabilityGood
    <2> QED BY <1>9, <1>p, <2>1, UserActsInv DEF showReachability
  <1> QED BY <1>1, <1>2, <1>3, <1>4, <1>5, <1>6, <1>7, <1>8, <1>9, Zenon DEF User

\* Applying a scenario writes a good store and asks for resolved calls only.
LEMMA ScenarioGood ==
  ASSUME Inv, NEW scenario \in Scenarios, applyScenario(scenario)
  PROVE  /\ Good(st')
         /\ inflight' \in [Fetches -> Nat] /\ CallsResolved'
  <1>0. Good(st) /\ inflight \in [Fetches -> Nat] /\ CallsResolved BY DEF Inv, TypeOK
  <1>z. 0 \in 0..MaxRev /\ {} \in SUBSET NsNames BY StoreAssumption
  <1>1. Good(scenarioState(scenario))
    <2>1. Good(selectEdges(selectNode(clearReachability(st), None), None))
      BY <1>0, ClearReachabilityGood, SelectNodeGood, SelectEdgesGood
    <2>2. (IF scenario.namespaces # {} THEN scenario.namespaces ELSE st.availableNamespaces)
             \in SUBSET NsNames
      BY <1>0, StoreAssumption DEF Good, Stores
    <2> QED BY <2>1, <2>2, <1>z, OtherWritesGood DEF scenarioState
  <1>2. CASE st' = scenarioState(scenario) /\ Send({})
    BY <1>0, <1>1, <1>2, SendCounts
  <1>3. ASSUME NEW src \in Nodes, NEW dst \in Nodes,
               st' = askReachability(scenarioState(scenario), src, dst),
               Send(BothDirections(src, dst))
        PROVE  /\ Good(st')
               /\ inflight' \in [Fetches -> Nat] /\ CallsResolved'
    <2>1. \A g \in BothDirections(src, dst) : Resolved(g)
      BY DEF BothDirections, Fetch, Resolved
    <2> QED BY <1>0, <1>1, <1>3, <2>1, SendCounts, AskReachabilityGood
  <1>4. ASSUME NEW node \in Nodes,
               st' = [selectNode(scenarioState(scenario), node) EXCEPT !.nodeInfoLoading = TRUE],
               Send({Fetch("nodeInfo", node, None)})
        PROVE  /\ Good(st')
               /\ inflight' \in [Fetches -> Nat] /\ CallsResolved'
    <2>1. \A g \in {Fetch("nodeInfo", node, None)} : Resolved(g) BY DEF Fetch, Resolved
    <2>2. Good(selectNode(scenarioState(scenario), node)) BY <1>1, SelectNodeGood
    <2>3. Good(st') BY <2>2, <1>4, <1>z, OtherWritesGood
    <2> QED BY <1>0, <1>4, <2>1, <2>3, SendCounts
  <1> QED BY <1>2, <1>3, <1>4, Zenon DEF applyScenario

-----------------------------------------------------------------------------
(* The theorems.                                                           *)

\* Inv is an invariant: it holds initially and every step keeps it.
LEMMA InvInvariant == Spec => []Inv
  <1>1. Init => Inv
    <2> SUFFICES ASSUME Init PROVE Inv OBVIOUS
    <2>1. Good(st) BY InitialGood DEF Init
    <2>2. inflight \in [Fetches -> Nat] /\ CallsResolved BY DEF Init, CallsResolved
    <2>3. served \in Revs /\ loads \in Nat /\ faults \in Nat
      BY StoreAssumption DEF Init, Revs
    <2>4. landed \in BOOLEAN BY Zenon DEF Init
    <2> QED BY <2>1, <2>2, <2>3, <2>4, Zenon DEF Inv, TypeOK, Good
  <1>2. Inv /\ [Next]_vars => Inv'
    <2> SUFFICES ASSUME Inv, [Next]_vars PROVE Inv' OBVIOUS
    <2>0. Good(st) /\ 0 \in 0..MaxRev /\ {} \in SUBSET NsNames
      BY StoreAssumption DEF Inv
    <2>i. inflight \in [Fetches -> Nat] /\ CallsResolved BY DEF Inv, TypeOK
    <2>s. Good(startLoadGraph(st)) BY <2>0, OtherWritesGood DEF startLoadGraph
    <2>l. /\ \A g \in {Load("state"), Load("graph")} : Resolved(g)
          /\ \A g \in {Load("graph")} : Resolved(g)
      BY DEF Load, Fetch, Resolved
    <2>1. CASE SnapshotPublished
      BY <2>1, StoreAssumption DEF SnapshotPublished, Inv, TypeOK, Revs, CallsResolved
    <2>2. CASE Mount
      <3>1. inflight' \in [Fetches -> Nat] /\ CallsResolved'
        BY <2>2, <2>i, <2>l, SendCounts DEF Mount
      <3> QED BY <2>2, <2>s, <3>1 DEF Mount, Inv, TypeOK, Good
    <2>3. CASE Refresh
      <3>1. inflight' \in [Fetches -> Nat] /\ CallsResolved'
        BY <2>3, <2>i, <2>l, SendCounts DEF Refresh
      <3> QED BY <2>3, <2>s, <3>1 DEF Refresh, Inv, TypeOK, Good
    <2>4. CASE \E f \in Fetches : Settles(f)
      BY <2>4, LoadSettles, PanelSettles DEF Settles
    <2>5. CASE User BY <2>5, UserInv
    <2>6. CASE ScenarioLands
      <3>1. CASE UNCHANGED <<st, inflight, total>>
        BY <2>6, <3>1 DEF ScenarioLands, Inv, TypeOK, CallsResolved
      <3>2. CASE Landing # None /\ applyScenario(Landing)
        <4>1. Good(st') /\ inflight' \in [Fetches -> Nat] /\ CallsResolved'
          BY <3>2, ScenarioGood, StoreAssumption
        <4> QED BY <2>6, <4>1 DEF ScenarioLands, Inv, TypeOK, Good
      <3> QED BY <2>6, <3>1, <3>2 DEF ScenarioLands
    <2>7. CASE ScenarioPicked
      <3>1. Good(st') /\ inflight' \in [Fetches -> Nat] /\ CallsResolved'
        BY <2>7, ScenarioGood DEF ScenarioPicked
      <3> QED BY <2>7, <3>1 DEF ScenarioPicked, Inv, TypeOK, Good
    <2>8. CASE UNCHANGED vars
      BY <2>8 DEF vars, Inv, TypeOK, CallsResolved
    <2> QED BY <2>1, <2>2, <2>3, <2>4, <2>5, <2>6, <2>7, <2>8, Zenon DEF Next
  <1> QED BY <1>1, <1>2, PTL DEF Spec

\* The store, the counts of outstanding calls and what continuations capture keep
\* their types; in particular no verdict is ever stored for an edge with an
\* unknown endpoint (setSelectedEdges' early returns).
THEOREM StoreTypeCorrect == Spec => []TypeOK
  <1>1. Inv => TypeOK BY DEF Inv
  <1> QED BY <1>1, InvInvariant, PTL

\* Whatever the order of the node-info answers, the detail shown is that of the
\* selected node (loadNodeInfo's bail).
THEOREM NodeInfoMatchesSelection == Spec => []NodeInfoIsForSelection
  <1>1. Inv => NodeInfoIsForSelection BY DEF Inv, Good, InfoMatches, NodeInfoIsForSelection
  <1> QED BY <1>1, InvInvariant, PTL

\* Whatever the user pins and targets meanwhile, the forward and the reverse
\* verdict shown are those of the pinned pair (the bails of setSelectedNode and
\* showReachability).
THEOREM VerdictsMatchPair == Spec => []VerdictsAreForPair
  <1>1. Inv => VerdictsAreForPair BY DEF Inv, Good, PairMatches, VerdictsAreForPair
  <1> QED BY <1>1, InvInvariant, PTL

-----------------------------------------------------------------------------
(* Nothing waits for nobody.  Awaited pairs every spinner, and a reverse     *)
(* verdict that is neither there nor failed, with the outstanding call whose *)
(* continuation will not bail and will end it.  A bail is then harmless: it  *)
(* drops the answer of another call than the one waited for.                *)

CallOf(f) == <<f.call, f.from, f.to>>
CallsOf(calls) == {CallOf(f) : f \in calls}
Outstanding == CallsOf({f \in Fetches : inflight[f] > 0})

Awaited(s, calls) ==
    /\ s.loading => <<"graph", None, None>> \in calls
    /\ s.issuesLoading => <<"issues", None, None>> \in calls
    /\ s.selectedNode # None /\ s.nodeInfoLoading
          => <<"nodeInfo", s.selectedNode, None>> \in calls
    /\ s.reachabilityTarget # None =>
          /\ s.reachabilityLoading
                => <<"forward", s.reachabilitySource, s.reachabilityTarget>> \in calls
          /\ s.reachabilityReverseLoading
                \/ (s.reachabilityReverse = None /\ ~s.reachabilityReverseError)
                => <<"reverse", s.reachabilitySource, s.reachabilityTarget>> \in calls

\* More calls outstanding do no harm.
LEMMA AwaitedGrows ==
  ASSUME NEW s, NEW calls, NEW more, Awaited(s, calls), calls \subseteq more
  PROVE  Awaited(s, more)
  BY DEF Awaited

\* What a call is known by.
LEMMA CallNames ==
  ASSUME NEW call, NEW from, NEW to
  PROVE  CallOf(Fetch(call, from, to)) = <<call, from, to>>
  BY DEF CallOf, Fetch

\* The calls the store makes.
LEMMA CallsTyped ==
  ASSUME served \in Revs
  PROVE  /\ \A call \in LoadCalls : Load(call) \in Fetches
         /\ \A n \in Nodes : Fetch("nodeInfo", n, None) \in Fetches
         /\ \A n, m \in Nodes : BothDirections(n, m) \subseteq Fetches
         /\ \A e \in Edges : Fetch("edge", e, None) \in Fetches
  <1>1. \A call \in LoadCalls : Load(call) \in Fetches BY DEF Load, Fetch, Fetches
  <1>2. \A n \in Nodes : Fetch("nodeInfo", n, None) \in Fetches BY DEF Fetch, Fetches
  <1>3. \A n, m \in Nodes : BothDirections(n, m) \subseteq Fetches
    BY DEF BothDirections, Fetch, Fetches
  <1>4. \A e \in Edges : Fetch("edge", e, None) \in Fetches BY DEF Fetch, Fetches
  <1> QED BY <1>1, <1>2, <1>3, <1>4

\* A call that is sent is outstanding,
LEMMA SendAdds ==
  ASSUME inflight \in [Fetches -> Nat], NEW calls \in SUBSET Fetches, Send(calls)
  PROVE  Outstanding \cup CallsOf(calls) \subseteq Outstanding'
  <1>1. \A f \in Fetches : inflight[f] > 0 \/ f \in calls => inflight'[f] > 0
    BY DEF Send, One
  <1> QED BY <1>1 DEF Outstanding, CallsOf

\* and one that ends takes no other along.
LEMMA ExchangeKeeps ==
  ASSUME inflight \in [Fetches -> Nat], NEW f \in Fetches, NEW calls \in SUBSET Fetches,
         Exchange(f, calls)
  PROVE  (Outstanding \ {CallOf(f)}) \cup CallsOf(calls) \subseteq Outstanding'
  <1>1. \A g \in Fetches \ {f} : inflight[g] > 0 => inflight'[g] > 0
    BY DEF Exchange, One
  <1>2. \A g \in calls : inflight'[g] > 0
    BY DEF Exchange, One
  <1> QED BY <1>1, <1>2 DEF Outstanding, CallsOf

LEMMA ArrivesAwaited ==
  ASSUME Inv, NEW f \in Fetches, NEW s, NEW calls \in SUBSET Fetches, Arrives(f, s, calls),
         Awaited(s, (Outstanding \ {CallOf(f)}) \cup CallsOf(calls))
  PROVE  Awaited(st, Outstanding)'
  <1>1. (Outstanding \ {CallOf(f)}) \cup CallsOf(calls) \subseteq Outstanding'
    BY ExchangeKeeps DEF Arrives, Inv, TypeOK
  <1>2. Awaited(s, Outstanding') BY <1>1, AwaitedGrows
  <1> QED BY <1>2 DEF Arrives, Awaited

LEMMA FailsAwaited ==
  ASSUME Inv, NEW f \in Fetches, NEW s, Fails(f, s), Awaited(s, Outstanding \ {CallOf(f)})
  PROVE  Awaited(st, Outstanding)'
  <1>1. (Outstanding \ {CallOf(f)}) \cup CallsOf({}) \subseteq Outstanding'
    BY ExchangeKeeps DEF Fails, Inv, TypeOK
  <1>2. Awaited(s, Outstanding') BY <1>1, AwaitedGrows
  <1> QED BY <1>2 DEF Fails, Awaited

LEMMA SendAwaited ==
  ASSUME Inv, NEW calls \in SUBSET Fetches, Send(calls),
         Awaited(st', Outstanding \cup CallsOf(calls))
  PROVE  Awaited(st, Outstanding)'
  <1>1. Outstanding \cup CallsOf(calls) \subseteq Outstanding' BY SendAdds DEF Inv, TypeOK
  <1>2. Awaited(st', Outstanding') BY <1>1, AwaitedGrows
  <1> QED BY <1>2 DEF Awaited

\* The writes that wait for nothing new.
LEMMA CalmWrites ==
  ASSUME NEW s \in Stores, NEW calls, Awaited(s, calls), NEW e
  PROVE  /\ Awaited(deselect(s), calls)
         /\ Awaited(selectNode(s, None), calls)
         /\ Awaited(selectEdges(s, e), calls)
         /\ Awaited(clearReachability(s), calls)
         /\ Awaited([s EXCEPT !.selectedNamespaces = e], calls)
         /\ Awaited([s EXCEPT !.edgeReachabilityLoading = e], calls)
  BY DEF Awaited, Stores, deselect, selectNode, selectEdges, clearReachability

\* Selecting a node and asking about a pair wait for the calls they make.
LEMMA AskingWrites ==
  ASSUME NEW s \in Stores, NEW calls, Awaited(s, calls), NEW src, NEW dst
  PROVE  /\ Awaited([selectNode(s, src) EXCEPT !.nodeInfoLoading = TRUE],
                    calls \cup CallsOf({Fetch("nodeInfo", src, None)}))
         /\ Awaited(askReachability(s, src, dst), calls \cup CallsOf(BothDirections(src, dst)))
  <1>1. <<"nodeInfo", src, None>> \in CallsOf({Fetch("nodeInfo", src, None)})
    BY CallNames DEF CallsOf
  <1>2. /\ <<"forward", src, dst>> \in CallsOf(BothDirections(src, dst))
        /\ <<"reverse", src, dst>> \in CallsOf(BothDirections(src, dst))
    BY CallNames DEF CallsOf, BothDirections
  <1>3. Awaited([selectNode(s, src) EXCEPT !.nodeInfoLoading = TRUE],
                calls \cup CallsOf({Fetch("nodeInfo", src, None)}))
    BY <1>1 DEF Awaited, Stores, selectNode
  <1>4. Awaited(askReachability(s, src, dst), calls \cup CallsOf(BothDirections(src, dst)))
    BY <1>2 DEF Awaited, Stores, askReachability
  <1> QED BY <1>3, <1>4

\* The continuations of the loads.
LEMMA LoadsAwaited ==
  ASSUME Inv, Awaited(st, Outstanding), NEW f \in Fetches,
         StateSettles(f) \/ GraphSettles(f) \/ IssuesSettle(f)
            \/ MeshStatusSettles(f) \/ ClusterMetricsSettle(f)
  PROVE  Awaited(st, Outstanding)'
  <1> DEFINE Rest == Outstanding \ {CallOf(f)}
  <1>0. st \in Stores /\ served \in Revs BY DEF Inv, TypeOK
  <1>n. CallsOf({}) = {} BY DEF CallsOf
  <1>1. CASE StateSettles(f)
    <2>1. Awaited(st, Rest) BY <1>1 DEF Awaited, StateSettles, CallOf
    <2>2. /\ Awaited([st EXCEPT !.availableNamespaces = NsNames, !.selectedNamespaces = NsNames], Rest)
          /\ Awaited([st EXCEPT !.error = TRUE], Rest)
      BY <1>0, <2>1 DEF Awaited, Stores
    <2> HIDE DEF Rest
    <2> QED BY <1>1, <1>n, <2>2, ArrivesAwaited, FailsAwaited DEF StateSettles, Rest
  <1>2. CASE GraphSettles(f)
    <2> DEFINE After(rev) == [st EXCEPT !.graph = rev, !.loading = FALSE,
                                        !.issuesLoading = TRUE]
               AfterFocused(rev) == [st EXCEPT !.graph = rev, !.loading = FALSE,
                                               !.issuesLoading = TRUE,
                                               !.nodeInfoLoading = TRUE]
               Loads == {Load("issues"), Load("mesh"), Load("metrics")}
               Details == {Load("issues"), Load("mesh"), Load("metrics"),
                           Fetch("nodeInfo", st.selectedNode, None)}
    <2>1. CallOf(f)[1] = "graph" BY <1>2 DEF GraphSettles, CallOf
    <2>2. /\ <<"issues", None, None>> \in CallsOf(Loads)
          /\ <<"issues", None, None>> \in CallsOf(Details)
          /\ <<"nodeInfo", st.selectedNode, None>> \in CallsOf(Details)
      BY CallNames DEF CallsOf, Load
    <2>3. Loads \in SUBSET Fetches BY <1>0, CallsTyped DEF LoadCalls
    <2>4. st.selectedNode # None => Details \in SUBSET Fetches
      BY <1>0, CallsTyped DEF LoadCalls, Stores
    <2>5. \/ \E rev \in Answers(f) : \/ Arrives(f, After(rev), Loads) /\ st.selectedNode = None
                                     \/ Arrives(f, AfterFocused(rev), Details) /\ st.selectedNode # None
          \/ Fails(f, [st EXCEPT !.loading = FALSE, !.error = TRUE])
      BY <1>2, Zenon DEF GraphSettles
    <2> HIDE DEF Loads, Details
    <2>6. ASSUME NEW rev \in Answers(f), Arrives(f, After(rev), Loads), st.selectedNode = None
          PROVE  Awaited(st, Outstanding)'
      <3>1. Awaited(After(rev), Rest \cup CallsOf(Loads))
        BY <1>0, <2>1, <2>2, <2>6 DEF Awaited, Stores
      <3> HIDE DEF After
      <3> QED BY <2>3, <2>6, <3>1, ArrivesAwaited
    <2>7. ASSUME NEW rev \in Answers(f), Arrives(f, AfterFocused(rev), Details), st.selectedNode # None
          PROVE  Awaited(st, Outstanding)'
      <3>1. Awaited(AfterFocused(rev), Rest \cup CallsOf(Details))
        BY <1>0, <2>1, <2>2 DEF Awaited, Stores
      <3> HIDE DEF AfterFocused
      <3> QED BY <2>4, <2>7, <3>1, ArrivesAwaited
    <2>8. CASE Fails(f, [st EXCEPT !.loading = FALSE, !.error = TRUE])
      <3>1. Awaited([st EXCEPT !.loading = FALSE, !.error = TRUE], Rest)
        BY <1>0, <2>1 DEF Awaited, Stores
      <3> QED BY <2>8, <3>1, FailsAwaited
    <2> HIDE DEF After, AfterFocused
    <2> QED BY <2>5, <2>6, <2>7, <2>8
  <1>3. CASE IssuesSettle(f)
    <2>1. CallOf(f)[1] = "issues" BY <1>3 DEF IssuesSettle, CallOf
    <2>2. /\ \A rev : Awaited([st EXCEPT !.issues = rev, !.issuesLoading = FALSE], Rest)
          /\ Awaited([st EXCEPT !.issuesLoading = FALSE, !.error = TRUE], Rest)
      BY <1>0, <2>1 DEF Awaited, Stores
    <2> HIDE DEF Rest
    <2> QED BY <1>3, <1>n, <2>2, ArrivesAwaited, FailsAwaited DEF IssuesSettle, Rest
  <1>4. CASE MeshStatusSettles(f)
    <2>1. CallOf(f)[1] = "mesh" BY <1>4 DEF MeshStatusSettles, CallOf
    <2>2. /\ \A rev : Awaited([st EXCEPT !.meshStatus = rev], Rest)
          /\ Awaited([st EXCEPT !.error = TRUE], Rest)
      BY <1>0, <2>1 DEF Awaited, Stores
    <2> HIDE DEF Rest
    <2> QED BY <1>4, <1>n, <2>2, ArrivesAwaited, FailsAwaited DEF MeshStatusSettles, Rest
  <1>5. CASE ClusterMetricsSettle(f)
    <2>1. CallOf(f)[1] = "metrics" BY <1>5 DEF ClusterMetricsSettle, CallOf
    <2>2. /\ \A rev : Awaited([st EXCEPT !.clusterMetrics = rev], Rest)
          /\ Awaited([st EXCEPT !.error = TRUE], Rest)
      BY <1>0, <2>1 DEF Awaited, Stores
    <2> HIDE DEF Rest
    <2> QED BY <1>5, <1>n, <2>2, ArrivesAwaited, FailsAwaited DEF ClusterMetricsSettle, Rest
  <1> QED BY <1>1, <1>2, <1>3, <1>4, <1>5

\* The continuations of the panel's calls: the one waited for does not bail,
\* and any other leaves it outstanding.
LEMMA PanelAwaited ==
  ASSUME Inv, Awaited(st, Outstanding), NEW f \in Fetches,
         NodeInfoSettles(f) \/ ForwardSettles(f) \/ ReverseSettles(f) \/ EdgeVerdictSettles(f)
  PROVE  Awaited(st, Outstanding)'
  <1> DEFINE Rest == Outstanding \ {CallOf(f)}
  <1>0. st \in Stores BY DEF Inv, TypeOK
  <1>n. CallsOf({}) = {} BY DEF CallsOf
  <1>1. CASE NodeInfoSettles(f)
    <2> DEFINE After(rev) == [st EXCEPT !.nodeInfo = [id |-> f.from, rev |-> rev],
                                        !.nodeInfoLoading = FALSE]
    <2>1. CallOf(f)[1] = "nodeInfo" /\ CallOf(f)[2] = f.from BY <1>1 DEF NodeInfoSettles, CallOf
    <2>2. /\ st.selectedNode # f.from => Awaited(st, Rest)
          /\ \A rev : Awaited(After(rev), Rest)
          /\ Awaited([st EXCEPT !.nodeInfoLoading = FALSE], Rest)
      BY <1>0, <2>1 DEF Awaited, Stores
    <2>3. \/ \E rev \in Answers(f) :
                 \/ st.selectedNode # f.from /\ Arrives(f, st, {})
                 \/ Arrives(f, After(rev), {})
          \/ Fails(f, [st EXCEPT !.nodeInfoLoading = FALSE])
      BY <1>1, Zenon DEF NodeInfoSettles
    <2> HIDE DEF Rest, After
    <2> QED BY <1>n, <2>2, <2>3, ArrivesAwaited, FailsAwaited DEF Rest
  <1>2. CASE ForwardSettles(f)
    <2> DEFINE After(rev) == [st EXCEPT !.reachability = [src |-> f.from, dst |-> f.to, rev |-> rev],
                                        !.reachabilityLoading = FALSE]
    <2>1. CallOf(f) = <<"forward", f.from, f.to>> BY <1>2 DEF ForwardSettles, CallOf
    <2>2. /\ MovedOn(f) => Awaited(st, Rest)
          /\ \A rev : Awaited(After(rev), Rest)
          /\ Awaited([st EXCEPT !.reachabilityLoading = FALSE], Rest)
      BY <1>0, <2>1 DEF Awaited, Stores, MovedOn
    <2>3. \/ \E rev \in Answers(f) :
                 \/ MovedOn(f) /\ Arrives(f, st, {})
                 \/ Arrives(f, After(rev), {})
          \/ Fails(f, [st EXCEPT !.reachabilityLoading = FALSE])
      BY <1>2, Zenon DEF ForwardSettles
    <2> HIDE DEF Rest, After
    <2> QED BY <1>n, <2>2, <2>3, ArrivesAwaited, FailsAwaited DEF Rest
  <1>3. CASE ReverseSettles(f)
    <2> DEFINE After(rev) == [st EXCEPT !.reachabilityReverse = [src |-> f.to, dst |-> f.from, rev |-> rev],
                                        !.reachabilityReverseLoading = FALSE]
               Failed == [st EXCEPT !.reachabilityReverseLoading = FALSE,
                                    !.reachabilityReverseError = TRUE]
    <2>1. CallOf(f) = <<"reverse", f.from, f.to>> BY <1>3 DEF ReverseSettles, CallOf
    <2>2. MovedOn(f) => Awaited(st, Rest) BY <2>1 DEF Awaited, MovedOn
    <2>3. Awaited(Failed, Rest) BY <1>0, <2>1 DEF Awaited, Stores
    <2>4. ASSUME NEW rev \in Revs PROVE Awaited(After(rev), Rest)
      <3>1. [src |-> f.to, dst |-> f.from, rev |-> rev] # None
        <4>1. f.from \in Nodes /\ f.to \in Nodes BY <1>3, CapturedArguments DEF ReverseSettles
        <4>2. [src |-> f.to, dst |-> f.from, rev |-> rev]
                 \in [src : Nodes, dst : Nodes, rev : 1..MaxRev]
          BY <4>1 DEF Revs
        <4> QED BY <4>2, StoreAssumption
      <3> QED BY <1>0, <2>1, <3>1 DEF Awaited, Stores
    <2>5. \/ \E rev \in Answers(f) :
                 \/ MovedOn(f) /\ Arrives(f, st, {})
                 \/ Arrives(f, After(rev), {})
          \/ MovedOn(f) /\ Fails(f, st)
          \/ Fails(f, Failed)
      BY <1>3, Zenon DEF ReverseSettles
    <2> HIDE DEF Rest, After, Failed
    <2> QED BY <1>n, <2>2, <2>3, <2>4, <2>5, ArrivesAwaited, FailsAwaited, AnswerRevision
         DEF Rest, Inv, TypeOK
  <1>4. CASE EdgeVerdictSettles(f)
    <2> DEFINE After(rev) == [st EXCEPT !.edgeReachability = [src |-> f.from.source,
                                                              dst |-> f.from.target, rev |-> rev],
                                        !.edgeReachabilityLoading = FALSE]
    <2>1. CallOf(f)[1] = "edge" BY <1>4 DEF EdgeVerdictSettles, CallOf
    <2>2. /\ Awaited(st, Rest)
          /\ \A rev : Awaited(After(rev), Rest)
          /\ Awaited([st EXCEPT !.edgeReachabilityLoading = FALSE], Rest)
      BY <1>0, <2>1 DEF Awaited, Stores
    <2>3. \/ \E rev \in Answers(f) : Arrives(f, st, {}) \/ Arrives(f, After(rev), {})
          \/ Fails(f, [st EXCEPT !.edgeReachabilityLoading = FALSE])
      BY <1>4, Zenon DEF EdgeVerdictSettles
    <2> HIDE DEF Rest, After
    <2> QED BY <1>n, <2>2, <2>3, ArrivesAwaited, FailsAwaited DEF Rest
  <1> QED BY <1>1, <1>2, <1>3, <1>4

\* What the user does.
LEMMA UserAwaited ==
  ASSUME Inv, Awaited(st, Outstanding), User PROVE Awaited(st, Outstanding)'
  <1> DEFINE More(calls) == Outstanding \cup CallsOf(calls)
  <1>0. Good(st) /\ st \in Stores /\ served \in Revs BY DEF Inv, TypeOK
  <1>n. CallsOf({}) = {} /\ {} \in SUBSET Fetches BY DEF CallsOf
  <1>s. /\ Good(deselect(st)) /\ Good(selectNode(st, None))
        /\ Good(selectEdges(selectNode(st, None), None))
    BY <1>0, DeselectGood, SelectNodeGood, SelectEdgesGood
  <1>b. /\ Awaited(selectNode(st, None), Outstanding)
        /\ Awaited(selectEdges(selectNode(st, None), None), Outstanding)
    BY <1>0, <1>s, CalmWrites DEF Good
  <1>c. ASSUME NEW s, UserActs(s, {}), Awaited(s, Outstanding) PROVE Awaited(st, Outstanding)'
    <2>1. st' = s /\ Send({}) BY <1>c DEF UserActs
    <2>2. Awaited(st', Outstanding \cup CallsOf({})) BY <1>n, <1>c, <2>1
    <2> QED BY <1>n, <2>1, <2>2, SendAwaited
  <1>a. ASSUME NEW s, NEW calls \in SUBSET Fetches, UserActs(s, calls),
               Awaited(s, Outstanding \cup CallsOf(calls))
        PROVE  Awaited(st, Outstanding)'
    <2>1. st' = s /\ Send(calls) BY <1>a DEF UserActs
    <2> QED BY <1>a, <2>1, SendAwaited
  <1>1. CASE ToggleFilter
    <2>1. Awaited(deselect(st), Outstanding) BY <1>0, CalmWrites
    <2>2. \A chosen : Awaited([deselect(st) EXCEPT !.selectedNamespaces = chosen], Outstanding)
      BY <1>s, <2>1, CalmWrites DEF Good
    <2> QED BY <1>1, <1>c, <2>1, <2>2 DEF ToggleFilter
  <1>2. ASSUME NEW node \in Nodes, ClickTarget(node) PROVE Awaited(st, Outstanding)'
    <2>1. st.reachabilitySource \in Nodes BY <1>0, <1>2 DEF Stores, ClickTarget
    <2>2. BothDirections(st.reachabilitySource, node) \in SUBSET Fetches
      BY <1>0, <2>1, CallsTyped
    <2>3. Awaited(askReachability(st, st.reachabilitySource, node),
                  Outstanding \cup CallsOf(BothDirections(st.reachabilitySource, node)))
      BY <1>0, AskingWrites
    <2> QED BY <1>2, <1>a, <2>2, <2>3 DEF ClickTarget
  <1>3. ASSUME NEW node \in Nodes, ClickNode(node) PROVE Awaited(st, Outstanding)'
    <2>1. {Fetch("nodeInfo", node, None)} \in SUBSET Fetches BY <1>0, CallsTyped
    <2>2. Awaited([selectNode(st, node) EXCEPT !.nodeInfoLoading = TRUE],
                  Outstanding \cup CallsOf({Fetch("nodeInfo", node, None)}))
      BY <1>0, AskingWrites
    <2> QED BY <1>3, <1>a, <2>1, <2>2 DEF ClickNode
  <1>4. ASSUME NEW node \in Nodes, pinReachabilitySource(node) PROVE Awaited(st, Outstanding)'
    <2>1. Awaited([st EXCEPT !.reachabilitySource = node, !.reachability = None,
                             !.reachabilityTarget = None], Outstanding)
      BY <1>0 DEF Awaited, Stores
    <2> QED BY <1>4, <1>c, <2>1 DEF pinReachabilitySource
  <1>5. ASSUME NEW edge \in Edges, ClickEdge(edge) PROVE Awaited(st, Outstanding)'
    <2>1. Good(selectEdges(st, edge)) /\ Awaited(selectEdges(st, edge), Outstanding)
      BY <1>0, SelectEdgesGood, CalmWrites
    <2>2. CASE UserActs(selectEdges(st, edge), {}) BY <2>1, <2>2, <1>c
    <2>3. CASE UserActs([selectEdges(st, edge) EXCEPT !.edgeReachabilityLoading = TRUE],
                        {Fetch("edge", edge, None)})
      <3>1. Awaited([selectEdges(st, edge) EXCEPT !.edgeReachabilityLoading = TRUE], Outstanding)
        BY <2>1, CalmWrites DEF Good
      <3>2. Awaited([selectEdges(st, edge) EXCEPT !.edgeReachabilityLoading = TRUE],
                    Outstanding \cup CallsOf({Fetch("edge", edge, None)}))
        BY <3>1, AwaitedGrows
      <3>3. {Fetch("edge", edge, None)} \in SUBSET Fetches BY <1>0, CallsTyped
      <3> QED BY <2>3, <1>a, <3>2, <3>3
    <2> QED BY <1>5, <2>2, <2>3, Zenon DEF ClickEdge
  <1>6. CASE ClickFocused BY <1>6, <1>b, <1>c DEF ClickFocused
  <1>7. CASE ClickBackground BY <1>7, <1>b, <1>c DEF ClickBackground
  <1>8. CASE ClosePanel
    <2>1. Awaited(clearReachability(selectEdges(selectNode(st, None), None)), Outstanding)
      BY <1>b, <1>s, CalmWrites DEF Good
    <2> QED BY <1>8, <1>c, <2>1 DEF ClosePanel
  <1>9. ASSUME NEW src \in Nodes, NEW dst \in Nodes, showReachability(src, dst)
        PROVE  Awaited(st, Outstanding)'
    <2>1. BothDirections(src, dst) \in SUBSET Fetches BY <1>0, CallsTyped
    <2>2. Awaited(askReachability(selectNode(st, None), src, dst),
                  Outstanding \cup CallsOf(BothDirections(src, dst)))
      BY <1>b, <1>s, AskingWrites DEF Good
    <2> QED BY <1>9, <1>a, <2>1, <2>2 DEF showReachability
  <1> QED BY <1>1, <1>2, <1>3, <1>4, <1>5, <1>6, <1>7, <1>8, <1>9, Zenon DEF User

\* So does a preset, from a clean slate.
LEMMA ScenarioAwaited ==
  ASSUME Inv, Awaited(st, Outstanding), NEW scenario \in Scenarios, applyScenario(scenario)
  PROVE  Awaited(st, Outstanding)'
  <1> DEFINE slate == scenarioState(scenario)
  <1>0. Good(st) /\ st \in Stores /\ served \in Revs BY DEF Inv, TypeOK
  <1>1. slate \in Stores /\ Awaited(slate, Outstanding)
    <2> DEFINE s1 == clearReachability(st)
               s2 == selectNode(s1, None)
               s3 == selectEdges(s2, None)
    <2>1. Good(s1) /\ Awaited(s1, Outstanding)
      BY <1>0, ClearReachabilityGood, CalmWrites
    <2>2. Good(s2) /\ Awaited(s2, Outstanding)
      <3> HIDE DEF s1
      <3> QED BY <2>1, SelectNodeGood, CalmWrites DEF Good
    <2>3. Good(s3) /\ Awaited(s3, Outstanding)
      <3> HIDE DEF s2
      <3> QED BY <2>2, SelectEdgesGood, CalmWrites DEF Good
    <2> DEFINE names == IF scenario.namespaces # {} THEN scenario.namespaces
                        ELSE st.availableNamespaces
    <2>4. names \in SUBSET NsNames BY <1>0, StoreAssumption DEF Stores
    <2>5. slate = [s3 EXCEPT !.selectedNamespaces = names] BY DEF scenarioState
    <2> HIDE DEF s3, names, slate
    <2>6. slate \in Stores BY <2>3, <2>4, <2>5 DEF Good, Stores
    <2>7. Awaited(slate, Outstanding) BY <2>3, <2>5, CalmWrites DEF Good
    <2> QED BY <2>6, <2>7
  <1> HIDE DEF slate
  <1>2. CASE st' = slate /\ Send({})
    <2>1. Awaited(st', Outstanding \cup CallsOf({})) BY <1>1, <1>2, AwaitedGrows
    <2> QED BY <1>2, <2>1, SendAwaited
  <1>3. ASSUME NEW src \in Nodes, NEW dst \in Nodes,
               st' = askReachability(slate, src, dst), Send(BothDirections(src, dst))
        PROVE  Awaited(st, Outstanding)'
    <2>1. Awaited(st', Outstanding \cup CallsOf(BothDirections(src, dst)))
      BY <1>1, <1>3, AskingWrites
    <2> QED BY <1>0, <1>3, <2>1, CallsTyped, SendAwaited
  <1>4. ASSUME NEW node \in Nodes,
               st' = [selectNode(slate, node) EXCEPT !.nodeInfoLoading = TRUE],
               Send({Fetch("nodeInfo", node, None)})
        PROVE  Awaited(st, Outstanding)'
    <2>1. Awaited(st', Outstanding \cup CallsOf({Fetch("nodeInfo", node, None)}))
      BY <1>1, <1>4, AskingWrites
    <2>2. {Fetch("nodeInfo", node, None)} \in SUBSET Fetches BY <1>0, CallsTyped
    <2> QED BY <1>4, <2>1, <2>2, SendAwaited
  <1> QED BY <1>2, <1>3, <1>4, Zenon DEF applyScenario, slate

\* Every wait has its call, in every state.
LEMMA AwaitedInvariant == Spec => []Awaited(st, Outstanding)
  <1>1. Init => Awaited(st, Outstanding)
    <2> SUFFICES ASSUME Init PROVE Awaited(st, Outstanding) OBVIOUS
    <2> QED BY DEF Init, InitialStore, Awaited
  <1>2. Inv /\ Awaited(st, Outstanding) /\ [Next]_vars => Awaited(st, Outstanding)'
    <2> SUFFICES ASSUME Inv, Awaited(st, Outstanding), [Next]_vars
                 PROVE  Awaited(st, Outstanding)'
      OBVIOUS
    <2>0. st \in Stores /\ served \in Revs BY DEF Inv, TypeOK
    <2>q. ASSUME UNCHANGED <<st, inflight>> PROVE Awaited(st, Outstanding)'
      BY <2>q DEF Awaited, Outstanding, CallsOf
    <2>l. ASSUME st' = startLoadGraph(st), NEW calls \in SUBSET Fetches, Load("graph") \in calls,
                 Send(calls)
          PROVE  Awaited(st, Outstanding)'
      <3>1. <<"graph", None, None>> \in CallsOf(calls) BY <2>l, CallNames DEF CallsOf, Load
      <3>2. Awaited(st', Outstanding \cup CallsOf(calls))
        BY <2>0, <2>l, <3>1 DEF Awaited, Stores, startLoadGraph
      <3> QED BY <2>l, <3>2, SendAwaited
    <2>1. CASE SnapshotPublished BY <2>1, <2>q DEF SnapshotPublished
    <2>2. CASE Mount
      <3>1. {Load("state"), Load("graph")} \in SUBSET Fetches
        BY <2>0, CallsTyped DEF LoadCalls
      <3> QED BY <2>2, <2>l, <3>1 DEF Mount
    <2>3. CASE Refresh
      <3>1. {Load("graph")} \in SUBSET Fetches BY <2>0, CallsTyped DEF LoadCalls
      <3> QED BY <2>3, <2>l, <3>1 DEF Refresh
    <2>4. CASE \E f \in Fetches : Settles(f)
      BY <2>4, LoadsAwaited, PanelAwaited DEF Settles
    <2>5. CASE User BY <2>5, UserAwaited
    <2>6. CASE ScenarioLands
      BY <2>6, <2>q, ScenarioAwaited, StoreAssumption DEF ScenarioLands
    <2>7. CASE ScenarioPicked BY <2>7, ScenarioAwaited DEF ScenarioPicked
    <2>8. CASE UNCHANGED vars BY <2>8, <2>q DEF vars
    <2> QED BY <2>1, <2>2, <2>3, <2>4, <2>5, <2>6, <2>7, <2>8, Zenon DEF Next
  <1> QED BY <1>1, <1>2, InvInvariant, PTL DEF Spec

\* However the answers, the failures and the clicks were ordered, once no call is
\* outstanding nothing on screen is still loading and a shown pair has its
\* reverse verdict or a flagged failure (the bails of the store's continuations).
THEOREM SettledMeansComplete == Spec => []SettledPanelIsComplete
  <1>1. Inv /\ Awaited(st, Outstanding) => SettledPanelIsComplete
    <2> SUFFICES ASSUME Inv, Awaited(st, Outstanding), Quiet PROVE SettledPanelIsComplete
      BY DEF SettledPanelIsComplete
    <2>1. Outstanding = {} BY DEF Quiet, Outstanding, CallsOf
    <2> QED BY <2>1 DEF Awaited, SettledPanelIsComplete
  <1> QED BY <1>1, InvInvariant, AwaitedInvariant, PTL
=============================================================================
