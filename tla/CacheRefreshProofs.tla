------------------------- MODULE CacheRefreshProofs -------------------------
(***************************************************************************)
(* Proofs about CacheRefresh, for any set of namespaces, any number of     *)
(* concurrent requests, any number of cache objects and any bounds.        *)
(***************************************************************************)
EXTENDS CacheRefresh, TLAPS

-----------------------------------------------------------------------------
(* The operations on a cache.                                              *)

\* A fresh &models.Cache{} is a cache.
LEMMA EmptyCacheType == EmptyCache \in Cache
BY DEF EmptyCache, Cache, NoIndex, NSIndex, NotRun

\* RebuildWorkloadIndex yields a cache, changes nothing but WorkloadByID, and
\* leaves nothing to rebuild.
LEMMA RebuildType ==
    ASSUME NEW c \in Cache
    PROVE  /\ RebuildWorkloadIndex(c) \in Cache
           /\ RebuildWorkloadIndex(c).NsIndex = c.NsIndex
           /\ RebuildWorkloadIndex(c).EvaluationResults = c.EvaluationResults
           /\ RebuildWorkloadIndex(c).Statuses = c.Statuses
           /\ RebuildWorkloadIndex(c).MeshMembership = c.MeshMembership
           /\ RebuildWorkloadIndex(RebuildWorkloadIndex(c)) = RebuildWorkloadIndex(c)
BY DEF RebuildWorkloadIndex, Cache

\* stampStatuses copies the engines' results into the statuses and rebuilds.
LEMMA StampType ==
    ASSUME NEW c \in Cache
    PROVE  /\ stampStatuses(c) \in Cache
           /\ stampStatuses(c).NsIndex = c.NsIndex
           /\ stampStatuses(c).EvaluationResults = c.EvaluationResults
           /\ stampStatuses(c).Statuses = c.EvaluationResults
           /\ stampStatuses(c) = RebuildWorkloadIndex(stampStatuses(c))
BY DEF stampStatuses, RebuildWorkloadIndex, Cache

WriteMesh(c, m, u) == [[c EXCEPT !.MeshMembership = m] EXCEPT !.MtlsUnknown = u]

\* Writing the mesh into a cache whose index is up to date touches nothing else,
\* and leaves the index up to date: it holds no copy of the mesh.
LEMMA MeshWrite ==
    ASSUME NEW c \in Cache, c = RebuildWorkloadIndex(c), NEW m, NEW u,
           NEW d, d = WriteMesh(c, m, u)
    PROVE  /\ d.NsIndex = c.NsIndex
           /\ d.EvaluationResults = c.EvaluationResults
           /\ d.Statuses = c.Statuses
           /\ d.MeshMembership = m
           /\ d = RebuildWorkloadIndex(d)
<1>1. /\ d.NsIndex = c.NsIndex /\ d.EvaluationResults = c.EvaluationResults
      /\ d.Statuses = c.Statuses /\ d.MeshMembership = m
      /\ d.WorkloadByID = c.WorkloadByID
  BY DEF Cache, WriteMesh
<1>2. c.WorkloadByID = [ns |-> c.NsIndex, nodes |-> c.EvaluationResults,
                        statuses |-> c.Statuses]
  BY DEF RebuildWorkloadIndex, Cache
<1>3. [d EXCEPT !.WorkloadByID = d.WorkloadByID] = d
  BY DEF Cache, WriteMesh
<1> QED
  BY <1>1, <1>2, <1>3 DEF RebuildWorkloadIndex

\* The three writes of a cycle to the cache it builds.
LEMMA WriteNsType ==
    ASSUME NEW c \in Cache, NEW n \in Ns, NEW x \in NSIndex
    PROVE  [c EXCEPT !.NsIndex[n] = x] \in Cache
BY DEF Cache

LEMMA WriteEvalType ==
    ASSUME NEW c \in Cache, NEW e \in Engines, NEW v \in Nat
    PROVE  [c EXCEPT !.EvaluationResults[e] = v] \in Cache
BY DEF Cache

LEMMA WriteMeshType ==
    ASSUME NEW c \in Cache, NEW v \in Nat, NEW u \in BOOLEAN
    PROVE  [c EXCEPT !.MeshMembership = v, !.MtlsUnknown = u] \in Cache
BY DEF Cache

\* Collection keeps what is used and only that.
LEMMA CollectType ==
    ASSUME NEW h \in [CacheIds -> Cache], NEW used
    PROVE  /\ Collect(h, used) \in [CacheIds -> Cache]
           /\ \A id \in CacheIds : id \in used => Collect(h, used)[id] = h[id]
BY EmptyCacheType DEF Collect

\* The engine index names a registered engine until all have run.
LEMMA SourceType ==
    /\ Len(sources) = 3
    /\ \A i \in 1..3 : sources[i] \in Engines
    /\ sources[1] = "k8s" /\ sources[2] = "istio" /\ sources[3] = "calico"
BY DEF sources, Engines

-----------------------------------------------------------------------------
(* Type correctness.                                                       *)

\* The constant records the actions reset the state to.
LEMMA ResetTypes ==
    /\ EmptyReport \in Reports /\ NoEval \in Evals /\ NoFetch \in [Ns -> Fetches]
    /\ IdleRequest \in RequestRecords /\ NoGraph \in GraphRecords
<1>1. EmptyReport \in Reports
  BY DEF EmptyReport, Reports
<1>2. NoEval \in Evals
  BY <1>1 DEF NoEval, Evals
<1> QED
  BY <1>1, <1>2 DEF NoFetch, Fetches, IdleRequest, RequestRecords, NoGraph, GraphRecords,
       NoIndex, NSIndex, NotRun

LEMMA InitType == Init => TypeOK
<1> SUFFICES ASSUME Init PROVE TypeOK
  OBVIOUS
<1>1. EnvType
  BY DEF Init, EnvType
<1>2. BuildType
  <2>1. firstErr \in BOOLEAN
    BY Zenon DEF Init
  <2> QED
    BY <2>1, ResetTypes DEF Init, BuildType, PCs
<1>3. ServerType /\ MetricsType /\ RequestType
  <2>1. serving \in BOOLEAN
    BY Zenon DEF Init
  <2> QED
    BY <2>1, ResetTypes, EmptyCacheType DEF Init, ServerType, MetricsType, RequestType
<1> QED
  BY <1>1, <1>2, <1>3 DEF TypeOK

\* Every way out of RefreshAll resets its locals.
LEMMA ReturnType == RefreshReturns => BuildType' /\ serving' \in BOOLEAN
<1> SUFFICES ASSUME RefreshReturns PROVE BuildType' /\ serving' \in BOOLEAN
  OBVIOUS
<1>1. firstErr' \in BOOLEAN /\ serving' \in BOOLEAN
  BY Zenon DEF RefreshReturns
<1> QED
  BY <1>1, ResetTypes DEF RefreshReturns, BuildType, PCs

LEMMA RecordType ==
    ASSUME NEW rep \in Reports, NEW ok \in BOOLEAN, NEW populated \in BOOLEAN,
           recordEvaluation(rep, ok, populated)
    PROVE  lastEval' \in Evals
BY DEF recordEvaluation, Evals

LEMMA FailType ==
    ASSUME TypeOK, NEW rep \in Reports, PopulateFails(rep)
    PROVE  BuildType' /\ ServerType' /\ MetricsType'
<1>1. lastEval' \in Evals
  BY RecordType DEF PopulateFails, Returned
<1>2. heap' \in [CacheIds -> Cache]
  BY CollectType DEF PopulateFails, TypeOK, ServerType
<1> QED
  BY <1>1, <1>2, ReturnType DEF PopulateFails, TypeOK, ServerType, MetricsType

LEMMA WithEngineType ==
    ASSUME TypeOK, engine <= Len(sources), NEW ok \in BOOLEAN
    PROVE  WithEngine(ok) \in Reports
<1>1. sources[engine] \in Engines
  BY SourceType DEF TypeOK, BuildType
<1>2. [Name |-> sources[engine], ok |-> ok] \in [Name : Engines, ok : BOOLEAN]
  BY <1>1
<1>3. report.Engines \in Seq([Name : Engines, ok : BOOLEAN]) /\ report.Duration \in Nat
  BY DEF TypeOK, BuildType, Reports
<1>4. report = [Duration |-> report.Duration, Engines |-> report.Engines]
  BY DEF TypeOK, BuildType, Reports
<1>5. Append(report.Engines, [Name |-> sources[engine], ok |-> ok])
        \in Seq([Name : Engines, ok : BOOLEAN])
  BY <1>2, <1>3
<1> QED
  BY <1>3, <1>4, <1>5 DEF WithEngine, Reports, TypeOK, BuildType

-----------------------------------------------------------------------------
(* The inductive invariant.                                                *)

\* The cache under construction is an object nobody else can reach, and the
\* one being recorded is the one that was swapped in.
Isolated ==
    /\ pc \in {"fetch", "engines", "mesh", "lock"} =>
          /\ newCache \in CacheIds
          /\ newCache # cache
          /\ newCache \notin Reachable(req)
    /\ pc = "record" => newCache = cache
    /\ \A r \in Requests : req[r].state \in {"walk", "built"} => req[r].ptr \in CacheIds

TInv == TypeOK /\ Isolated

\* A step of the refresh goroutine that touches only its own locals and its
\* own cache keeps the types.
LEMMA BuildStepType ==
    ASSUME TInv, pc \in {"fetch", "engines", "mesh", "lock"},
           UNCHANGED <<live, rev, gnpOk, requests, cache, serving, metrics>>,
           faults' \in Nat, pc' \in PCs,
           UNCHANGED <<nss, newCache>>,
           fetch' \in [Ns -> Fetches], firstErr' \in BOOLEAN, engine' \in 1..4,
           report' \in Reports, NEW c \in Cache, heap' = [heap EXCEPT ![newCache] = c]
    PROVE  TypeOK'
<1>1. EnvType'
  BY DEF TInv, TypeOK, EnvType
<1>2. BuildType'
  BY DEF TInv, TypeOK, BuildType
<1>3. ServerType'
  BY DEF TInv, TypeOK, ServerType
<1>4. MetricsType' /\ RequestType'
  BY DEF TInv, TypeOK, MetricsType, RequestType, metrics, requests
<1> QED
  BY <1>1, <1>2, <1>3, <1>4 DEF TypeOK

\* A request's step keeps the types if it keeps the request's own records typed.
LEMMA RequestStepType ==
    ASSUME TInv, UNCHANGED <<env, build, cache, serving, metrics>>,
           heap' \in [CacheIds -> Cache], RequestType'
    PROVE  TypeOK'
<1>1. EnvType' /\ BuildType'
  BY DEF TInv, TypeOK, EnvType, BuildType, env, build
<1>2. ServerType' /\ MetricsType'
  BY DEF TInv, TypeOK, ServerType, MetricsType, metrics
<1> QED
  BY <1>1, <1>2 DEF TypeOK

LEMMA RefreshStepType == TInv /\ Refresh => TypeOK'
<1> SUFFICES ASSUME TInv, Refresh PROVE TypeOK'
  OBVIOUS
<1>a. TypeOK
  BY DEF TInv
<1>b. heap = [heap EXCEPT ![newCache] = heap[newCache]]
  BY <1>a DEF TypeOK, ServerType
<1>c. newCache \in CacheIds => heap[newCache] \in Cache
  BY <1>a DEF TypeOK, ServerType
<1>d. UNCHANGED <<live, rev, gnpOk, requests>> => EnvType' \/ faults' \notin Nat
  BY <1>a DEF TypeOK, EnvType
<1>e. UNCHANGED <<live, rev, gnpOk, requests>> => RequestType'
  BY <1>a DEF TypeOK, RequestType, requests
<1>1. CASE GetNsNamesFails
  <2>1. lastEval' \in Evals
    BY <1>1, ResetTypes, RecordType DEF GetNsNamesFails
  <2>2. BuildType' /\ serving' \in BOOLEAN
    BY <1>1, ReturnType DEF GetNsNamesFails
  <2>3. ServerType' /\ MetricsType'
    BY <1>1, <1>a, <2>1, <2>2 DEF GetNsNamesFails, TypeOK, ServerType, MetricsType
  <2>4. faults' \in Nat
    BY <1>1, <1>a DEF GetNsNamesFails, ListerFails, TypeOK, EnvType
  <2> QED
    BY <1>1, <1>d, <1>e, <2>2, <2>3, <2>4 DEF GetNsNamesFails, Begin, TypeOK
<1>2. CASE StartPopulate
  <2>1. PICK id \in CacheIds : newCache' = id /\ heap' = [heap EXCEPT ![id] = EmptyCache]
    BY <1>2 DEF StartPopulate
  <2>2. ServerType'
    BY <1>2, <2>1, <1>a, EmptyCacheType DEF StartPopulate, TypeOK, ServerType
  <2>3. fetch' \in [Ns -> Fetches]
    BY <1>2, ResetTypes DEF StartPopulate, Fetches
  <2>4. firstErr' \in BOOLEAN
    BY <1>2, Zenon DEF StartPopulate
  <2>5. BuildType'
    BY <1>2, <1>a, <2>1, <2>3, <2>4, ResetTypes
    DEF StartPopulate, TypeOK, EnvType, BuildType, PCs
  <2>6. MetricsType' /\ faults' \in Nat
    BY <1>2, <1>a DEF StartPopulate, ListerAnswers, TypeOK, EnvType, MetricsType, metrics
  <2> QED
    BY <1>2, <1>d, <1>e, <2>2, <2>5, <2>6 DEF StartPopulate, Begin, TypeOK
<1>3. ASSUME NEW n \in Ns, FetchLists(n) PROVE TypeOK'
  <2>1. fetch' \in [Ns -> Fetches]
    BY <1>3, <1>a DEF FetchLists, TypeOK, EnvType, BuildType, Fetches
  <2> QED
    BY <1>3, <1>a, <1>b, <1>c, <2>1, BuildStepType
    DEF FetchLists, Begin, ListerAnswers, TInv, Isolated, TypeOK, EnvType, BuildType, server
<1>4. ASSUME NEW n \in Ns, FetchDone(n) PROVE TypeOK'
  <2> DEFINE x == [workloads |-> fetch[n].workloads, nsNode |-> rev]
             c == [heap[newCache] EXCEPT !.NsIndex[n] = x]
  <2>1. newCache \in CacheIds /\ pc = "fetch"
    BY <1>4 DEF FetchDone, Begin, TInv, Isolated
  <2>2. x \in NSIndex
    BY <1>a DEF TypeOK, EnvType, BuildType, Fetches, NSIndex
  <2>3. c \in Cache
    BY <1>c, <2>1, <2>2, WriteNsType
  <2>4. heap' = [heap EXCEPT ![newCache] = c]
    BY <1>4 DEF FetchDone
  <2>5. fetch' \in [Ns -> Fetches]
    BY <1>4, <1>a DEF FetchDone, TypeOK, BuildType, Fetches
  <2> HIDE DEF c
  <2> QED
    BY <1>4, <1>a, <2>1, <2>3, <2>4, <2>5, BuildStepType
    DEF FetchDone, Begin, ListerAnswers, TypeOK, EnvType, BuildType
<1>5. ASSUME NEW n \in Ns, FetchFails(n) PROVE TypeOK'
  <2>1. fetch' \in [Ns -> Fetches]
    BY <1>5, <1>a DEF FetchFails, TypeOK, BuildType, Fetches
  <2>2. firstErr' \in BOOLEAN
    BY <1>5, Zenon DEF FetchFails
  <2>3. faults' \in Nat
    BY <1>5, <1>a DEF FetchFails, ListerFails, ListerAnswers, TypeOK, EnvType
  <2> QED
    BY <1>5, <1>a, <1>b, <1>c, <2>1, <2>2, <2>3, BuildStepType
    DEF FetchFails, Begin, TInv, Isolated, TypeOK, BuildType, server
<1>6. CASE FetchesFailed
  <2>1. BuildType' /\ ServerType' /\ MetricsType'
    BY <1>6, <1>a, FailType DEF FetchesFailed, TypeOK, BuildType
  <2> QED
    BY <1>6, <1>a, <1>d, <1>e, <2>1 DEF FetchesFailed, Begin, ListerAnswers, TypeOK, EnvType
<1>7. CASE FetchesDone
  <2> DEFINE c == RebuildWorkloadIndex(heap[newCache])
  <2>1. newCache \in CacheIds /\ pc = "fetch"
    BY <1>7 DEF FetchesDone, Begin, TInv, Isolated
  <2>2. c \in Cache
    BY <1>c, <2>1, RebuildType
  <2>3. heap' = [heap EXCEPT ![newCache] = c]
    BY <1>7 DEF FetchesDone
  <2> HIDE DEF c
  <2> QED
    BY <1>7, <1>a, <2>1, <2>2, <2>3, BuildStepType
    DEF FetchesDone, Begin, ListerAnswers, TypeOK, EnvType, BuildType, PCs
<1>8. CASE EvaluateOk
  <2> DEFINE c == [heap[newCache] EXCEPT !.EvaluationResults[sources[engine]] = rev]
  <2>1. newCache \in CacheIds /\ pc = "engines"
    BY <1>8 DEF EvaluateOk, Begin, TInv, Isolated
  <2>2. engine \in 1..3 /\ sources[engine] \in Engines
    BY <1>8, <1>a, SourceType DEF EvaluateOk, TypeOK, BuildType
  <2>3. c \in Cache
    BY <1>a, <1>c, <2>1, <2>2, WriteEvalType DEF TypeOK, EnvType
  <2>4. heap' = [heap EXCEPT ![newCache] = c]
    BY <1>8 DEF EvaluateOk
  <2>5. report' \in Reports
    <3>1. TRUE \in BOOLEAN
      OBVIOUS
    <3> QED
      BY <1>8, <1>a, <3>1, WithEngineType DEF EvaluateOk
  <2>6. engine' \in 1..4
    BY <1>8, <2>2 DEF EvaluateOk
  <2>7. /\ UNCHANGED <<live, rev, gnpOk, requests, cache, serving, metrics, nss, newCache>>
        /\ faults' \in Nat /\ pc' \in PCs
        /\ fetch' \in [Ns -> Fetches] /\ firstErr' \in BOOLEAN
    BY <1>8, <1>a DEF EvaluateOk, Begin, ListerAnswers, TypeOK, EnvType, BuildType
  <2> HIDE DEF c
  <2> QED
    BY <2>1, <2>3, <2>4, <2>5, <2>6, <2>7, BuildStepType
<1>9. CASE EvaluateFails
  <2>1. WithEngine(FALSE) \in Reports
    <3>1. FALSE \in BOOLEAN
      OBVIOUS
    <3> QED
      BY <1>9, <1>a, <3>1, WithEngineType DEF EvaluateFails
  <2>2. BuildType' /\ ServerType' /\ MetricsType'
    BY <1>9, <1>a, <2>1, FailType DEF EvaluateFails
  <2>3. faults' \in Nat
    BY <1>9, <1>a DEF EvaluateFails, ListerFails, ListerAnswers, TypeOK, EnvType
  <2> QED
    BY <1>9, <1>d, <1>e, <2>2, <2>3 DEF EvaluateFails, Begin, TypeOK
<1>10. CASE StampStatuses
  <2> DEFINE c == stampStatuses(RebuildWorkloadIndex(heap[newCache]))
  <2>1. newCache \in CacheIds /\ pc = "engines"
    BY <1>10 DEF StampStatuses, Begin, TInv, Isolated
  <2>2. c \in Cache
    BY <1>c, <2>1, RebuildType, StampType
  <2>3. heap' = [heap EXCEPT ![newCache] = c]
    BY <1>10 DEF StampStatuses
  <2> HIDE DEF c
  <2> QED
    BY <1>10, <1>a, <2>1, <2>2, <2>3, BuildStepType
    DEF StampStatuses, Begin, ListerAnswers, TypeOK, EnvType, BuildType, PCs
<1>11. CASE BuildMeshMembership
  <2>1. newCache \in CacheIds /\ pc = "mesh"
    BY <1>11 DEF BuildMeshMembership, Begin, TInv, Isolated
  <2>2. PICK unknown \in BOOLEAN :
          /\ IF unknown THEN ListerFails ELSE ListerAnswers
          /\ heap' = [heap EXCEPT ![newCache].MeshMembership = rev,
                                  ![newCache].MtlsUnknown = unknown]
    BY <1>11 DEF BuildMeshMembership
  <2> DEFINE c == [heap[newCache] EXCEPT !.MeshMembership = rev, !.MtlsUnknown = unknown]
  <2>3. c \in Cache
    BY <1>a, <1>c, <2>1, WriteMeshType DEF TypeOK, EnvType
  <2>4. heap' = [heap EXCEPT ![newCache] = c]
    BY <2>1, <2>2, <1>a DEF TypeOK, ServerType
  <2>5. faults' \in Nat
    BY <2>2, <1>a DEF ListerFails, ListerAnswers, TypeOK, EnvType
  <2> HIDE DEF c
  <2> QED
    BY <1>11, <1>a, <2>1, <2>3, <2>4, <2>5, BuildStepType
    DEF BuildMeshMembership, Begin, TypeOK, BuildType, PCs
<1>12. CASE SwapCache
  <2>1. newCache \in CacheIds
    BY <1>12 DEF SwapCache, Begin, TInv, Isolated
  <2>2. heap' \in [CacheIds -> Cache]
    BY <1>12, <1>a, CollectType DEF SwapCache, TypeOK, ServerType
  <2>3. BuildType' /\ MetricsType' /\ faults' \in Nat
    BY <1>12, <1>a
    DEF SwapCache, ListerAnswers, TypeOK, EnvType, BuildType, MetricsType, metrics, PCs
  <2>4. ServerType'
    BY <1>12, <1>a, <2>1, <2>2 DEF SwapCache, TypeOK, ServerType
  <2> QED
    BY <1>12, <1>d, <1>e, <2>3, <2>4 DEF SwapCache, Begin, TypeOK
<1>13. CASE RecordSuccess
  <2>1. newCache \in CacheIds
    BY <1>13, <1>a DEF RecordSuccess, Begin, TInv, Isolated, TypeOK, ServerType
  <2>2. lastEval' \in Evals
    <3>1. TRUE \in BOOLEAN /\ report \in Reports
      BY <1>a DEF TypeOK, BuildType
    <3> QED
      BY <1>13, <3>1, RecordType DEF RecordSuccess, Returned
  <2>3. BuildType' /\ serving' \in BOOLEAN
    BY <1>13, ReturnType DEF RecordSuccess
  <2>4. ServerType' /\ MetricsType'
    BY <1>13, <1>a, <1>c, <2>1, <2>2, <2>3 DEF RecordSuccess, TypeOK, ServerType, MetricsType
  <2>5. faults' \in Nat
    BY <1>13, <1>a DEF RecordSuccess, ListerAnswers, TypeOK, EnvType
  <2> QED
    BY <1>13, <1>d, <1>e, <2>3, <2>4, <2>5 DEF RecordSuccess, Begin, TypeOK
<1> QED
  BY <1>1, <1>2, <1>3, <1>4, <1>5, <1>6, <1>7, <1>8, <1>9, <1>10, <1>11, <1>12, <1>13
  DEF Refresh

LEMMA HandleStepType ==
    ASSUME TInv, NEW r \in Requests, RequestStep(r)
    PROVE  TypeOK'
<1>a. TypeOK
  BY DEF TInv
<1>b. /\ heap \in [CacheIds -> Cache] /\ cache \in CacheIds
      /\ req \in [Requests -> RequestRecords] /\ graphs \in [Requests -> GraphRecords]
  BY <1>a DEF TypeOK, ServerType, RequestType
<1>1. CASE GraphRequest(r) \/ GraphNamesFail(r) \/ LockedTakesLock(r) \/ LockedWrites(r)
  <2>1. req' \in [Requests -> RequestRecords]
    BY <1>1, <1>b, ResetTypes
    DEF GraphRequest, GraphNamesFail, LockedTakesLock, LockedWrites, RequestRecords
  <2>2. RequestType'
    BY <1>1, <1>b, <2>1
    DEF GraphRequest, GraphNamesFail, LockedTakesLock, LockedWrites, RequestType
  <2> QED
    BY <1>1, <1>b, <2>2, RequestStepType
    DEF GraphRequest, GraphNamesFail, LockedTakesLock, LockedWrites, server
<1>9. CASE GraphNames(r)
  <2>1. PICK names \in SUBSET Ns : graphs' = [graphs EXCEPT ![r].want = names]
    BY <1>9 DEF GraphNames
  <2>2. [graphs[r] EXCEPT !.want = names] \in GraphRecords
    BY <1>b DEF GraphRecords
  <2>3. graphs' \in [Requests -> GraphRecords]
    BY <1>b, <2>1, <2>2
  <2>4. [req[r] EXCEPT !.state = "graph"] \in RequestRecords
    BY <1>b DEF RequestRecords
  <2>5. req' \in [Requests -> RequestRecords]
    BY <1>9, <1>b, <2>4 DEF GraphNames
  <2>6. RequestType'
    BY <2>3, <2>5 DEF RequestType
  <2> QED
    BY <1>9, <1>b, <2>6, RequestStepType DEF GraphNames, server
<1>2. CASE LockedRequest(r)
  <2>1. \A h \in DOMAIN Derefs : Derefs[h] \in 0..3
    BY DEF Derefs
  <2>2. PICK h \in DOMAIN Derefs :
          req' = [req EXCEPT ![r].state = "waiting", ![r].left = Derefs[h]]
    BY <1>2 DEF LockedRequest
  <2>3. [[req[r] EXCEPT !.state = "waiting"] EXCEPT !.left = Derefs[h]] \in RequestRecords
    BY <1>b, <2>1 DEF RequestRecords
  <2>4. req' = [req EXCEPT ![r] = [[req[r] EXCEPT !.state = "waiting"] EXCEPT !.left = Derefs[h]]]
    BY <1>b, <2>2
  <2>5. RequestType'
    BY <1>2, <1>b, <2>3, <2>4 DEF LockedRequest, RequestType
  <2> QED
    BY <1>2, <1>b, <2>5, RequestStepType DEF LockedRequest, server
<1>3. CASE GraphTakesPointer(r)
  <2>1. RequestType'
    BY <1>3, <1>b DEF GraphTakesPointer, RequestType, RequestRecords
  <2> QED
    BY <1>3, <1>b, <2>1, RequestStepType DEF GraphTakesPointer, server
<1>4. CASE GraphWalksNs(r)
  <2>1. PICK n \in graphs[r].want :
          graphs' = [graphs EXCEPT ![r].want = @ \ {n},
                                   ![r].nodes[n] = heap[req[r].ptr].NsIndex[n]]
    BY <1>4 DEF GraphWalksNs
  <2>2. n \in Ns /\ req[r].ptr \in CacheIds
    BY <1>4, <1>b DEF GraphWalksNs, GraphRecords, TInv, Isolated
  <2>3. heap[req[r].ptr].NsIndex[n] \in NSIndex
    BY <1>b, <2>2 DEF Cache
  <2> DEFINE g == [[graphs[r] EXCEPT !.want = @ \ {n}]
                     EXCEPT !.nodes[n] = heap[req[r].ptr].NsIndex[n]]
  <2>4. g \in GraphRecords
    BY <1>b, <2>2, <2>3 DEF GraphRecords
  <2>5. graphs' = [graphs EXCEPT ![r] = g]
    BY <1>b, <2>1
  <2>6. graphs' \in [Requests -> GraphRecords]
    BY <1>b, <2>4, <2>5
  <2>7. RequestType'
    BY <1>4, <1>b, <2>6 DEF GraphWalksNs, RequestType
  <2> QED
    BY <1>4, <1>b, <2>7, RequestStepType DEF GraphWalksNs, server
<1>5. CASE GraphWalksRules(r)
  <2>1. req[r].ptr \in CacheIds
    BY <1>5 DEF GraphWalksRules, TInv, Isolated
  <2>2. heap[req[r].ptr].EvaluationResults \in [Engines -> Nat]
    BY <1>b, <2>1 DEF Cache
  <2>3. [graphs[r] EXCEPT !.rules = heap[req[r].ptr].EvaluationResults] \in GraphRecords
    BY <1>b, <2>2 DEF GraphRecords
  <2>4. [req[r] EXCEPT !.state = "built"] \in RequestRecords
    BY <1>b DEF RequestRecords
  <2>5. RequestType'
    BY <1>5, <1>b, <2>3, <2>4 DEF GraphWalksRules, RequestType
  <2> QED
    BY <1>5, <1>b, <2>5, RequestStepType DEF GraphWalksRules, server
<1>6. CASE GraphResponds(r)
  <2>1. RequestType'
    BY <1>6, <1>b, ResetTypes DEF GraphResponds, RequestType
  <2>2. heap' \in [CacheIds -> Cache]
    BY <1>6, <1>b, CollectType DEF GraphResponds
  <2> QED
    BY <1>6, <2>1, <2>2, RequestStepType DEF GraphResponds
<1>7. CASE LockedDeref(r)
  <2> DEFINE q == [[req[r] EXCEPT !.left = @ - 1] EXCEPT !.seen = @ \cup {cache}]
  <2>1. q \in RequestRecords
    <3>1. req[r].left - 1 \in 0..3
      BY <1>7, <1>b DEF LockedDeref, RequestRecords
    <3>2. req[r].seen \cup {cache} \in SUBSET CacheIds
      BY <1>b DEF RequestRecords
    <3> QED
      BY <1>b, <3>1, <3>2 DEF RequestRecords
  <2>2. req' = [req EXCEPT ![r] = q]
    BY <1>7, <1>b DEF LockedDeref
  <2>3. RequestType'
    BY <1>7, <1>b, <2>1, <2>2 DEF LockedDeref, RequestType
  <2> QED
    BY <1>7, <1>b, <2>3, RequestStepType DEF LockedDeref, server
<1>8. CASE LockedResponds(r)
  <2>1. RequestType'
    BY <1>8, <1>b, ResetTypes DEF LockedResponds, RequestType
  <2>2. heap' \in [CacheIds -> Cache]
    BY <1>8, <1>b, CollectType DEF LockedResponds
  <2> QED
    BY <1>8, <2>1, <2>2, RequestStepType DEF LockedResponds
<1> QED
  BY <1>1, <1>2, <1>3, <1>4, <1>5, <1>6, <1>7, <1>8, <1>9
  DEF RequestStep, Arrive, Handle, WriteAnswer, TakesReadLock

LEMMA StepType == TInv /\ [Next]_vars => TypeOK'
<1> SUFFICES ASSUME TInv, [Next]_vars PROVE TypeOK'
  OBVIOUS
<1>a. TypeOK
  BY DEF TInv
<1>1. CASE WatchEvent
  <2>1. EnvType'
    <3>1. gnpOk' \in BOOLEAN
      BY <1>1, <1>a, Zenon DEF WatchEvent, ObjectsChange, NamespaceAdded, NamespaceDeleted,
           PolicyDecodabilityChange, TypeOK, EnvType
    <3>2. live' \in SUBSET Ns
      BY <1>1, <1>a DEF WatchEvent, ObjectsChange, NamespaceAdded, NamespaceDeleted,
           PolicyDecodabilityChange, TypeOK, EnvType
    <3> QED
      BY <1>1, <1>a, <3>1, <3>2 DEF WatchEvent, TypeOK, EnvType
  <2>2. BuildType' /\ ServerType' /\ MetricsType' /\ RequestType'
    BY <1>1, <1>a DEF WatchEvent, TypeOK, BuildType, ServerType, MetricsType, RequestType,
         build, server, metrics, requests
  <2> QED
    BY <2>1, <2>2 DEF TypeOK
<1>2. CASE Tick \/ LoopExits
  <2>1. BuildType'
    BY <1>2, <1>a DEF Tick, LoopExits, TypeOK, BuildType, PCs
  <2>2. EnvType' /\ ServerType' /\ MetricsType' /\ RequestType'
    BY <1>2, <1>a DEF Tick, LoopExits, Begin, TypeOK, EnvType, ServerType, MetricsType,
         RequestType, server, metrics, requests
  <2> QED
    BY <2>1, <2>2 DEF TypeOK
<1>3. CASE Refresh
  BY <1>3, RefreshStepType
<1>4. CASE \E r \in Requests : RequestStep(r)
  BY <1>4, HandleStepType
<1>5. CASE UNCHANGED vars
  BY <1>5, <1>a DEF vars, TypeOK, EnvType, BuildType, ServerType, MetricsType, RequestType
<1> QED
  BY <1>1, <1>2, <1>3, <1>4, <1>5 DEF Next

-----------------------------------------------------------------------------
(* Ownership of the cache under construction.                              *)

\* A request reaches what it reached before and what is served, no more.
LEMMA RequestReach ==
    ASSUME TInv, NEW r \in Requests, RequestStep(r)
    PROVE  /\ UNCHANGED <<pc, newCache, cache>>
           /\ Reachable(req') \subseteq Reachable(req) \cup {cache, NoCache}
           /\ \A q \in Requests : req'[q].state \in {"walk", "built"} => req'[q].ptr \in CacheIds
<1>a. Isolated /\ cache \in CacheIds /\ req \in [Requests -> RequestRecords]
  BY DEF TInv, TypeOK, ServerType, RequestType
<1>1. UNCHANGED <<pc, newCache, cache>>
  BY DEF RequestStep, Arrive, Handle, WriteAnswer, TakesReadLock, GraphRequest, GraphNames,
      GraphNamesFail, LockedRequest, LockedTakesLock, GraphTakesPointer, GraphWalksNs,
      GraphWalksRules, GraphResponds, LockedDeref, LockedWrites, LockedResponds, build,
      server
<1>2. \A q \in Requests \ {r} : req'[q] = req[q]
  BY <1>a
  DEF RequestStep, Arrive, Handle, WriteAnswer, TakesReadLock, GraphRequest, GraphNames,
      GraphNamesFail, LockedRequest, LockedTakesLock, GraphTakesPointer, GraphWalksNs,
      GraphWalksRules, GraphResponds, LockedDeref, LockedWrites, LockedResponds
<1>3. /\ req'[r].ptr \in {req[r].ptr, cache, NoCache}
      /\ req'[r].seen \subseteq req[r].seen \cup {cache}
      /\ req'[r].state \in {"walk", "built"} => req'[r].ptr \in CacheIds
  <2>1. CASE \/ GraphRequest(r) \/ GraphNames(r) \/ GraphWalksNs(r) \/ GraphWalksRules(r)
             \/ LockedRequest(r) \/ LockedTakesLock(r) \/ LockedWrites(r)
    BY <2>1, <1>a DEF GraphRequest, GraphNames, GraphWalksNs, GraphWalksRules, LockedRequest,
         LockedTakesLock, LockedWrites, RequestRecords, Isolated
  <2>2. CASE GraphTakesPointer(r)
    BY <2>2, <1>a DEF GraphTakesPointer, RequestRecords
  <2>3. CASE GraphNamesFail(r) \/ GraphResponds(r) \/ LockedResponds(r)
    BY <2>3, <1>a DEF GraphNamesFail, GraphResponds, LockedResponds, IdleRequest
  <2>4. CASE LockedDeref(r)
    BY <2>4, <1>a DEF LockedDeref, RequestRecords
  <2> QED
    BY <2>1, <2>2, <2>3, <2>4 DEF RequestStep, Arrive, Handle, WriteAnswer, TakesReadLock
<1>4. Reachable(req') \subseteq Reachable(req) \cup {cache, NoCache}
  BY <1>2, <1>3 DEF Reachable
<1> QED
  BY <1>1, <1>2, <1>3, <1>4, <1>a DEF Isolated

LEMMA IsolatedInit == Init => Isolated
BY DEF Init, Isolated, IdleRequest

LEMMA IsolatedStep == TInv /\ [Next]_vars => Isolated'
<1> SUFFICES ASSUME TInv, [Next]_vars PROVE Isolated'
  OBVIOUS
<1>a. TypeOK /\ Isolated
  BY DEF TInv
<1>b. /\ cache \in CacheIds /\ newCache \in CacheIds \cup {NoCache}
      /\ req \in [Requests -> RequestRecords]
  BY <1>a DEF TypeOK, ServerType, RequestType, BuildType
<1>1. CASE WatchEvent \/ UNCHANGED vars
  BY <1>1, <1>a DEF WatchEvent, vars, Isolated, Reachable, build, server, requests
<1>2. CASE Tick \/ LoopExits
  BY <1>2, <1>a DEF Tick, LoopExits, Begin, Isolated, requests
<1>3. CASE Refresh
  <2>1. req' = req
    BY <1>3 DEF Refresh, GetNsNamesFails, StartPopulate, FetchLists, FetchDone, FetchFails,
         FetchesFailed, FetchesDone, EvaluateOk, EvaluateFails, StampStatuses,
         BuildMeshMembership, SwapCache, RecordSuccess, Begin, requests
  <2>2. \A r \in Requests : req'[r].state \in {"walk", "built"} => req'[r].ptr \in CacheIds
    BY <2>1, <1>a DEF Isolated
  <2>3. CASE pc' \in {"idle", "list", "exited"}
    BY <2>2, <2>3 DEF Isolated
  <2>4. CASE StartPopulate
    BY <2>1, <2>2, <2>4 DEF StartPopulate, Isolated
  <2>5. CASE SwapCache
    BY <2>2, <2>5 DEF SwapCache, Isolated
  <2>6. CASE /\ UNCHANGED <<newCache, cache>> /\ pc' # "record"
             /\ pc \in {"fetch", "engines", "mesh", "lock"}
    BY <1>a, <2>1, <2>2, <2>6 DEF Isolated, Reachable
  <2> QED
    BY <1>3, <2>3, <2>4, <2>5, <2>6
    DEF Refresh, GetNsNamesFails, FetchLists, FetchDone, FetchFails, FetchesFailed,
        FetchesDone, EvaluateOk, EvaluateFails, PopulateFails, RefreshReturns, StampStatuses,
        BuildMeshMembership, RecordSuccess, Begin, server
<1>4. ASSUME NEW r \in Requests, RequestStep(r) PROVE Isolated'
  BY <1>4, <1>a, RequestReach, ConstantsAssumption DEF Isolated
<1> QED
  BY <1>1, <1>2, <1>3, <1>4 DEF Next

LEMMA TInvInvariant == Spec => []TInv
<1>1. Init => TInv
  BY InitType, IsolatedInit DEF TInv
<1>2. TInv /\ [Next]_vars => TInv'
  BY StepType, IsolatedStep DEF TInv
<1> QED
  BY <1>1, <1>2, PTL DEF Spec

\* The state of the loop, the caches and the handlers keeps its type: in
\* particular no handler walks a nil cache and no cycle builds into one.
THEOREM TypeCorrect == Spec => []TypeOK
<1>1. TInv => TypeOK
  BY DEF TInv
<1> QED
  BY <1>1, TInvInvariant, PTL

-----------------------------------------------------------------------------
(* Immutability of published caches.                                       *)

\* Only SwapCache makes a further object reachable, the cache it publishes.
LEMMA HeldGrows ==
    ASSUME TInv, [Next]_vars
    PROVE  Held' \subseteq Held \cup {newCache} /\ (~SwapCache => Held' \subseteq Held)
<1>a. TypeOK /\ Isolated
  BY DEF TInv
<1>b. cache \in CacheIds /\ req \in [Requests -> RequestRecords]
  BY <1>a DEF TypeOK, ServerType, RequestType
<1>1. CASE WatchEvent \/ Tick \/ LoopExits \/ UNCHANGED vars
  BY <1>1 DEF WatchEvent, Tick, LoopExits, Begin, vars, server, requests, Held, Reachable
<1>2. CASE Refresh
  <2>1. req' = req /\ (cache' = cache \/ (SwapCache /\ cache' = newCache))
    BY <1>2 DEF Refresh, GetNsNamesFails, StartPopulate, FetchLists, FetchDone, FetchFails,
         FetchesFailed, FetchesDone, EvaluateOk, EvaluateFails, PopulateFails, StampStatuses,
         BuildMeshMembership, SwapCache, RecordSuccess, Begin, requests, server
  <2> QED
    BY <2>1 DEF Held, Reachable
<1>3. ASSUME NEW r \in Requests, RequestStep(r) PROVE Held' \subseteq Held
  BY <1>3, RequestReach DEF Held
<1> QED
  BY <1>1, <1>2, <1>3 DEF Next

\* No step writes to an object that is served or held before and after it.
LEMMA HeldUnchanged ==
    ASSUME TInv, [Next]_vars, NEW id \in Held, id \in Held'
    PROVE  heap'[id] = heap[id]
<1>a. TypeOK /\ Isolated
  BY DEF TInv
<1>b. heap \in [CacheIds -> Cache] /\ cache \in CacheIds /\ req \in [Requests -> RequestRecords]
  BY <1>a DEF TypeOK, ServerType, RequestType
<1>c. id \in CacheIds
  BY <1>b DEF Held, Reachable, RequestRecords
<1>d. id \in {cache'} \cup Reachable(req') /\ id \in {cache} \cup Reachable(req)
  BY DEF Held, Reachable
<1>e. pc \in {"fetch", "engines", "mesh", "lock"} => id # newCache
  BY <1>a, <1>d DEF Isolated
<1>1. CASE UNCHANGED heap
  BY <1>1
<1>2. CASE StartPopulate
  BY <1>2, <1>b, <1>c, <1>d DEF StartPopulate
<1>3. CASE \/ \E n \in Ns : FetchDone(n)
           \/ FetchesDone \/ EvaluateOk \/ StampStatuses \/ BuildMeshMembership
  <2>1. pc \in {"fetch", "engines", "mesh", "lock"}
    BY <1>3 DEF FetchDone, FetchesDone, EvaluateOk, StampStatuses, BuildMeshMembership, Begin
  <2>2. heap'[id] = heap[id]
    BY <1>3, <1>b, <1>c, <1>e, <2>1
    DEF FetchDone, FetchesDone, EvaluateOk, StampStatuses, BuildMeshMembership
  <2> QED
    BY <2>2
<1>4. ASSUME NEW used, heap' = Collect(heap, used), id \in used PROVE heap'[id] = heap[id]
  BY <1>4, <1>b, <1>c, CollectType
<1>5. CASE FetchesFailed \/ EvaluateFails
  BY <1>4, <1>5, <1>d DEF FetchesFailed, EvaluateFails, PopulateFails
<1>6. CASE SwapCache
  <2>1. cache' = newCache /\ req' = req
    BY <1>6 DEF SwapCache, Begin, requests
  <2> QED
    BY <1>4, <1>6, <1>d, <2>1 DEF SwapCache
<1>7. ASSUME NEW r \in Requests, GraphResponds(r) \/ LockedResponds(r)
      PROVE  heap'[id] = heap[id]
  BY <1>4, <1>7, <1>d DEF GraphResponds, LockedResponds
<1> QED
  BY <1>1, <1>2, <1>3, <1>5, <1>6, <1>7
  DEF Next, WatchEvent, Tick, LoopExits, Refresh, GetNsNamesFails, FetchLists, FetchFails,
      RecordSuccess, RequestStep, Arrive, Handle, WriteAnswer, TakesReadLock, GraphRequest,
      GraphNames, GraphNamesFail, LockedRequest, LockedTakesLock, GraphTakesPointer,
      GraphWalksNs, GraphWalksRules, LockedDeref, LockedWrites, server, vars

\* A cache is never written to after RefreshAll swapped it in, as long as it is
\* served or some request walks it: handleGraph needs no lock.
THEOREM PublishedNeverWritten == Spec => PublishedIsImmutable
<1>1. TInv /\ [Next]_vars => [\A id \in Held : id \in Held' => heap'[id] = heap[id]]_vars
  BY HeldUnchanged
<1> QED
  BY <1>1, TInvInvariant, PTL DEF Spec, PublishedIsImmutable

-----------------------------------------------------------------------------
(* Served caches are whole.                                                *)

\* A namespace is in NsIndex with both of its parts or not at all.
NoHalfNamespace(c) == \A n \in Ns : (c.NsIndex[n].workloads > 0) <=> (c.NsIndex[n].nsNode > 0)

\* How far the phases of a cycle have brought the cache under construction.
Progress ==
    /\ rev > 0
    /\ \A n \in Ns : fetch[n].state = "getNs" => fetch[n].workloads > 0
    /\ pc \in {"fetch", "engines", "mesh"} => NoHalfNamespace(heap[newCache])
    /\ pc = "fetch" => engine = 1
    /\ pc = "engines" =>
          \A i \in 1..3 : i < engine => heap[newCache].EvaluationResults[sources[i]] > 0
    /\ pc = "mesh" =>
          /\ \A e \in Engines : heap[newCache].EvaluationResults[e] > 0
          /\ heap[newCache].Statuses = heap[newCache].EvaluationResults
          /\ heap[newCache] = RebuildWorkloadIndex(heap[newCache])
    /\ pc = "lock" => Whole(heap[newCache])

\* Whatever a handler can reach is empty or whole.
HeldWhole == \A id \in Held : heap[id] = EmptyCache \/ Whole(heap[id])

IInv == TInv /\ Progress /\ HeldWhole

LEMMA ProgressStep == IInv /\ [Next]_vars => Progress'
<1> SUFFICES ASSUME IInv, [Next]_vars PROVE Progress'
  OBVIOUS
<1>a. TInv /\ TypeOK /\ Isolated /\ Progress
  BY DEF IInv, TInv
<1>b. /\ heap \in [CacheIds -> Cache] /\ fetch \in [Ns -> Fetches] /\ rev \in Nat
      /\ engine \in 1..4
  BY <1>a DEF TypeOK, ServerType, BuildType, EnvType
<1>c. pc \in {"fetch", "engines", "mesh", "lock"} =>
        newCache \in CacheIds /\ heap[newCache] \in Cache
  BY <1>a, <1>b DEF Isolated
<1>d. ASSUME UNCHANGED <<pc, fetch, newCache, engine>>, rev' = rev \/ rev' = rev + 1,
             pc \in {"fetch", "engines", "mesh", "lock"} => heap'[newCache] = heap[newCache]
      PROVE  Progress'
  BY <1>a, <1>b, <1>d DEF Progress, NoHalfNamespace
<1>e. ASSUME pc' \in {"idle", "list", "record", "exited"}, rev' = rev,
             fetch' = fetch \/ fetch' = NoFetch
      PROVE  Progress'
  BY <1>a, <1>e DEF Progress, NoFetch
<1>1. CASE WatchEvent \/ UNCHANGED vars
  BY <1>1, <1>d DEF WatchEvent, vars, build, server
<1>2. CASE Tick \/ LoopExits
  BY <1>2, <1>e DEF Tick, LoopExits, Begin
<1>3. CASE GetNsNamesFails \/ FetchesFailed \/ EvaluateFails \/ SwapCache \/ RecordSuccess
  BY <1>3, <1>e DEF GetNsNamesFails, FetchesFailed, EvaluateFails, PopulateFails,
       RefreshReturns, SwapCache, RecordSuccess, Begin
<1>4. CASE StartPopulate
  <2>1. heap'[newCache'] = EmptyCache
    BY <1>4, <1>b DEF StartPopulate
  <2>2. NoHalfNamespace(EmptyCache)
    BY DEF NoHalfNamespace, EmptyCache, NoIndex
  <2>3. \A n \in Ns : fetch'[n].state # "getNs"
    BY <1>4 DEF StartPopulate, NoFetch
  <2> QED
    BY <1>4, <1>a, <2>1, <2>2, <2>3 DEF StartPopulate, Begin, Progress, NoHalfNamespace
<1>5. ASSUME NEW n \in Ns, FetchLists(n) PROVE Progress'
  <2>1. \A m \in Ns : fetch'[m].state = "getNs" => fetch'[m].workloads > 0
    BY <1>5, <1>a, <1>b DEF FetchLists, Progress
  <2> QED
    BY <1>5, <1>a, <2>1 DEF FetchLists, Begin, Progress, NoHalfNamespace, server
<1>6. ASSUME NEW n \in Ns, FetchDone(n) PROVE Progress'
  <2>1. \A m \in Ns : fetch'[m].state = "getNs" => fetch'[m].workloads > 0
    BY <1>6, <1>a, <1>b DEF FetchDone, Progress
  <2>2. /\ heap'[newCache].NsIndex[n] = [workloads |-> fetch[n].workloads, nsNode |-> rev]
        /\ \A m \in Ns \ {n} : heap'[newCache].NsIndex[m] = heap[newCache].NsIndex[m]
    BY <1>6, <1>b, <1>c DEF FetchDone, Begin, Cache
  <2>3. NoHalfNamespace(heap'[newCache])
    BY <1>6, <1>a, <2>2 DEF FetchDone, Begin, Progress, NoHalfNamespace
  <2> QED
    BY <1>6, <1>a, <2>1, <2>3 DEF FetchDone, Begin, Progress, NoHalfNamespace
<1>7. ASSUME NEW n \in Ns, FetchFails(n) PROVE Progress'
  <2>1. \A m \in Ns : fetch'[m].state = "getNs" => fetch'[m].workloads > 0
    BY <1>7, <1>a, <1>b DEF FetchFails, Progress
  <2> QED
    BY <1>7, <1>a, <2>1 DEF FetchFails, Begin, Progress, NoHalfNamespace, server
<1>8. CASE FetchesDone
  <2>1. heap'[newCache] = RebuildWorkloadIndex(heap[newCache])
    BY <1>8, <1>b, <1>c DEF FetchesDone, Begin
  <2>2. heap'[newCache].NsIndex = heap[newCache].NsIndex
    BY <1>8, <1>c, <2>1, RebuildType DEF FetchesDone, Begin
  <2>3. engine = 1
    BY <1>8, <1>a DEF FetchesDone, Begin, Progress
  <2> QED
    BY <1>8, <1>a, <2>2, <2>3 DEF FetchesDone, Begin, Progress, NoHalfNamespace
<1>9. CASE EvaluateOk
  <2>1. engine \in 1..3 /\ sources[engine] \in Engines
    BY <1>9, <1>b, SourceType DEF EvaluateOk
  <2>2. /\ heap'[newCache].NsIndex = heap[newCache].NsIndex
        /\ heap'[newCache].EvaluationResults =
              [heap[newCache].EvaluationResults EXCEPT ![sources[engine]] = rev]
    BY <1>9, <1>b, <1>c DEF EvaluateOk, Begin, Cache
  <2>3. \A i \in 1..3 : i < engine' => heap'[newCache].EvaluationResults[sources[i]] > 0
    BY <1>9, <1>a, <1>b, <1>c, <2>1, <2>2, SourceType
    DEF EvaluateOk, Begin, Progress, Cache
  <2> QED
    BY <1>9, <1>a, <2>2, <2>3 DEF EvaluateOk, Begin, Progress, NoHalfNamespace
<1>10. CASE StampStatuses
  <2> DEFINE c == heap[newCache]
  <2>1. /\ heap'[newCache] = stampStatuses(RebuildWorkloadIndex(c))
        /\ c \in Cache /\ RebuildWorkloadIndex(c) \in Cache
    BY <1>10, <1>b, <1>c, RebuildType DEF StampStatuses, Begin
  <2>2. /\ heap'[newCache].NsIndex = c.NsIndex
        /\ heap'[newCache].EvaluationResults = c.EvaluationResults
        /\ heap'[newCache].Statuses = c.EvaluationResults
        /\ heap'[newCache] = RebuildWorkloadIndex(heap'[newCache])
    BY <2>1, RebuildType, StampType
  <2>3. \A e \in Engines : c.EvaluationResults[e] > 0
    <3>1. \A i \in 1..3 : i < engine
      BY <1>10, <1>b, SourceType DEF StampStatuses
    <3>2. \A i \in 1..3 : c.EvaluationResults[sources[i]] > 0
      BY <1>10, <1>a, <3>1 DEF StampStatuses, Begin, Progress
    <3> QED
      BY <3>2, SourceType DEF Engines
  <2> QED
    BY <1>10, <1>a, <2>2, <2>3 DEF StampStatuses, Begin, Progress, NoHalfNamespace
<1>11. CASE BuildMeshMembership
  <2> DEFINE c == heap[newCache]
  <2>1. c \in Cache /\ newCache \in CacheIds
    BY <1>11, <1>c DEF BuildMeshMembership, Begin
  <2>2. PICK unknown \in BOOLEAN :
          heap' = [heap EXCEPT ![newCache].MeshMembership = rev,
                               ![newCache].MtlsUnknown = unknown]
    BY <1>11 DEF BuildMeshMembership
  <2>3. heap'[newCache] = [[c EXCEPT !.MeshMembership = rev] EXCEPT !.MtlsUnknown = unknown]
    BY <1>b, <2>1, <2>2
  <2>4. /\ heap'[newCache].NsIndex = c.NsIndex
        /\ heap'[newCache].EvaluationResults = c.EvaluationResults
        /\ heap'[newCache].Statuses = c.Statuses
        /\ heap'[newCache].MeshMembership = rev
        /\ heap'[newCache] = RebuildWorkloadIndex(heap'[newCache])
    <3>1. c = RebuildWorkloadIndex(c)
      BY <1>11, <1>a DEF BuildMeshMembership, Begin, Progress
    <3> DEFINE d == heap'[newCache]
    <3>2. d = WriteMesh(c, rev, unknown)
      BY <2>3 DEF WriteMesh
    <3>3. c \in Cache
      BY <2>1
    <3> HIDE DEF c, d
    <3>4. /\ d.NsIndex = c.NsIndex
          /\ d.EvaluationResults = c.EvaluationResults
          /\ d.Statuses = c.Statuses
          /\ d.MeshMembership = rev
          /\ d = RebuildWorkloadIndex(d)
      BY <3>1, <3>2, <3>3, MeshWrite
    <3> QED
      BY <3>4 DEF d
  <2> QED
    BY <1>11, <1>a, <2>4 DEF BuildMeshMembership, Begin, Progress, NoHalfNamespace, Whole
<1>12. ASSUME NEW r \in Requests, RequestStep(r) PROVE Progress'
  <2>1. UNCHANGED <<pc, fetch, newCache, engine, rev>>
    BY <1>12
    DEF RequestStep, Arrive, Handle, WriteAnswer, TakesReadLock, GraphRequest, GraphNames,
        GraphNamesFail, LockedRequest, LockedTakesLock, GraphTakesPointer, GraphWalksNs,
        GraphWalksRules, GraphResponds, LockedDeref, LockedWrites, LockedResponds, build, env
  <2>2. pc \in {"fetch", "engines", "mesh", "lock"} => heap'[newCache] = heap[newCache]
    BY <1>12, <1>b, <1>c, CollectType
    DEF RequestStep, Arrive, Handle, WriteAnswer, TakesReadLock, GraphRequest, GraphNames,
        GraphNamesFail, LockedRequest, LockedTakesLock, GraphTakesPointer, GraphWalksNs,
        GraphWalksRules, GraphResponds, LockedDeref, LockedWrites, LockedResponds, server
  <2> QED
    BY <1>d, <2>1, <2>2
<1> QED
  BY <1>1, <1>2, <1>3, <1>4, <1>5, <1>6, <1>7, <1>8, <1>9, <1>10, <1>11, <1>12
  DEF Next, Refresh

LEMMA HeldWholeStep == IInv /\ [Next]_vars => HeldWhole'
<1> SUFFICES ASSUME IInv, [Next]_vars, NEW id \in Held'
             PROVE  heap'[id] = EmptyCache \/ Whole(heap'[id])
  BY DEF HeldWhole
<1>a. TInv /\ TypeOK /\ Progress /\ HeldWhole
  BY DEF IInv, TInv
<1>1. CASE id \in Held
  BY <1>1, <1>a, HeldUnchanged DEF HeldWhole
<1>2. CASE id \notin Held
  <2>1. SwapCache /\ id = newCache
    BY <1>2, <1>a, HeldGrows
  <2>2. heap'[id] = heap[newCache]
    BY <1>a, <2>1, CollectType DEF SwapCache, Begin, TInv, Isolated, TypeOK, ServerType
  <2> QED
    BY <1>a, <2>1, <2>2 DEF SwapCache, Begin, Progress
<1> QED
  BY <1>1, <1>2

LEMMA IInvInit == Init => IInv
<1> SUFFICES ASSUME Init PROVE IInv
  OBVIOUS
<1>1. TInv
  BY InitType, IsolatedInit DEF TInv
<1>2. Progress
  BY DEF Init, Progress, NoFetch
<1>3. HeldWhole
  BY <1>1 DEF Init, HeldWhole, Held, Reachable, IdleRequest
<1> QED
  BY <1>1, <1>2, <1>3 DEF IInv

LEMMA IInvStep == IInv /\ [Next]_vars => IInv'
BY StepType, IsolatedStep, ProgressStep, HeldWholeStep DEF IInv, TInv

LEMMA IInvInvariant == Spec => []IInv
BY IInvInit, IInvStep, PTL DEF Spec

\* Whatever fails in whichever cycle, s.cache is the initial empty cache or one
\* that went through every phase of PopulateCache.
THEOREM ServedWhole == Spec => []ServedCacheIsWhole
<1>1. IInv => ServedCacheIsWhole
  BY DEF IInv, HeldWhole, Held, ServedCacheIsWhole
<1> QED
  BY <1>1, IInvInvariant, PTL
=============================================================================
