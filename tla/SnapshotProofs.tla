--------------------------- MODULE SnapshotProofs ---------------------------
(***************************************************************************)
(* What CacheRefresh publishes, proved from what CacheRefreshProofs shows   *)
(* of how it is built: successive caches move forward, the gauges describe  *)
(* the cache that is served, a graph comes from one cache, and all of it    *)
(* together implements SnapshotService.                                     *)
(***************************************************************************)
EXTENDS CacheRefreshProofs

-----------------------------------------------------------------------------
(* The strengthening.                                                      *)

Building == {"fetch", "engines", "mesh", "lock"}

\* Outside the recording of a swap the gauges show what is served.
GaugesFollow == pc # "record" => gauges = heap[cache]

\* Nothing is waited for outside the fetch phase, and only listed namespaces
\* were ever asked for.
FetchScope ==
    /\ pc # "fetch" => AllFetched
    /\ \A n \in Ns \ nss : fetch[n].state = "done"

\* The namespaces of the cache under construction are those listed whose fetch
\* has succeeded.
Listed ==
    /\ pc \in Building => NamespacesOf(heap[newCache]) \subseteq nss
    /\ pc = "fetch" /\ ~firstErr =>
          \A n \in nss : fetch[n].state = "done" => n \in NamespacesOf(heap[newCache])
    /\ pc \in Building \ {"fetch"} => nss \subseteq NamespacesOf(heap[newCache])

\* The served cache was finished before the cycle that is running read anything.
Forward ==
    /\ heap[cache].MeshMembership <= rev
    /\ \A n \in Ns : fetch[n].state = "getNs" => fetch[n].workloads >= heap[cache].MeshMembership
    /\ pc \in Building => Newer(heap[newCache], heap[cache])
    /\ pc = "lock" => heap[newCache].MeshMembership <= rev

\* A graph is empty until its walk starts, and then a part of the cache walked.
GraphPart ==
    \A r \in Requests :
        /\ req[r].state \notin {"walk", "built"} => graphs[r].nodes = NoGraph.nodes
        /\ req[r].state \in {"walk", "built"} =>
              \A n \in Ns : graphs[r].nodes[n] \in {NoIndex, heap[req[r].ptr].NsIndex[n]}
        /\ req[r].state = "built" => graphs[r].rules = heap[req[r].ptr].EvaluationResults

\* Under the read lock s.cache is one object.
LockedSees ==
    \A r \in Requests :
        /\ req[r].state \notin {"locked", "written"} => req[r].seen = {}
        /\ req[r].seen \subseteq {cache}

PInv == IInv /\ GaugesFollow /\ FetchScope /\ Listed /\ Forward /\ GraphPart /\ LockedSees

-----------------------------------------------------------------------------
(* The steps, by what they do to the served cache and to the one being      *)
(* built.                                                                  *)

\* Only a swap changes which cache is served, and nothing changes what is in it.
LEMMA ServedStays ==
    ASSUME TInv, [Next]_vars
    PROVE  \/ SwapCache
           \/ cache' = cache /\ heap'[cache] = heap[cache]
<1> SUFFICES ASSUME ~SwapCache PROVE cache' = cache
  BY HeldUnchanged DEF Held
<1>1. CASE Refresh
  BY <1>1 DEF Refresh, GetNsNamesFails, StartPopulate, FetchLists, FetchDone, FetchFails,
       FetchesFailed, FetchesDone, EvaluateOk, EvaluateFails, PopulateFails, StampStatuses,
       BuildMeshMembership, RecordSuccess, server
<1>2. ASSUME NEW r \in Requests, RequestStep(r) PROVE cache' = cache
  BY <1>2, RequestReach
<1> QED
  BY <1>1, <1>2 DEF Next, WatchEvent, Tick, LoopExits, server, vars

\* The swap serves the cache that was built, as it was built.
LEMMA SwapServes ==
    ASSUME TInv, SwapCache
    PROVE  /\ cache' = newCache /\ heap'[cache'] = heap[newCache]
           /\ pc = "lock" /\ pc' = "record" /\ newCache \in CacheIds
BY CollectType DEF SwapCache, Begin, TInv, Isolated, TypeOK, ServerType

\* A step other than those of the refresh goroutine leaves its variables and the
\* cache it builds alone.
LEMMA OthersKeepBuild ==
    ASSUME TInv, WatchEvent \/ (\E r \in Requests : RequestStep(r)) \/ UNCHANGED vars
    PROVE  /\ UNCHANGED <<build, cache, serving, metrics>>
           /\ rev' = rev \/ rev' = rev + 1
           /\ pc \in Building => heap'[newCache] = heap[newCache]
<1>a. heap \in [CacheIds -> Cache] /\ (pc \in Building => newCache \in CacheIds)
  BY DEF TInv, TypeOK, ServerType, Isolated, Building
<1>1. CASE WatchEvent \/ UNCHANGED vars
  BY <1>1 DEF WatchEvent, build, server, metrics, vars
<1>2. ASSUME NEW r \in Requests, RequestStep(r)
      PROVE  /\ UNCHANGED <<build, cache, serving, metrics>> /\ rev' = rev
             /\ pc \in Building => heap'[newCache] = heap[newCache]
  BY <1>2, <1>a, CollectType
  DEF RequestStep, Arrive, Handle, WriteAnswer, TakesReadLock, GraphRequest, GraphNames,
      GraphNamesFail, LockedRequest, LockedTakesLock, GraphTakesPointer, GraphWalksNs,
      GraphWalksRules, GraphResponds, LockedDeref, LockedWrites, LockedResponds, server, env
<1> QED
  BY <1>1, <1>2

-----------------------------------------------------------------------------
(* Gauges.                                                                 *)

LEMMA GaugesStep == TInv /\ GaugesFollow /\ [Next]_vars => GaugesFollow'
<1> SUFFICES ASSUME TInv, GaugesFollow, [Next]_vars PROVE GaugesFollow'
  OBVIOUS
<1>1. CASE SwapCache
  BY <1>1, SwapServes DEF GaugesFollow
<1>2. CASE RecordSuccess
  BY <1>2 DEF RecordSuccess, Begin, TInv, Isolated, GaugesFollow
<1>3. ASSUME ~SwapCache, ~RecordSuccess
      PROVE  gauges' = gauges /\ (pc = "record" => pc' = "record")
  <2>1. CASE Refresh
    BY <1>3, <2>1 DEF Refresh, GetNsNamesFails, StartPopulate, FetchLists, FetchDone, FetchFails,
         FetchesFailed, FetchesDone, EvaluateOk, EvaluateFails, PopulateFails, StampStatuses,
         BuildMeshMembership, metrics, Begin
  <2> QED
    BY <2>1, OthersKeepBuild DEF Next, Tick, LoopExits, Begin, build, metrics
<1> QED
  BY <1>1, <1>2, <1>3, ServedStays DEF GaugesFollow

-----------------------------------------------------------------------------
(* What was fetched.                                                       *)

LEMMA FetchScopeStep == TInv /\ FetchScope /\ [Next]_vars => FetchScope'
<1> SUFFICES ASSUME TInv, FetchScope, [Next]_vars PROVE FetchScope'
  OBVIOUS
<1>a. fetch \in [Ns -> Fetches]
  BY DEF TInv, TypeOK, BuildType
<1>1. ASSUME NEW n \in Ns, FetchLists(n) \/ FetchDone(n) \/ FetchFails(n) PROVE FetchScope'
  BY <1>1, <1>a DEF FetchLists, FetchDone, FetchFails, Begin, FetchScope
<1>2. CASE StartPopulate
  BY <1>2 DEF StartPopulate, FetchScope, NoFetch
<1>3. CASE RefreshReturns
  BY <1>3 DEF RefreshReturns, FetchScope, AllFetched, NoFetch
<1>4. CASE FetchesDone
  BY <1>4 DEF FetchesDone, FetchScope, AllFetched
<1>5. CASE UNCHANGED <<pc, fetch, nss>> \/ (UNCHANGED <<fetch, nss>> /\ pc # "fetch")
  BY <1>5 DEF FetchScope, AllFetched
<1>6. CASE Refresh
  BY <1>1, <1>2, <1>3, <1>4, <1>5, <1>6
  DEF Refresh, GetNsNamesFails, FetchesFailed, EvaluateOk, EvaluateFails, PopulateFails,
      StampStatuses, BuildMeshMembership, SwapCache, RecordSuccess, Begin
<1> QED
  BY <1>5, <1>6, OthersKeepBuild DEF Next, Tick, LoopExits, Begin, build

\* What each write of a cycle does to the two parts of its cache that are
\* compared with other caches.
LEMMA NsWrite ==
    ASSUME TInv, NEW n \in Ns, FetchDone(n)
    PROVE  /\ heap'[newCache].NsIndex[n] = [workloads |-> fetch[n].workloads, nsNode |-> rev]
           /\ heap'[newCache].NsIndex[n].workloads = fetch[n].workloads
           /\ \A m \in Ns \ {n} : heap'[newCache].NsIndex[m] = heap[newCache].NsIndex[m]
BY DEF FetchDone, Begin, TInv, TypeOK, ServerType, Isolated, Cache

LEMMA OtherWrites ==
    ASSUME TInv, FetchesDone \/ EvaluateOk \/ StampStatuses \/ BuildMeshMembership
    PROVE  /\ heap'[newCache].NsIndex = heap[newCache].NsIndex
           /\ BuildMeshMembership => heap'[newCache].MeshMembership = rev
<1>a. newCache \in CacheIds /\ heap \in [CacheIds -> Cache] /\ heap[newCache] \in Cache
  BY DEF FetchesDone, EvaluateOk, StampStatuses, BuildMeshMembership, Begin, TInv, TypeOK,
         ServerType, Isolated
<1>1. CASE FetchesDone
  BY <1>1, <1>a, RebuildType DEF FetchesDone, BuildMeshMembership, Begin
<1>2. CASE EvaluateOk
  BY <1>2, <1>a DEF EvaluateOk, BuildMeshMembership, Begin, Cache
<1>3. CASE StampStatuses
  BY <1>3, <1>a, RebuildType, StampType DEF StampStatuses, BuildMeshMembership, Begin
<1>4. CASE BuildMeshMembership
  <2>1. PICK unknown \in BOOLEAN :
          heap' = [heap EXCEPT ![newCache].MeshMembership = rev,
                               ![newCache].MtlsUnknown = unknown]
    BY <1>4 DEF BuildMeshMembership
  <2>2. heap'[newCache] = WriteMesh(heap[newCache], rev, unknown)
    BY <1>a, <2>1 DEF WriteMesh
  <2> QED
    BY <1>a, <2>2 DEF WriteMesh, Cache
<1> QED
  BY <1>1, <1>2, <1>3, <1>4

\* A step that leaves the build alone keeps what is said about its namespaces.
LEMMA ListedFrame ==
    ASSUME Listed, UNCHANGED <<pc, nss, firstErr, newCache>>, fetch' = fetch,
           pc \in Building => heap'[newCache].NsIndex = heap[newCache].NsIndex
    PROVE  Listed'
<1>1. pc \in Building => NamespacesOf(heap'[newCache]) = NamespacesOf(heap[newCache])
  BY DEF NamespacesOf
<1> QED
  BY <1>1 DEF Listed, Building

LEMMA ListedStep == IInv /\ FetchScope /\ Listed /\ [Next]_vars => Listed'
<1> SUFFICES ASSUME IInv, FetchScope, Listed, [Next]_vars PROVE Listed'
  OBVIOUS
<1>a. TInv /\ Progress
  BY DEF IInv
<1>b. /\ fetch \in [Ns -> Fetches] /\ nss \in SUBSET Ns
      /\ heap \in [CacheIds -> Cache]
  BY <1>a DEF TInv, TypeOK, BuildType, ServerType
<1>1. CASE pc' \notin Building
  BY <1>1 DEF Listed, Building
<1>2. CASE StartPopulate
  <2>1. heap'[newCache'] = EmptyCache /\ pc' = "fetch"
    BY <1>2, <1>b DEF StartPopulate
  <2>2. NamespacesOf(heap'[newCache']) = {}
    BY <2>1 DEF NamespacesOf, EmptyCache
  <2>3. nss' = live /\ \A n \in live \cap Ns : fetch'[n].state # "done"
    BY <1>2 DEF StartPopulate
  <2>4. live \subseteq Ns
    BY <1>a DEF TInv, TypeOK, EnvType
  <2> QED
    BY <2>1, <2>2, <2>3, <2>4 DEF Listed, Building
<1>3. ASSUME NEW n \in Ns, FetchLists(n) PROVE Listed'
  <2>1. UNCHANGED <<pc, nss, firstErr, newCache, heap>> /\ pc = "fetch"
    BY <1>3 DEF FetchLists, Begin, server
  <2>2. \A m \in Ns : fetch'[m].state = "done" => fetch[m].state = "done"
    BY <1>3, <1>b DEF FetchLists
  <2> QED
    BY <1>b, <2>1, <2>2 DEF Listed, Building, NamespacesOf
<1>4. ASSUME NEW n \in Ns, FetchFails(n) PROVE Listed'
  <2>1. UNCHANGED <<pc, nss, newCache, heap>> /\ pc = "fetch" /\ firstErr'
    BY <1>4 DEF FetchFails, Begin, server
  <2> QED
    BY <2>1 DEF Listed, Building, NamespacesOf
<1>5. ASSUME NEW n \in Ns, FetchDone(n) PROVE Listed'
  <2>1. UNCHANGED <<pc, nss, firstErr, newCache>> /\ pc = "fetch"
    BY <1>5 DEF FetchDone, Begin
  <2>2. \A m \in Ns \ {n} : fetch'[m] = fetch[m]
    BY <1>5, <1>b DEF FetchDone
  <2>3. fetch[n].workloads > 0 /\ n \in nss
    BY <1>5, <1>a DEF FetchDone, Progress, FetchScope
  <2>4. NamespacesOf(heap'[newCache]) = NamespacesOf(heap[newCache]) \cup {n}
    <3>1. /\ heap'[newCache].NsIndex[n].workloads = fetch[n].workloads
          /\ \A m \in Ns \ {n} : heap'[newCache].NsIndex[m] = heap[newCache].NsIndex[m]
      BY <1>5, <1>a, NsWrite
    <3>2. heap'[newCache].NsIndex[n] # NoIndex
      BY <3>1, <2>3 DEF NoIndex
    <3> QED
      BY <3>1, <3>2 DEF NamespacesOf
  <2> QED
    BY <1>b, <2>1, <2>2, <2>3, <2>4 DEF Listed, Building
<1>6. CASE FetchesDone
  <2>1. NamespacesOf(heap'[newCache]) = NamespacesOf(heap[newCache])
    BY <1>6, <1>a, OtherWrites DEF NamespacesOf
  <2>2. nss \subseteq NamespacesOf(heap[newCache])
    BY <1>6, <1>b DEF FetchesDone, Begin, AllFetched, Listed
  <2> QED
    BY <1>6, <2>1, <2>2 DEF FetchesDone, Begin, Listed, Building
<1>7. CASE EvaluateOk \/ StampStatuses \/ BuildMeshMembership
  <2>1. /\ UNCHANGED <<nss, newCache>> /\ pc \in Building \ {"fetch"}
        /\ pc' \in Building \ {"fetch"}
    BY <1>7 DEF EvaluateOk, StampStatuses, BuildMeshMembership, Begin, Building
  <2>2. NamespacesOf(heap'[newCache]) = NamespacesOf(heap[newCache])
    BY <1>7, <1>a, OtherWrites DEF NamespacesOf
  <2> QED
    BY <2>1, <2>2 DEF Listed
<1>8. CASE WatchEvent \/ (\E r \in Requests : RequestStep(r)) \/ UNCHANGED vars
  BY <1>8, <1>a, OthersKeepBuild, ListedFrame DEF build
<1> QED
  BY <1>1, <1>2, <1>3, <1>4, <1>5, <1>6, <1>7, <1>8
  DEF Next, Tick, LoopExits, Refresh, GetNsNamesFails, FetchesFailed, EvaluateFails,
      PopulateFails, RefreshReturns, SwapCache, RecordSuccess, Building

-----------------------------------------------------------------------------
(* The order of publications.                                              *)

\* Newer looks at two parts of two caches.
LEMMA NewerFrame ==
    ASSUME NEW c, NEW d, NEW old, NEW old2, Newer(c, old), d.NsIndex = c.NsIndex,
           old2.MeshMembership = old.MeshMembership
    PROVE  Newer(d, old2)
BY DEF Newer, NamespacesOf

LEMMA ForwardStep == IInv /\ FetchScope /\ Forward /\ [Next]_vars => Forward'
<1> SUFFICES ASSUME IInv, FetchScope, Forward, [Next]_vars PROVE Forward'
  OBVIOUS
<1>a. TInv /\ Progress
  BY DEF IInv
<1>b. /\ fetch \in [Ns -> Fetches] /\ heap \in [CacheIds -> Cache] /\ rev \in Nat
      /\ cache \in CacheIds /\ heap[cache].MeshMembership \in Nat
  BY <1>a DEF TInv, TypeOK, BuildType, ServerType, EnvType, Cache
<1>c. ~SwapCache => cache' = cache /\ heap'[cache] = heap[cache]
  BY <1>a, ServedStays
<1> DEFINE Kept == rev' \in {rev, rev + 1} /\ cache' = cache /\ heap'[cache] = heap[cache]
<1>1. ASSUME Kept, fetch' = NoFetch, pc' \notin Building PROVE Forward'
  BY <1>1, <1>b DEF Forward, NoFetch, Building
<1>2. ASSUME Kept, fetch' = fetch, pc' \notin Building PROVE Forward'
  BY <1>2, <1>b DEF Forward, Building
<1>3. ASSUME Kept, fetch' = fetch, newCache' = newCache,
             heap'[newCache].NsIndex = heap[newCache].NsIndex,
             pc \in Building,
             pc' = "lock" => heap'[newCache].MeshMembership <= rev'
      PROVE  Forward'
  <2>1. Newer(heap'[newCache], heap'[cache])
    BY <1>3, NewerFrame DEF Forward
  <2> QED
    BY <1>3, <1>b, <2>1 DEF Forward
<1>4. CASE WatchEvent \/ (\E r \in Requests : RequestStep(r)) \/ UNCHANGED vars
  <2>1. UNCHANGED build /\ (pc \in Building => heap'[newCache] = heap[newCache])
        /\ cache' = cache /\ rev' \in {rev, rev + 1}
    BY <1>4, <1>a, OthersKeepBuild
  <2>2. heap'[cache] = heap[cache]
    BY <1>a, <2>1, HeldUnchanged DEF Held
  <2>3. pc = "lock" => heap'[newCache].MeshMembership \in Nat
                       /\ heap'[newCache].MeshMembership <= rev'
    BY <1>a, <1>b, <2>1 DEF Forward, Building, TInv, Isolated, Cache
  <2> QED
    BY <1>2, <1>3, <2>1, <2>2, <2>3 DEF build
<1>5. CASE Tick \/ LoopExits
  BY <1>5, <1>2, <1>b DEF Tick, LoopExits, Begin, server, Building
<1>6. CASE GetNsNamesFails \/ FetchesFailed \/ EvaluateFails \/ RecordSuccess
  <2>1. fetch' = NoFetch /\ pc' \notin Building /\ rev' = rev /\ ~SwapCache
    BY <1>6 DEF GetNsNamesFails, FetchesFailed, EvaluateFails, PopulateFails, RefreshReturns,
         RecordSuccess, SwapCache, Begin, Building
  <2> QED
    BY <1>1, <1>b, <1>c, <2>1
<1>7. CASE StartPopulate
  <2>1. heap'[newCache'] = EmptyCache /\ pc' = "fetch" /\ rev' = rev /\ ~SwapCache
    BY <1>7, <1>b DEF StartPopulate, Begin, SwapCache
  <2>2. Newer(heap'[newCache'], heap'[cache'])
    BY <2>1 DEF Newer, NamespacesOf, EmptyCache
  <2>3. \A n \in Ns : fetch'[n].state # "getNs"
    BY <1>7 DEF StartPopulate, NoFetch
  <2> QED
    BY <1>b, <1>c, <2>1, <2>2, <2>3 DEF Forward
<1>8. ASSUME NEW n \in Ns, FetchLists(n) \/ FetchFails(n) PROVE Forward'
  <2>1. UNCHANGED <<pc, newCache, heap, cache, rev>> /\ pc = "fetch"
    BY <1>8 DEF FetchLists, FetchFails, Begin, server
  <2>2. \A m \in Ns : fetch'[m].state = "getNs" => fetch'[m].workloads = rev \/ fetch'[m] = fetch[m]
    BY <1>8, <1>b DEF FetchLists, FetchFails
  <2> QED
    BY <1>b, <2>1, <2>2 DEF Forward, Building, Newer, NamespacesOf
<1>9. ASSUME NEW n \in Ns, FetchDone(n) PROVE Forward'
  <2>1. UNCHANGED <<pc, newCache, cache, rev>> /\ pc = "fetch" /\ heap'[cache] = heap[cache]
    BY <1>9, <1>c DEF FetchDone, Begin, SwapCache
  <2>2. \A m \in Ns : fetch'[m].state = "getNs" => fetch'[m] = fetch[m]
    BY <1>9, <1>b DEF FetchDone
  <2>3. fetch[n].workloads >= heap[cache].MeshMembership
    BY <1>9 DEF FetchDone, Forward
  <2>4. Newer(heap'[newCache], heap[cache])
    <3>1. Newer(heap[newCache], heap[cache])
      BY <2>1 DEF Forward, Building
    <3> SUFFICES ASSUME NEW m \in NamespacesOf(heap'[newCache])
                 PROVE  heap'[newCache].NsIndex[m].workloads >= heap[cache].MeshMembership
      BY DEF Newer
    <3>2. CASE m = n
      <4>1. heap'[newCache].NsIndex[n].workloads = fetch[n].workloads
        BY <1>9, <1>a, NsWrite
      <4> QED
        BY <3>2, <4>1, <2>3
    <3>3. CASE m # n
      BY <3>1, <3>3, <1>9, <1>a, NsWrite DEF Newer, NamespacesOf
    <3> QED
      BY <3>2, <3>3
  <2> QED
    BY <1>b, <2>1, <2>2, <2>4 DEF Forward, Building
<1>10. CASE FetchesDone \/ EvaluateOk \/ StampStatuses \/ BuildMeshMembership
  <2>1. /\ UNCHANGED <<newCache, fetch, rev>> /\ ~SwapCache /\ pc \in Building
        /\ pc' = "lock" => BuildMeshMembership
    BY <1>10 DEF FetchesDone, EvaluateOk, StampStatuses, BuildMeshMembership, Begin,
         SwapCache, Building
  <2> QED
    BY <1>3, <1>10, <1>a, <1>b, <1>c, <2>1, OtherWrites
<1>11. CASE SwapCache
  <2>1. /\ rev' = rev /\ fetch' = fetch /\ pc' \notin Building
        /\ \A n \in Ns : fetch[n].state # "getNs"
    BY <1>11 DEF SwapCache, Begin, Building, FetchScope, AllFetched
  <2> QED
    BY <1>11, <1>a, <2>1, SwapServes DEF Forward, Building
<1> QED
  BY <1>4, <1>5, <1>6, <1>7, <1>8, <1>9, <1>10, <1>11 DEF Next, Refresh

-----------------------------------------------------------------------------
(* The requests.                                                           *)

\* What a waiting request walks stays as it is.
LEMMA WalkedStays ==
    ASSUME TInv, [Next]_vars, NEW r \in Requests, req'[r] = req[r],
           req[r].state \in {"walk", "built"}
    PROVE  heap'[req[r].ptr] = heap[req[r].ptr]
<1>1. req[r].ptr \in CacheIds /\ req[r].ptr # NoCache
  BY ConstantsAssumption DEF TInv, Isolated
<1>2. req[r].ptr \in Held /\ req[r].ptr \in Held'
  BY <1>1 DEF Held, Reachable
<1> QED
  BY <1>2, HeldUnchanged

\* The loop, the cluster and another request leave a request alone, and what it
\* holds stays as it is.
LEMMA OthersKeepRequest ==
    ASSUME TInv, [Next]_vars, NEW r \in Requests, ~RequestStep(r)
    PROVE  /\ req'[r] = req[r] /\ graphs'[r] = graphs[r]
           /\ req[r].state \in {"walk", "built"} => heap'[req[r].ptr] = heap[req[r].ptr]
<1>a. req \in [Requests -> RequestRecords] /\ graphs \in [Requests -> GraphRecords]
  BY DEF TInv, TypeOK, RequestType
<1>1. req'[r] = req[r] /\ graphs'[r] = graphs[r]
  <2>1. CASE Refresh
    BY <2>1 DEF Refresh, GetNsNamesFails, StartPopulate, FetchLists, FetchDone, FetchFails,
         FetchesFailed, FetchesDone, EvaluateOk, EvaluateFails, StampStatuses,
         BuildMeshMembership, SwapCache, RecordSuccess, Begin, requests
  <2>2. ASSUME NEW q \in Requests, q # r, RequestStep(q)
        PROVE  req'[r] = req[r] /\ graphs'[r] = graphs[r]
    BY <2>2, <1>a
    DEF RequestStep, Arrive, Handle, WriteAnswer, TakesReadLock, GraphRequest, GraphNames,
        GraphNamesFail, LockedRequest, LockedTakesLock, GraphTakesPointer, GraphWalksNs,
        GraphWalksRules, GraphResponds, LockedDeref, LockedWrites, LockedResponds
  <2> QED
    BY <2>1, <2>2 DEF Next, WatchEvent, Tick, LoopExits, Begin, requests, vars
<1> QED
  BY <1>1, WalkedStays

LEMMA GraphPartStep == TInv /\ GraphPart /\ [Next]_vars => GraphPart'
<1> SUFFICES ASSUME TInv, GraphPart, [Next]_vars, NEW r \in Requests
    PROVE  /\ req'[r].state \notin {"walk", "built"} => graphs'[r].nodes = NoGraph.nodes
           /\ req'[r].state \in {"walk", "built"} =>
                 \A n \in Ns : graphs'[r].nodes[n] \in {NoIndex, heap'[req'[r].ptr].NsIndex[n]}
           /\ req'[r].state = "built" => graphs'[r].rules = heap'[req'[r].ptr].EvaluationResults
  BY DEF GraphPart
<1>a. /\ req \in [Requests -> RequestRecords] /\ graphs \in [Requests -> GraphRecords]
      /\ heap \in [CacheIds -> Cache]
  BY DEF TInv, TypeOK, RequestType, ServerType
<1>1. CASE GraphRequest(r) \/ GraphNames(r)
  BY <1>1, <1>a DEF GraphRequest, GraphNames, GraphPart, RequestRecords, GraphRecords
<1>2. CASE LockedRequest(r) \/ LockedTakesLock(r) \/ LockedWrites(r)
  BY <1>2, <1>a
  DEF LockedRequest, LockedTakesLock, LockedWrites, GraphPart, RequestRecords, GraphRecords
<1>3. CASE GraphTakesPointer(r)
  <2>1. req'[r].state = "walk" /\ graphs'[r] = graphs[r]
    BY <1>3, <1>a DEF GraphTakesPointer, RequestRecords
  <2>2. \A n \in Ns : graphs[r].nodes[n] = NoIndex
    BY <1>3 DEF GraphTakesPointer, GraphPart, NoGraph
  <2> QED
    BY <2>1, <2>2
<1>4. CASE GraphWalksNs(r)
  <2>1. PICK n \in graphs[r].want :
          graphs' = [graphs EXCEPT ![r].want = @ \ {n},
                                   ![r].nodes[n] = heap[req[r].ptr].NsIndex[n]]
    BY <1>4 DEF GraphWalksNs
  <2>2. UNCHANGED <<req, heap>> /\ req[r].state = "walk"
    BY <1>4 DEF GraphWalksNs, server
  <2>3. n \in Ns
    BY <1>a DEF GraphRecords
  <2>4. \A m \in Ns : graphs'[r].nodes[m] =
            IF m = n THEN heap[req[r].ptr].NsIndex[n] ELSE graphs[r].nodes[m]
    BY <1>a, <2>1, <2>3 DEF GraphRecords
  <2> QED
    BY <2>2, <2>4 DEF GraphPart
<1>5. CASE GraphWalksRules(r)
  <2>1. /\ UNCHANGED heap /\ req[r].state = "walk" /\ req'[r].state = "built"
        /\ req'[r].ptr = req[r].ptr
    BY <1>5, <1>a DEF GraphWalksRules, server, RequestRecords
  <2>2. /\ graphs'[r].nodes = graphs[r].nodes
        /\ graphs'[r].rules = heap[req[r].ptr].EvaluationResults
    BY <1>5, <1>a DEF GraphWalksRules, GraphRecords
  <2> QED
    BY <2>1, <2>2 DEF GraphPart
<1>6. CASE GraphResponds(r)
  BY <1>6, <1>a DEF GraphResponds, IdleRequest
<1>7. CASE LockedDeref(r)
  BY <1>7, <1>a DEF LockedDeref, GraphPart, RequestRecords
<1>8. CASE GraphNamesFail(r) \/ LockedResponds(r)
  BY <1>8, <1>a DEF GraphNamesFail, LockedResponds, IdleRequest, GraphPart
<1>9. CASE ~RequestStep(r)
  BY <1>9, OthersKeepRequest DEF GraphPart
<1> QED
  BY <1>1, <1>2, <1>3, <1>4, <1>5, <1>6, <1>7, <1>8, <1>9
  DEF RequestStep, Arrive, Handle, WriteAnswer, TakesReadLock

LEMMA LockedSeesStep == TInv /\ LockedSees /\ [Next]_vars => LockedSees'
<1> SUFFICES ASSUME TInv, LockedSees, [Next]_vars, NEW r \in Requests
    PROVE  /\ req'[r].state \notin {"locked", "written"} => req'[r].seen = {}
           /\ req'[r].seen \subseteq {cache'}
  BY DEF LockedSees
<1>a. req \in [Requests -> RequestRecords]
  BY DEF TInv, TypeOK, RequestType
<1>1. CASE \/ GraphRequest(r) \/ GraphNames(r) \/ GraphTakesPointer(r) \/ GraphWalksNs(r)
           \/ GraphWalksRules(r) \/ LockedRequest(r) \/ LockedTakesLock(r)
           \/ LockedDeref(r) \/ LockedWrites(r)
  BY <1>1, <1>a
  DEF GraphRequest, GraphNames, GraphTakesPointer, GraphWalksNs, GraphWalksRules,
      LockedRequest, LockedTakesLock, LockedDeref, LockedWrites, RequestRecords,
      LockedSees, server
<1>2. CASE GraphNamesFail(r) \/ GraphResponds(r) \/ LockedResponds(r)
  BY <1>2, <1>a DEF GraphNamesFail, GraphResponds, LockedResponds, IdleRequest
<1>3. CASE ~RequestStep(r)
  <2>1. req'[r] = req[r]
    BY <1>3, OthersKeepRequest
  <2>2. CASE SwapCache
    BY <2>1, <2>2 DEF SwapCache, ReadLocked, LockedSees
  <2> QED
    BY <2>1, <2>2, ServedStays DEF LockedSees
<1> QED
  BY <1>1, <1>2, <1>3 DEF RequestStep, Arrive, Handle, WriteAnswer, TakesReadLock

-----------------------------------------------------------------------------
(* The invariant, and what follows from it.                                *)

LEMMA PInvInit == Init => PInv
<1> SUFFICES ASSUME Init PROVE PInv
  OBVIOUS
<1>1. IInv
  BY IInvInit
<1>2. GaugesFollow /\ FetchScope /\ Listed
  BY DEF Init, GaugesFollow, FetchScope, AllFetched, NoFetch, Listed, Building
<1>3. Forward
  BY DEF Init, Forward, NoFetch, Building, EmptyCache
<1>4. GraphPart /\ LockedSees
  BY DEF Init, GraphPart, LockedSees, IdleRequest
<1> QED
  BY <1>1, <1>2, <1>3, <1>4 DEF PInv

LEMMA PInvStep == PInv /\ [Next]_vars => PInv'
<1> SUFFICES ASSUME PInv, [Next]_vars PROVE PInv'
  OBVIOUS
<1>1. IInv /\ TInv
  BY DEF PInv, IInv
<1>2. IInv'
  BY <1>1, IInvStep
<1> QED
  BY <1>1, <1>2, GaugesStep, FetchScopeStep, ListedStep, ForwardStep, GraphPartStep,
     LockedSeesStep DEF PInv

LEMMA PInvInvariant == Spec => []PInv
BY PInvInit, PInvStep, PTL DEF Spec

\* Between cycles the gauges describe the cache that is served, whichever cycle
\* failed before.
THEOREM GaugesMatch == Spec => []GaugesMatchServedCache
<1>1. PInv => GaugesMatchServedCache
  BY DEF PInv, GaugesFollow, GaugesMatchServedCache
<1> QED
  BY <1>1, PInvInvariant, PTL

\* A graph is assembled from one whole cache, however many swaps and collections
\* happen during its walk.
THEOREM OneSnapshot == Spec => []GraphIsOneSnapshot
<1>1. PInv => GraphIsOneSnapshot
  <2> SUFFICES ASSUME PInv, NEW r \in Requests, req[r].state \in {"walk", "built"}
               PROVE  /\ \A n \in Ns : graphs[r].nodes[n] \in {NoIndex, heap[req[r].ptr].NsIndex[n]}
                      /\ req[r].state = "built" =>
                            /\ graphs[r].rules = heap[req[r].ptr].EvaluationResults
                            /\ heap[req[r].ptr] = EmptyCache \/ Whole(heap[req[r].ptr])
    BY DEF GraphIsOneSnapshot
  <2>1. req[r].ptr \in Held
    BY ConstantsAssumption DEF PInv, IInv, TInv, Isolated, Held, Reachable
  <2> QED
    BY <2>1 DEF PInv, IInv, HeldWhole, GraphPart
<1> QED
  BY <1>1, PInvInvariant, PTL

\* A cache replaces one that was finished before anything in it was read, and
\* holds exactly the namespaces listed at the start of its cycle.
THEOREM MovesForward == Spec => PublicationMovesForward
<1>1. PInv /\ [Next]_vars =>
        [cache' # cache => /\ NamespacesOf(heap[newCache]) = nss
                           /\ Newer(heap[newCache], heap[cache])]_vars
  <2> SUFFICES ASSUME PInv, [Next]_vars, cache' # cache
               PROVE  NamespacesOf(heap[newCache]) = nss /\ Newer(heap[newCache], heap[cache])
    OBVIOUS
  <2>1. TInv /\ Listed /\ Forward
    BY DEF PInv, IInv
  <2>2. pc = "lock"
    BY <2>1, ServedStays, SwapServes
  <2> QED
    BY <2>1, <2>2 DEF Listed, Forward, Building
<1> QED
  BY <1>1, PInvInvariant, PTL DEF Spec, PublicationMovesForward

-----------------------------------------------------------------------------
(* Refinement of SnapshotService.                                          *)

\* A request is answered from the cache it walks, or from the served one.
LEMMA AnsweringIs ==
    ASSUME LockedSees, NEW r \in Requests
    PROVE  Answering(r) = IF req[r].state \in {"walk", "built"} THEN heap[req[r].ptr]
                          ELSE IF req[r].seen # {} THEN heap[cache] ELSE NoCache
<1>1. ASSUME req[r].seen # {} PROVE (CHOOSE id \in req[r].seen : TRUE) = cache
  BY <1>1 DEF LockedSees
<1> QED
  BY <1>1 DEF Answering

\* What a request is answered from is a cache, so it is not NoCache.
LEMMA AnsweringCache ==
    ASSUME PInv, NEW r \in Requests, req[r].state \in {"walk", "built"} \/ req[r].seen # {}
    PROVE  Answering(r) \in Cache /\ Answering(r) # NoCache
<1>1. /\ heap \in [CacheIds -> Cache] /\ cache \in CacheIds /\ LockedSees
      /\ req[r].state \in {"walk", "built"} => req[r].ptr \in CacheIds
  BY DEF PInv, IInv, TInv, Isolated, TypeOK, ServerType
<1> QED
  BY <1>1, AnsweringIs, ConstantsAssumption

\* A request that does not move keeps its answer, through swaps and collections.
LEMMA AnsweringStays ==
    ASSUME PInv, PInv', [Next]_vars, NEW r \in Requests, req'[r] = req[r]
    PROVE  Answering(r)' = Answering(r)
<1>1. TInv /\ LockedSees /\ LockedSees'
  BY DEF PInv, IInv
<1>2. req[r].state \in {"walk", "built"} => heap'[req[r].ptr] = heap[req[r].ptr]
  BY <1>1, WalkedStays
<1>3. req[r].seen # {} => heap'[cache'] = heap[cache]
  <2>1. CASE SwapCache
    BY <1>1, <2>1 DEF SwapCache, ReadLocked, LockedSees
  <2> QED
    BY <1>1, <2>1, ServedStays
<1>4. Answering(r)' = IF req'[r].state \in {"walk", "built"} THEN heap'[req'[r].ptr]
                      ELSE IF req'[r].seen # {} THEN heap'[cache'] ELSE NoCache
  <2>1. ASSUME req'[r].seen # {} PROVE (CHOOSE id \in req'[r].seen : TRUE) = cache'
    BY <1>1, <2>1 DEF LockedSees
  <2> QED
    BY <2>1 DEF Answering
<1> QED
  BY <1>1, <1>2, <1>3, <1>4, AnsweringIs

\* A step of a request takes the served snapshot, drops the one it had, or leaves
\* its answer alone.
LEMMA AnsweringMoves ==
    ASSUME PInv, PInv', [Next]_vars, NEW r \in Requests, RequestStep(r)
    PROVE  \/ Answering(r)' = Answering(r)
           \/ Answering(r) = NoCache /\ Answering(r)' = heap[cache]
           \/ Answering(r) # NoCache /\ Answering(r)' = NoCache
<1>1. TInv /\ LockedSees /\ LockedSees'
  BY DEF PInv, IInv
<1>2. req \in [Requests -> RequestRecords] /\ heap \in [CacheIds -> Cache] /\ cache \in CacheIds
  BY <1>1 DEF TInv, TypeOK, RequestType, ServerType
<1>3. Answering(r) = IF req[r].state \in {"walk", "built"} THEN heap[req[r].ptr]
                     ELSE IF req[r].seen # {} THEN heap[cache] ELSE NoCache
  BY <1>1, AnsweringIs
<1>4. Answering(r)' = IF req'[r].state \in {"walk", "built"} THEN heap'[req'[r].ptr]
                      ELSE IF req'[r].seen # {} THEN heap'[cache'] ELSE NoCache
  <2>1. ASSUME req'[r].seen # {} PROVE (CHOOSE id \in req'[r].seen : TRUE) = cache'
    BY <1>1, <2>1 DEF LockedSees
  <2> QED
    BY <2>1 DEF Answering
<1>5. CASE \/ GraphRequest(r) \/ GraphNames(r) \/ GraphNamesFail(r)
           \/ LockedRequest(r) \/ LockedTakesLock(r)
  <2>1. /\ req[r].state \in {"idle", "names", "waiting"}
        /\ req'[r].state \in {"idle", "names", "graph", "waiting", "locked"}
        /\ req'[r].seen \in {req[r].seen, {}}
    BY <1>5, <1>2
    DEF GraphRequest, GraphNames, GraphNamesFail, LockedRequest, LockedTakesLock,
        RequestRecords, IdleRequest
  <2>2. req[r].seen = {}
    BY <1>1, <2>1 DEF LockedSees
  <2> QED
    BY <1>3, <1>4, <2>1, <2>2
<1>6. CASE GraphTakesPointer(r)
  <2>1. /\ req[r].state = "graph" /\ req'[r].state = "walk" /\ req'[r].ptr = cache
        /\ heap' = heap
    BY <1>6, <1>2 DEF GraphTakesPointer, RequestRecords, server
  <2>2. req[r].seen = {}
    BY <1>1, <2>1 DEF LockedSees
  <2> QED
    BY <1>3, <1>4, <2>1, <2>2
<1>7. CASE GraphWalksNs(r) \/ GraphWalksRules(r)
  <2>1. /\ req[r].state = "walk" /\ req'[r].state \in {"walk", "built"}
        /\ req'[r].ptr = req[r].ptr /\ heap' = heap
    BY <1>7, <1>2 DEF GraphWalksNs, GraphWalksRules, RequestRecords, server
  <2> QED
    BY <1>3, <1>4, <2>1
<1>8. CASE GraphResponds(r)
  <2>1. req[r].state = "built" /\ req'[r] = IdleRequest
    BY <1>8, <1>2 DEF GraphResponds
  <2> QED
    BY <1>4, <2>1, AnsweringCache DEF IdleRequest
<1>9. CASE LockedDeref(r)
  <2>1. /\ req[r].state = "locked" /\ req'[r].state = "locked"
        /\ req'[r].seen = req[r].seen \cup {cache} /\ heap' = heap /\ cache' = cache
    BY <1>9, <1>2 DEF LockedDeref, RequestRecords, server
  <2> QED
    BY <1>3, <1>4, <2>1
<1>10. CASE LockedWrites(r)
  <2>1. /\ req[r].state = "locked" /\ req'[r].state = "written"
        /\ req'[r].seen = req[r].seen /\ heap' = heap /\ cache' = cache
    BY <1>10, <1>2 DEF LockedWrites, RequestRecords, server
  <2> QED
    BY <1>3, <1>4, <2>1
<1>11. CASE LockedResponds(r)
  <2>1. req[r].state = "written" /\ req'[r] = IdleRequest
    BY <1>11, <1>2 DEF LockedResponds
  <2> QED
    BY <1>3, <1>4, <2>1, AnsweringCache DEF IdleRequest
<1> QED
  BY <1>5, <1>6, <1>7, <1>8, <1>9, <1>10, <1>11
  DEF RequestStep, Arrive, Handle, WriteAnswer, TakesReadLock

\* The instance speaks of the same caches.
LEMMA SameData ==
    ASSUME NEW c, NEW old
    PROVE  /\ Snapshots!EmptyCache = EmptyCache
           /\ Snapshots!Whole(c) <=> Whole(c)
           /\ Snapshots!Newer(c, old) <=> Newer(c, old)
BY DEF Snapshots!EmptyCache, EmptyCache, Snapshots!NoIndex, NoIndex, Snapshots!NotRun, NotRun,
       Snapshots!Engines, Engines, Snapshots!Whole, Whole, Snapshots!RebuildWorkloadIndex,
       RebuildWorkloadIndex, Snapshots!Newer, Newer, Snapshots!NamespacesOf, NamespacesOf

LEMMA RefinesInit == Init => Snapshots!Init
<1> SUFFICES ASSUME Init PROVE Snapshots!Init
  OBVIOUS
<1>1. heap[cache] = Snapshots!EmptyCache
  BY SameData DEF Init
<1>2. \A r \in Requests : Answering(r) = NoCache
  BY DEF Init, Answering, IdleRequest
<1> QED
  BY <1>1, <1>2 DEF Snapshots!Init

LEMMA RefinesStep == PInv /\ PInv' /\ [Next]_vars => [Snapshots!Next]_(Snapshots!vars)
<1> SUFFICES ASSUME PInv, PInv', [Next]_vars PROVE [Snapshots!Next]_(Snapshots!vars)
  OBVIOUS
<1>1. TInv /\ Forward /\ Progress /\ req \in [Requests -> RequestRecords]
  BY DEF PInv, IInv, TInv, TypeOK, RequestType
<1> DEFINE A == [q \in Requests |-> Answering(q)]
<1>2. ASSUME NEW r \in Requests, RequestStep(r)
      PROVE  [Snapshots!Next]_(Snapshots!vars)
  <2>1. heap'[cache'] = heap[cache]
    <3>1. cache' = cache
      BY <1>1, <1>2, RequestReach
    <3> QED
      BY <1>1, <3>1, HeldUnchanged DEF Held
  <2>2. \A q \in Requests \ {r} : req'[q] = req[q]
    BY <1>1, <1>2
    DEF RequestStep, Arrive, Handle, WriteAnswer, TakesReadLock, GraphRequest, GraphNames,
        GraphNamesFail, LockedRequest, LockedTakesLock, GraphTakesPointer, GraphWalksNs,
        GraphWalksRules, GraphResponds, LockedDeref, LockedWrites, LockedResponds
  <2>3. \A q \in Requests \ {r} : Answering(q)' = Answering(q)
    BY <2>2, AnsweringStays
  <2>4. A' = [A EXCEPT ![r] = Answering(r)']
    BY <2>3
  <2>5. CASE Answering(r)' = Answering(r)
    <3>1. A' = A
      BY <2>4, <2>5
    <3> QED
      BY <2>1, <3>1 DEF Snapshots!vars
  <2>6. CASE Answering(r) = NoCache /\ Answering(r)' = heap[cache]
    <3>1. Snapshots!TakeSnapshot(r)
      BY <2>1, <2>4, <2>6 DEF Snapshots!TakeSnapshot
    <3> QED
      BY <3>1 DEF Snapshots!Next
  <2>7. CASE Answering(r) # NoCache /\ Answering(r)' = NoCache
    <3>1. Snapshots!Respond(r)
      BY <2>1, <2>4, <2>7 DEF Snapshots!Respond
    <3> QED
      BY <3>1 DEF Snapshots!Next
  <2> QED
    BY <1>2, <2>5, <2>6, <2>7, AnsweringMoves
<1>3. CASE ~\E r \in Requests : RequestStep(r)
  <2>1. A' = A
    BY <1>1, <1>3, OthersKeepRequest, AnsweringStays
  <2>2. CASE SwapCache
    <3>1. /\ heap'[cache'] = heap[newCache] /\ Whole(heap[newCache])
          /\ Newer(heap[newCache], heap[cache])
      BY <1>1, <2>2, SwapServes DEF Progress, Forward, Building
    <3>2. Snapshots!Publish
      BY <2>1, <3>1, SameData DEF Snapshots!Publish
    <3> QED
      BY <3>2 DEF Snapshots!Next
  <2>3. CASE heap'[cache'] = heap[cache]
    BY <2>1, <2>3 DEF Snapshots!vars
  <2> QED
    BY <1>1, <2>2, <2>3, ServedStays
<1> QED
  BY <1>2, <1>3

\* The loop, the lock and the handlers together are a service that answers every
\* request from one whole snapshot, each newer than the one before.
THEOREM ImplementsService == Spec => ImplementsSnapshotService
BY RefinesInit, RefinesStep, PInvInvariant, PTL
DEF Spec, ImplementsSnapshotService, Snapshots!Spec
=============================================================================
