---------------------------- MODULE CacheRefresh ----------------------------
(***************************************************************************)
(* The server's snapshot loop and the request handlers that read what it   *)
(* publishes.                                                              *)
(*                                                                         *)
(* One goroutine runs RefreshAll: once from main before the listener is    *)
(* opened, then on every tick of RunCacheRefresh.  A cycle lists the       *)
(* namespaces, fetches each of them in a goroutine of its own, runs the    *)
(* policy engines one after the other, stamps the statuses, resolves the   *)
(* mesh and swaps the finished cache in under the write lock.  Meanwhile   *)
(* the informers apply watch events, and handlers read s.cache: handleGraph*)
(* copies the pointer and walks the cache with no lock held, the others    *)
(* dereference s.cache several times under the read lock.                  *)
(*                                                                         *)
(* Data is abstracted to the informer revision it was read at (0: not read *)
(* yet).  A cache is an object on a heap, so a write to a published object *)
(* would be seen by whoever still walks it.                                *)
(***************************************************************************)
EXTENDS CacheData, Sequences, FiniteSets

CONSTANTS
    CacheIds,   \* addresses of *models.Cache objects
    Requests,   \* concurrent HTTP requests
    NoCache,    \* the nil pointer
    MaxRev,     \* bound on informer revisions: how many watch events happen
    MaxFaults   \* bound on failing lister calls

ASSUME ConstantsAssumption ==
    /\ NoCache \notin CacheIds /\ NoCache \notin Cache
    /\ CacheIds # {}
    /\ MaxRev \in Nat \ {0}
    /\ MaxFaults \in Nat

VARIABLES
    live,       \* namespaces in the informer store
    rev,        \* revision of the informer stores
    gnpOk,      \* every GlobalNetworkPolicy in the store decodes
    faults,     \* lister calls that have failed
    pc,         \* where RefreshAll is
    nss,        \* its list of namespaces
    fetch,      \* fetchNsIndex goroutines: [Ns -> state]
    firstErr,   \* some goroutine failed
    newCache,   \* the cache being built
    engine,     \* index of the engine to run
    report,     \* the PopulateReport of the cycle
    heap,       \* contents of the caches
    cache,      \* s.cache
    serving,    \* the listener is open and the refresh loop has started
    gauges,     \* the cache the snapshot gauges were last built from
    lastEval,   \* what recordEvaluation last received
    req,        \* [Requests -> request record]
    graphs      \* [Requests -> the graph being assembled]

env == <<live, rev, gnpOk, faults>>
build == <<pc, nss, fetch, firstErr, newCache, engine, report>>
server == <<heap, cache, serving>>
metrics == <<gauges, lastEval>>
requests == <<req, graphs>>
vars == <<live, rev, gnpOk, faults, pc, nss, fetch, firstErr, newCache, engine,
          report, heap, cache, serving, gauges, lastEval, req, graphs>>

-----------------------------------------------------------------------------
(* Values of the state.                                                    *)

NoFetch == [n \in Ns |-> [state |-> "done", workloads |-> 0]]
EmptyReport == [Duration |-> 0, Engines |-> <<>>]
NoEval == [ok |-> FALSE, report |-> EmptyReport, populated |-> FALSE]

IdleRequest == [state |-> "idle", ptr |-> NoCache, left |-> 0, seen |-> {}]
NoGraph == [want |-> {}, nodes |-> [n \in Ns |-> NoIndex], rules |-> NotRun]

\* Go's collector: an object no goroutine can reach is gone.
Collect(h, used) == [id \in CacheIds |-> IF id \in used THEN h[id] ELSE EmptyCache]

Reachable(requestOf) ==
    {requestOf[r].ptr : r \in Requests} \cup UNION {requestOf[r].seen : r \in Requests}

-----------------------------------------------------------------------------
(* The cluster, as the informers see it.                                   *)

\* Pods, policies and PeerAuthentications change.
ObjectsChange == UNCHANGED <<live, gnpOk>>

NamespaceAdded == \E n \in Ns \ live : live' = live \cup {n} /\ UNCHANGED gnpOk

NamespaceDeleted == \E n \in live : live' = live \ {n} /\ UNCHANGED gnpOk

\* A GlobalNetworkPolicy with a selector or CIDR toGlobalPolicy rejects is
\* applied, or the last such policy is corrected.
PolicyDecodabilityChange == gnpOk' = ~gnpOk /\ UNCHANGED live

WatchEvent ==
    /\ rev < MaxRev
    /\ rev' = rev + 1
    /\ \/ ObjectsChange
       \/ NamespaceAdded
       \/ NamespaceDeleted
       \/ PolicyDecodabilityChange
    /\ UNCHANGED <<faults, build, server, metrics, requests>>

ListerFails == faults < MaxFaults /\ faults' = faults + 1
ListerAnswers == UNCHANGED faults

-----------------------------------------------------------------------------
(* RefreshAll and PopulateCache.                                           *)

\* The report as its caller receives it.  PopulateCache's results are not
\* named, so `return report, err` copies the report before the deferred
\* assignment to report.Duration runs.
Returned(rep) == rep

recordEvaluation(rep, ok, populated) ==
    lastEval' = [ok |-> ok, report |-> rep, populated |-> populated]

Begin(p) == pc = p /\ UNCHANGED <<live, rev, gnpOk, requests>>

\* The end of RefreshAll: back in main, which then starts the loop and opens
\* the listener, or back in the loop.
RefreshReturns ==
    /\ pc' = "idle"
    /\ serving' = TRUE
    /\ newCache' = NoCache
    /\ nss' = {}
    /\ fetch' = NoFetch
    /\ firstErr' = FALSE
    /\ engine' = 1
    /\ report' = EmptyReport

\* Broken variants: the failure path stores the nil cache; it rebuilds the gauges.
PopulateFailsStoresNil(rep) ==
    /\ recordEvaluation(Returned(rep), FALSE, TRUE)
    /\ cache' = NoCache
    /\ heap' = Collect(heap, Reachable(req))
    /\ RefreshReturns
    /\ UNCHANGED gauges
PopulateFailsRecordsGauges(rep) ==
    /\ recordEvaluation(Returned(rep), FALSE, TRUE)
    /\ gauges' = heap[newCache]
    /\ heap' = Collect(heap, {cache} \cup Reachable(req))
    /\ RefreshReturns
    /\ UNCHANGED cache

PopulateFails(rep) ==
    /\ recordEvaluation(Returned(rep), FALSE, TRUE)
    /\ heap' = Collect(heap, {cache} \cup Reachable(req))
    /\ RefreshReturns
    /\ UNCHANGED <<cache, gauges>>

\* Broken variant: the loop refreshes only until a first cache is there.
TickUntilPrimed ==
    /\ Begin("idle")
    /\ heap[cache] = EmptyCache
    /\ pc' = "list"
    /\ UNCHANGED <<faults, nss, fetch, firstErr, newCache, engine, report, server, metrics>>

Tick ==
    /\ Begin("idle")
    /\ pc' = "list"
    /\ UNCHANGED <<faults, nss, fetch, firstErr, newCache, engine, report, server, metrics>>

GetNsNamesFails ==
    /\ Begin("list")
    /\ ListerFails
    /\ recordEvaluation(EmptyReport, FALSE, FALSE)
    /\ RefreshReturns
    /\ UNCHANGED <<heap, cache, gauges>>

\* Broken variant: the served cache is repopulated in place.
StartPopulateInPlace ==
    /\ Begin("list")
    /\ ListerAnswers
    /\ nss' = live
    /\ newCache' = cache
    /\ fetch' = [n \in Ns |-> IF n \in live THEN [state |-> "lists", workloads |-> 0]
                                            ELSE NoFetch[n]]
    /\ firstErr' = FALSE
    /\ report' = EmptyReport
    /\ engine' = 1
    /\ pc' = "fetch"
    /\ UNCHANGED <<heap, cache, serving, metrics>>

\* newCache := &models.Cache{}, and one goroutine per namespace.
StartPopulate ==
    /\ Begin("list")
    /\ ListerAnswers
    /\ nss' = live
    /\ \E id \in CacheIds \ ({cache} \cup Reachable(req)) :
          /\ newCache' = id
          /\ heap' = [heap EXCEPT ![id] = EmptyCache]
    /\ fetch' = [n \in Ns |-> IF n \in live THEN [state |-> "lists", workloads |-> 0]
                                            ELSE NoFetch[n]]
    /\ firstErr' = FALSE
    /\ report' = EmptyReport
    /\ engine' = 1
    /\ pc' = "fetch"
    /\ UNCHANGED <<cache, serving, metrics>>

\* The pod, job and controller lists of one namespace, six calls one after the
\* other: workloads is the revision of the first, the oldest, and the other five
\* fall between it and GetNs.  A lister returns an empty list, not an error, for
\* a namespace that is gone.
FetchLists(n) ==
    /\ Begin("fetch")
    /\ fetch[n].state = "lists"
    /\ ListerAnswers
    /\ fetch' = [fetch EXCEPT ![n] = [state |-> "getNs", workloads |-> rev]]
    /\ UNCHANGED <<pc, nss, firstErr, newCache, engine, report, server, metrics>>

\* GetNs finds the namespace: AssembleNsIndex, stored under mu.
FetchDone(n) ==
    /\ Begin("fetch")
    /\ fetch[n].state = "getNs"
    /\ ListerAnswers
    /\ n \in live
    /\ heap' = [heap EXCEPT ![newCache].NsIndex[n] =
                    [workloads |-> fetch[n].workloads, nsNode |-> rev]]
    /\ fetch' = [fetch EXCEPT ![n] = [state |-> "done", workloads |-> 0]]
    /\ UNCHANGED <<pc, nss, firstErr, newCache, engine, report, cache, serving, metrics>>

\* Broken variant: the error of a fetch goroutine is dropped.
FetchFailsSilently(n) ==
    /\ Begin("fetch")
    /\ \/ fetch[n].state \in {"lists", "getNs"} /\ ListerFails
       \/ fetch[n].state = "getNs" /\ n \notin live /\ ListerAnswers
    /\ fetch' = [fetch EXCEPT ![n] = [state |-> "done", workloads |-> 0]]
    /\ UNCHANGED <<pc, nss, firstErr, newCache, engine, report, server, metrics>>

\* A list call fails, or GetNs does: NotFound once the namespace is deleted.
FetchFails(n) ==
    /\ Begin("fetch")
    /\ \/ fetch[n].state \in {"lists", "getNs"} /\ ListerFails
       \/ fetch[n].state = "getNs" /\ n \notin live /\ ListerAnswers
    /\ firstErr' = TRUE
    /\ fetch' = [fetch EXCEPT ![n] = [state |-> "done", workloads |-> 0]]
    /\ UNCHANGED <<pc, nss, newCache, engine, report, server, metrics>>

AllFetched == \A n \in Ns : fetch[n].state = "done"

\* wg.Wait returns and some goroutine had failed.
FetchesFailed ==
    /\ Begin("fetch")
    /\ AllFetched
    /\ firstErr
    /\ ListerAnswers
    /\ PopulateFails(report)

FetchesDone ==
    /\ Begin("fetch")
    /\ AllFetched
    /\ ~firstErr
    /\ ListerAnswers
    /\ heap' = [heap EXCEPT ![newCache] = RebuildWorkloadIndex(heap[newCache])]
    /\ pc' = "engines"
    /\ UNCHANGED <<nss, fetch, firstErr, newCache, engine, report, cache, serving, metrics>>

WithEngine(ok) == [report EXCEPT !.Engines = Append(@, [Name |-> sources[engine], ok |-> ok])]

\* The calico source decodes every policy it lists.
Decodes == sources[engine] = "calico" => gnpOk

EvaluateOk ==
    /\ Begin("engines")
    /\ engine <= Len(sources)
    /\ Decodes
    /\ ListerAnswers
    /\ report' = WithEngine(TRUE)
    /\ heap' = [heap EXCEPT ![newCache].EvaluationResults[sources[engine]] = rev]
    /\ engine' = engine + 1
    /\ UNCHANGED <<pc, nss, fetch, firstErr, newCache, cache, serving, metrics>>

\* The first engine that fails ends the cycle: the engines after it do not run.
EvaluateFails ==
    /\ Begin("engines")
    /\ engine <= Len(sources)
    /\ \/ ListerFails
       \/ ~Decodes /\ ListerAnswers
    /\ PopulateFails(WithEngine(FALSE))

\* Broken variant: the cache goes to the swap without its mesh phase.
StampStatusesSkipsMesh ==
    /\ Begin("engines")
    /\ engine > Len(sources)
    /\ ListerAnswers
    /\ heap' = [heap EXCEPT ![newCache] = stampStatuses(RebuildWorkloadIndex(heap[newCache]))]
    /\ pc' = "lock"
    /\ UNCHANGED <<nss, fetch, firstErr, newCache, engine, report, cache, serving, metrics>>

StampStatuses ==
    /\ Begin("engines")
    /\ engine > Len(sources)
    /\ ListerAnswers
    /\ heap' = [heap EXCEPT ![newCache] = stampStatuses(RebuildWorkloadIndex(heap[newCache]))]
    /\ pc' = "mesh"
    /\ UNCHANGED <<nss, fetch, firstErr, newCache, engine, report, cache, serving, metrics>>

\* A failing PeerAuthentication list degrades the mTLS verdicts to unknown; it
\* never ends the cycle.  Then Lock(): from here on no new reader gets in.
BuildMeshMembership ==
    /\ Begin("mesh")
    /\ \E unknown \in BOOLEAN :
          /\ IF unknown THEN ListerFails ELSE ListerAnswers
          /\ heap' = [heap EXCEPT ![newCache].MeshMembership = rev,
                                  ![newCache].MtlsUnknown = unknown]
    /\ pc' = "lock"
    /\ UNCHANGED <<nss, fetch, firstErr, newCache, engine, report, cache, serving, metrics>>

ReadLocked == {r \in Requests : req[r].state \in {"locked", "written"}}

\* Broken variant: it never unlocks.
SwapCacheKeepsLock ==
    /\ Begin("lock")
    /\ ListerAnswers
    /\ ReadLocked = {}
    /\ cache' = newCache
    /\ UNCHANGED <<heap, pc, nss, fetch, firstErr, newCache, engine, report, serving, metrics>>

SwapCache ==
    /\ Begin("lock")
    /\ ListerAnswers
    /\ ReadLocked = {}
    /\ cache' = newCache
    /\ heap' = Collect(heap, {newCache} \cup Reachable(req))
    /\ pc' = "record"
    /\ UNCHANGED <<nss, fetch, firstErr, newCache, engine, report, serving, metrics>>

\* recordEvaluation, then recordSnapshot from newCache.
RecordSuccess ==
    /\ Begin("record")
    /\ ListerAnswers
    /\ recordEvaluation(Returned(report), TRUE, TRUE)
    /\ gauges' = heap[newCache]
    /\ RefreshReturns
    /\ UNCHANGED <<heap, cache>>

\* stopCh is closed and select takes that case.  Only this select looks at the
\* channel, so a close during a cycle shows no earlier than here.
LoopExits ==
    /\ Begin("idle")
    /\ pc' = "exited"
    /\ UNCHANGED <<faults, nss, fetch, firstErr, newCache, engine, report, server, metrics>>

Refresh ==
    \/ GetNsNamesFails \/ StartPopulate
    \/ \E n \in Ns : FetchLists(n) \/ FetchDone(n) \/ FetchFails(n)
    \/ FetchesFailed \/ FetchesDone
    \/ EvaluateOk \/ EvaluateFails \/ StampStatuses
    \/ BuildMeshMembership \/ SwapCache \/ RecordSuccess

-----------------------------------------------------------------------------
(* The request handlers.                                                   *)

\* sync.RWMutex: a waiting writer keeps new readers out.
CanRLock == pc # "lock"

\* handleGraph is entered,
GraphRequest(r) ==
    /\ serving
    /\ req[r].state = "idle"
    /\ req' = [req EXCEPT ![r].state = "names"]
    /\ UNCHANGED <<env, build, server, metrics, graphs>>

\* has the namespaces asked for, from the query or from GetNsNames,
GraphNames(r) ==
    /\ req[r].state = "names"
    /\ \E names \in SUBSET Ns :
          graphs' = [graphs EXCEPT ![r].want = names]
    /\ req' = [req EXCEPT ![r].state = "graph"]
    /\ UNCHANGED <<env, build, server, metrics>>

\* or answers that GetNsNames failed.  This failure needs no bound and is not
\* counted in faults: it leaves nothing behind.
GraphNamesFail(r) ==
    /\ req[r].state = "names"
    /\ req' = [req EXCEPT ![r] = IdleRequest]
    /\ UNCHANGED <<env, build, server, metrics, graphs>>

\* RLock; cache := s.cache; RUnlock.
GraphTakesPointer(r) ==
    /\ req[r].state = "graph"
    /\ CanRLock
    /\ req' = [req EXCEPT ![r].state = "walk", ![r].ptr = cache]
    /\ UNCHANGED <<env, build, server, metrics, graphs>>

\* Broken variant: the walk goes through s.cache instead of the copied pointer.
GraphWalksServerCache(r) ==
    /\ req[r].state = "walk"
    /\ \E n \in graphs[r].want :
          graphs' = [graphs EXCEPT ![r].want = @ \ {n},
                                   ![r].nodes[n] = heap[cache].NsIndex[n]]
    /\ UNCHANGED <<env, build, server, metrics, req>>

\* BuildGraph, with no lock held: one namespace after the other,
GraphWalksNs(r) ==
    /\ req[r].state = "walk"
    /\ \E n \in graphs[r].want :
          graphs' = [graphs EXCEPT ![r].want = @ \ {n},
                                   ![r].nodes[n] = heap[req[r].ptr].NsIndex[n]]
    /\ UNCHANGED <<env, build, server, metrics, req>>

\* then the rules of every engine.
GraphWalksRules(r) ==
    /\ req[r].state = "walk"
    /\ graphs[r].want = {}
    /\ graphs' = [graphs EXCEPT ![r].rules = heap[req[r].ptr].EvaluationResults]
    /\ req' = [req EXCEPT ![r].state = "built"]
    /\ UNCHANGED <<env, build, server, metrics>>

\* c.JSON has written the graph to the client, with no lock held.
GraphResponds(r) ==
    /\ req[r].state = "built"
    /\ req' = [req EXCEPT ![r] = IdleRequest]
    /\ graphs' = [graphs EXCEPT ![r] = NoGraph]
    /\ heap' = Collect(heap, {cache, newCache} \cup Reachable(req'))
    /\ UNCHANGED <<env, build, cache, serving, metrics>>

\* How often a handler that holds the read lock dereferences s.cache.
Derefs == [getNodeInfo |-> 2, getReachability |-> 1, getIssues |-> 1,
           MeshStatuses |-> 1, ClusterMetrics |-> 3]

\* A request for one of these handlers arrives and calls RLock,
LockedRequest(r) ==
    /\ serving
    /\ req[r].state = "idle"
    /\ \E h \in DOMAIN Derefs :
          req' = [req EXCEPT ![r].state = "waiting", ![r].left = Derefs[h]]
    /\ UNCHANGED <<env, build, server, metrics, graphs>>

\* which returns when no writer holds the lock or waits for it.
LockedTakesLock(r) ==
    /\ req[r].state = "waiting"
    /\ CanRLock
    /\ req' = [req EXCEPT ![r].state = "locked"]
    /\ UNCHANGED <<env, build, server, metrics, graphs>>

LockedDeref(r) ==
    /\ req[r].state = "locked"
    /\ req[r].left > 0
    /\ req' = [req EXCEPT ![r].left = @ - 1, ![r].seen = @ \cup {cache}]
    /\ UNCHANGED <<env, build, server, metrics, graphs>>

\* c.JSON has written the answer to the client.  The lock is still held: its
\* RUnlock is deferred, and nothing bounds how long the client takes to read.
LockedWrites(r) ==
    /\ req[r].state = "locked"
    /\ req[r].left = 0
    /\ req' = [req EXCEPT ![r].state = "written"]
    /\ UNCHANGED <<env, build, server, metrics, graphs>>

\* Broken variant: a return path without RUnlock.
LockedRespondsKeepsLock(r) ==
    /\ req[r].state = "written"
    /\ req' = [req EXCEPT ![r].seen = {}]
    /\ UNCHANGED <<env, build, server, metrics, graphs>>

\* The deferred RUnlock.
LockedResponds(r) ==
    /\ req[r].state = "written"
    /\ req' = [req EXCEPT ![r] = IdleRequest]
    /\ heap' = Collect(heap, {cache, newCache} \cup Reachable(req'))
    /\ UNCHANGED <<env, build, cache, serving, metrics, graphs>>

Arrive(r) == GraphRequest(r) \/ LockedRequest(r)

TakesReadLock(r) == GraphTakesPointer(r) \/ LockedTakesLock(r)

\* What a handler does on its own, and what it needs its client for.
Handle(r) ==
    \/ GraphNames(r) \/ TakesReadLock(r)
    \/ GraphWalksNs(r) \/ GraphWalksRules(r)
    \/ LockedDeref(r) \/ LockedResponds(r)

WriteAnswer(r) == GraphNamesFail(r) \/ GraphResponds(r) \/ LockedWrites(r)

RequestStep(r) == Arrive(r) \/ Handle(r) \/ WriteAnswer(r)

-----------------------------------------------------------------------------
Init ==
    /\ live \in SUBSET Ns
    /\ rev = 1
    /\ gnpOk \in BOOLEAN
    /\ faults = 0
    /\ pc = "list"
    /\ nss = {}
    /\ fetch = NoFetch
    /\ firstErr = FALSE
    /\ newCache = NoCache
    /\ engine = 1
    /\ report = EmptyReport
    /\ heap = [id \in CacheIds |-> EmptyCache]
    /\ cache \in CacheIds
    /\ serving = FALSE
    /\ gauges = EmptyCache
    /\ lastEval = NoEval
    /\ req = [r \in Requests |-> IdleRequest]
    /\ graphs = [r \in Requests |-> NoGraph]

Next ==
    \/ WatchEvent
    \/ Tick
    \/ Refresh
    \/ LoopExits
    \/ \E r \in Requests : RequestStep(r)

Spec == Init /\ [][Next]_vars

\* Fairness: the refresh goroutine and its fetch goroutines keep running and
\* the ticker keeps ticking, and a handler that can run without its client does.
\* Strong fairness for the read lock: RWMutex.Unlock lets in the readers that
\* came while the writer waited, before another writer can lock again.
\* Nothing makes requests arrive, the cluster change or stopCh close, and
\* nothing makes a client read its answer: the server sets no write timeout.
Fairness ==
    /\ WF_vars(Refresh)
    /\ WF_vars(Tick)
    /\ \A r \in Requests : WF_vars(Handle(r)) /\ SF_vars(TakesReadLock(r))

FairSpec == Spec /\ Fairness

-----------------------------------------------------------------------------
(* Properties.                                                             *)

PCs == {"idle", "list", "fetch", "engines", "mesh", "lock", "record", "exited"}
Fetches == [state : {"lists", "getNs", "done"}, workloads : Nat]
Reports == [Duration : Nat, Engines : Seq([Name : Engines, ok : BOOLEAN])]
Evals == [ok : BOOLEAN, report : Reports, populated : BOOLEAN]
RequestRecords == [state : {"idle", "names", "graph", "walk", "built", "waiting", "locked",
                            "written"},
                   ptr : CacheIds \cup {NoCache}, left : 0..3, seen : SUBSET CacheIds]
GraphRecords == [want : SUBSET Ns, nodes : [Ns -> NSIndex], rules : [Engines -> Nat]]

EnvType == live \in SUBSET Ns /\ rev \in Nat /\ gnpOk \in BOOLEAN /\ faults \in Nat
BuildType ==
    /\ pc \in PCs /\ nss \in SUBSET Ns /\ fetch \in [Ns -> Fetches] /\ firstErr \in BOOLEAN
    /\ newCache \in CacheIds \cup {NoCache} /\ engine \in 1..4 /\ report \in Reports
ServerType == heap \in [CacheIds -> Cache] /\ cache \in CacheIds /\ serving \in BOOLEAN
MetricsType == gauges \in Cache /\ lastEval \in Evals
RequestType == req \in [Requests -> RequestRecords] /\ graphs \in [Requests -> GraphRecords]

\* Types of the state of the cluster, the loop, the heap and the handlers.
TypeOK == EnvType /\ BuildType /\ ServerType /\ MetricsType /\ RequestType

\* Handlers never see a cache PopulateCache had not finished: whatever failed,
\* s.cache is the initial empty cache or a whole one (RefreshAll swaps only on
\* success).
ServedCacheIsWhole == heap[cache] = EmptyCache \/ Whole(heap[cache])

\* "On success the new cache is immutable": no step writes to the object in
\* s.cache or to one a request still holds, so handleGraph may walk it with no
\* lock while any number of refresh cycles go by.
Held == {cache} \cup (Reachable(req) \ {NoCache})
PublishedIsImmutable ==
    [][\A id \in Held : id \in Held' => heap'[id] = heap[id]]_vars

\* The graph a handleGraph request has assembled so far comes from one cache,
\* however many swaps happened during its walk.
GraphIsOneSnapshot ==
    \A r \in Requests : req[r].state \in {"walk", "built"} =>
        /\ \A n \in Ns : graphs[r].nodes[n] \in {NoIndex, heap[req[r].ptr].NsIndex[n]}
        /\ req[r].state = "built" =>
              /\ graphs[r].rules = heap[req[r].ptr].EvaluationResults
              /\ heap[req[r].ptr] = EmptyCache \/ Whole(heap[req[r].ptr])

\* Nothing in a newly published cache was read before anything in the cache it
\* replaces, and its namespaces are exactly those listed at the start of the
\* cycle.
PublicationMovesForward ==
    [][cache' # cache => /\ NamespacesOf(heap[newCache]) = nss
                         /\ Newer(heap[newCache], heap[cache])]_vars

\* Between cycles the gauges describe the cache that is served: a failed cycle
\* touches neither, a successful one both.
GaugesMatchServedCache == pc = "idle" => gauges = heap[cache]

\* Clients read the answers written to them.  The code does not see to it, so
\* each property that needs it assumes it.
Writing(r) ==
    \/ req[r].state = "built"
    \/ req[r].state = "locked" /\ req[r].left = 0
ClientsRead == \A r \in Requests : Writing(r) ~> ~Writing(r)

\* Once the cluster stops changing with all policies decodable, and unless the
\* loop is stopped or a client stalls, the served cache converges to the
\* cluster: deletions and failures during earlier cycles leave no stale cache
\* behind.
CacheConverges ==
    ClientsRead /\ (<>[](gnpOk /\ pc # "exited")) =>
        <>[](NamespacesOf(heap[cache]) = live /\ heap[cache].MeshMembership = rev
             /\ \A n \in live : heap[cache].NsIndex[n].workloads = rev)

\* As long as clients read their answers, the writer is not starved by readers
\* that keep coming, and no request waits for ever, be it for the read lock
\* behind a waiting writer or for its own walk.
SwapNotStarved == ClientsRead => (pc = "lock") ~> (pc = "record")
RequestsAnswered ==
    ClientsRead => \A r \in Requests : (req[r].state # "idle") ~> (req[r].state = "idle")

\* What a request is being answered from: the cache it walks, or the one it has
\* seen under the lock.
Answering(r) ==
    IF req[r].state \in {"walk", "built"} THEN heap[req[r].ptr]
    ELSE IF req[r].seen # {} THEN heap[CHOOSE id \in req[r].seen : TRUE]
    ELSE NoCache

\* All the handlers can tell of the loop: requests are answered from immutable
\* whole snapshots, each newer than the one before (see SnapshotService).
Snapshots == INSTANCE SnapshotService WITH
    served <- heap[cache],
    answer <- [r \in Requests |-> Answering(r)]
ImplementsSnapshotService == Snapshots!Spec
=============================================================================
