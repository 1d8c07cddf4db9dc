----------------------------- MODULE CacheData -----------------------------
(***************************************************************************)
(* models.Cache and the operations on it.  Data is abstracted to the       *)
(* informer revision it was read at; 0 stands for "not there".             *)
(***************************************************************************)
EXTENDS Integers

CONSTANT Ns   \* namespaces the cluster may have

sources == <<"k8s", "istio", "calico">>
Engines == {"k8s", "istio", "calico"}

NSIndex == [workloads : Nat, nsNode : Nat]
NoIndex == [workloads |-> 0, nsNode |-> 0]
NotRun == [e \in Engines |-> 0]

Cache == [NsIndex : [Ns -> NSIndex], EvaluationResults : [Engines -> Nat],
          Statuses : [Engines -> Nat],
          WorkloadByID : [ns : [Ns -> NSIndex], nodes : [Engines -> Nat],
                          statuses : [Engines -> Nat]],
          MeshMembership : Nat, MtlsUnknown : BOOLEAN]

EmptyCache ==
    [NsIndex |-> [n \in Ns |-> NoIndex], EvaluationResults |-> NotRun,
     Statuses |-> NotRun,
     WorkloadByID |-> [ns |-> [n \in Ns |-> NoIndex], nodes |-> NotRun,
                       statuses |-> NotRun],
     MeshMembership |-> 0, MtlsUnknown |-> FALSE]

NamespacesOf(c) == {n \in Ns : c.NsIndex[n] # NoIndex}

\* WorkloadByID holds copies, so it goes stale with any later write.
RebuildWorkloadIndex(c) ==
    [c EXCEPT !.WorkloadByID = [ns |-> c.NsIndex, nodes |-> c.EvaluationResults,
                                statuses |-> c.Statuses]]

\* Broken variant: WorkloadByID keeps its copies of the unstamped workloads.
stampStatusesNoRebuild(c) == [c EXCEPT !.Statuses = c.EvaluationResults]

stampStatuses(c) ==
    RebuildWorkloadIndex([c EXCEPT !.Statuses = c.EvaluationResults])

\* A cache that went through every phase of PopulateCache: all engines ran on
\* it, the statuses are those engines', WorkloadByID was rebuilt after the last
\* write, the mesh was resolved, and no namespace is half fetched.
Whole(c) ==
    /\ \A e \in Engines : c.EvaluationResults[e] > 0
    /\ c.Statuses = c.EvaluationResults
    /\ c = RebuildWorkloadIndex(c)
    /\ c.MeshMembership > 0
    /\ \A n \in Ns : (c.NsIndex[n].workloads > 0) <=> (c.NsIndex[n].nsNode > 0)

\* Nothing in new was read before anything in old: the mesh is read last, the
\* workloads are read first.
Newer(new, old) ==
    \A n \in NamespacesOf(new) : new.NsIndex[n].workloads >= old.MeshMembership
=============================================================================
