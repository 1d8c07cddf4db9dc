---------------------------- MODULE MCGraphStore ----------------------------
EXTENDS GraphStore, TLC

CONSTANTS a, b

\* A workload edge each way, a namespace edge and a blanket rule.
MCEdges == {[source |-> a, target |-> b, level |-> "workload"],
            [source |-> b, target |-> a, level |-> "workload"],
            [source |-> a, target |-> None, level |-> "workload"],
            [source |-> a, target |-> b, level |-> "namespace"]}
\* The same kinds of edge in a graph of one workload.
LoopEdges == {[source |-> a, target |-> a, level |-> "workload"],
              [source |-> a, target |-> None, level |-> "workload"]}

\* Findings about two workloads, both ways round, or about one.
TwoEnds == {<<a, b>>, <<b, a>>}
OneEnd == {<<a, a>>}

\* One preset that names a namespace.
Narrow == [namespaces |-> {"shop"}]
OnePreset == {Narrow}

Symmetry == Permutations(Nodes)
=============================================================================
