---------------------------- MODULE MCExplorer ----------------------------
(***************************************************************************)
(* Two revisions of a cluster with two namespaces, four workloads (two of  *)
(* one name), an ipBlock and two engines.                                  *)
(***************************************************************************)
EXTENDS Explorer, TLC

web == WorkloadNode(<<"w", "web">>, "web", "a", "deployment", {"internet-full"})
webJob == WorkloadNode(<<"w", "web-job">>, "web", "a", "cronjob", {"air-gapped"})
db == WorkloadNode(<<"w", "db">>, "db", "b", "deployment", {"internet-full"})
wan == WorkloadNode(<<"cidr", "wan">>, "wan", "", "cidr", {})
nsA == WorkloadNode(NsId("a"), "a", "a", "namespace", {})
\* Appears in the second revision, in a namespace the store never hears of.
late == WorkloadNode(<<"w", "late">>, "late", "c", "deployment", {})

netpol == PolicyRef("k8s", "a", "netpol")
authz == PolicyRef("istio", "a", "authz")
global == PolicyRef("istio", "", "global")

Rule(src, dst, direction, ref, action, coverage) ==
    PolicyEdge(src, dst, direction, "workload", ref, action, coverage)

MCEdges == {
    Rule(web.id, db.id, "egress", netpol, 0, "restricted"),
    Rule(webJob.id, db.id, "egress", netpol, 0, "restricted"),
    Rule(web.id, wan.id, "egress", netpol, 0, ""),
    Rule(web.id, wan.id, "egress", netpol, 1, "except"),
    Rule(web.id, wan.id, "ingress", authz, 1, ""),
    Rule(web.id, db.id, "ingress", authz, 1, ""),
    Rule(db.id, web.id, "ingress", global, 0, "allow all"),
    Rule(db.id, db.id, "ingress", netpol, 0, "restricted"),
    Rule(NoId, db.id, "ingress", global, 1, "deny all"),
    PolicyEdge(nsA.id, NsId("b"), "both", "namespace", netpol, 0, "allow all ns")}

Conflict(engine) == Issue("policy conflict", "high", "blocked", engine, web, db, NoNode)

MCIssues == <<
    [Conflict("k8s") EXCEPT !.egressReason = "permitted", !.egressAllowed = {netpol},
                            !.ingressReason = "default-deny", !.ingressCulprits = {netpol}],
    [Conflict("istio") EXCEPT !.egressReason = "explicit-deny", !.egressCulprits = {authz},
                              !.ingressReason = "permitted", !.ingressAllowed = {global}],
    [Issue("policy conflict", "high", "blocked", "istio", db, db, NoNode) EXCEPT
        !.egressReason = "permitted", !.ingressReason = "locked-no-match",
        !.ingressCulprits = {global}],
    [Issue("layer", "info", "layer", "k8s", web, wan, NoNode) EXCEPT
        !.egressReason = "permitted", !.egressAllowed = {netpol}],
    [Issue("no dns", "warning", "no dns", "k8s", web, db, NoNode) EXCEPT
        !.egressReason = "permitted", !.egressCulprits = {netpol}],
    Issue("node lockout", "high", "locked", "k8s", NoNode, NoNode, webJob),
    [Issue("mesh policy", "info", "duplicate", "", NoNode, NoNode, web) EXCEPT
        !.culprits = {PolicyRef("pa", "a", "strict")}],
    Issue("failed to fetch", "high", "calico", "calico", NoNode, NoNode, NoNode)>>

MCMesh == (web.id :> [inMesh |-> TRUE, verdict |-> "strict"])
          @@ (db.id :> [inMesh |-> TRUE, verdict |-> "unset"])
          @@ (webJob.id :> [inMesh |-> FALSE, verdict |-> "unset"])

One == [nodes |-> {web, webJob, db, wan, nsA}, edges |-> MCEdges, issues |-> MCIssues,
           mesh |-> MCMesh, namespaces |-> {"a", "b"}, sources |-> {"k8s", "istio"}]

\* The job is gone; the findings still name it.
Two == [One EXCEPT
    !.nodes = {web, db, wan, nsA, late},
    !.edges = {e \in MCEdges : webJob.id \notin {e.source, e.target}}
              \cup {Rule(web.id, late.id, "egress", netpol, 0, "restricted")}]

MCWorld == <<One, Two>>

MCNames == {"web", "db", "wan", "late", "a", "b", "c"}
MCSearches == {{"db"}}
MCTapped == {web.id, NsId("b")}
MCClicks == {"namespace", "internet-full", "policy conflict", "mtls-strict"}
=============================================================================
