----------------------------- MODULE MCFindings -----------------------------
EXTENDS Findings

\* An enrolled namespace with a workload that stays out, one that is not
\* enrolled with a workload that joins, and Istio's own.
MCNamespaces == {"shop", "infra", "system"}
MCWorkloads == {"web", "db", "dns", "istiod"}
MCNsOf == [web |-> "shop", db |-> "shop", dns |-> "infra",
           istiod |-> "system"]
MCLabels == {"web", "db", "dns", "istiod", "ambient", "none",
             "name=shop", "name=infra", "name=system"}
MCPodLabels == [web |-> {"web"}, db |-> {"db", "none"}, dns |-> {"dns", "ambient"},
                istiod |-> {"istiod", "none"}]
MCNsLabels == [shop |-> {"name=shop", "ambient"}, infra |-> {"name=infra"},
               system |-> {"name=system"}]
MCNameLabel == [shop |-> "name=shop", infra |-> "name=infra", system |-> "name=system"]
MCComponentLabels == [system |-> {"istiod"}, gateway |-> {}]

MCCidrs == {"wan", "pods", "services", "lan"}
MCAddrsOf == [wan |-> {"p", "s", "l", "i"}, pods |-> {"p"}, services |-> {"s"}, lan |-> {"l"}]
MCAddrOf == [w \in MCWorkloads |-> "p"]
MCApiServerCidrs == {"services"}

Sel(labels) == [labels |-> labels, exprs |-> FALSE]
Pod(s) == [podSelector |-> s, namespaceSelector |-> Nil, ipBlock |-> Nil]
Ns(s) == [podSelector |-> Nil, namespaceSelector |-> s, ipBlock |-> Nil]
Both(s, t) == [podSelector |-> s, namespaceSelector |-> t, ipBlock |-> Nil]
Ip(c, except) ==
    [podSelector |-> Nil, namespaceSelector |-> Nil, ipBlock |-> [cidr |-> c, except |-> except]]
To(peers, ports) == {[peers |-> peers, ports |-> ports]}

Np(ns, selector, types, ingress, egress) ==
    [namespace |-> ns, podSelector |-> Sel(selector), policyTypes |-> types,
     ingress |-> ingress, egress |-> egress]

ToDns == {Both(Sel({"dns"}), Sel({"name=infra"}))}

MCNetPols ==
    {Np("shop", {"web"}, {"egress"}, {}, rs) :
        rs \in {To(ToDns, {53}), To(ToDns, {80}), To({Pod(Sel({"db"}))}, {80}),
                To(ToDns, {80}) \cup To({Ip("wan", {"pods"})}, {53})}}
    \cup {Np("shop", {}, {"egress"}, {}, rs) :
             rs \in {{}, To({}, {53}), To({Ns(Sel({"name=infra"}))}, {})}}
    \cup {Np("shop", {"db"}, {}, rs, {}) :
             rs \in {To({Pod(Sel({"web"}))}, {80}), To({Pod(Sel({"web"}))}, {15008})}}
    \cup {Np("shop", {"web"}, {}, To({Pod(Sel({"db"}))}, {}), {}), Np("infra", {}, {}, {}, {}),
          Np("infra", {"dns"}, {}, To({Both(Sel({"web"}), Sel({"name=shop"}))}, {}), {})}

All == [has |-> {}, lacks |-> {}]
Has(l) == [has |-> {l}, lacks |-> {}]
R(action, nets) == [action |-> action, nets |-> nets, notNets |-> {}, protocol |-> Nil,
                    sourcePorts |-> {}, destinationPorts |-> {}, unsupported |-> FALSE]
Gnp(selector, egress) ==
    [name |-> 1, tier |-> Nil, order |-> 1, selector |-> selector, nsSelector |-> Nil,
     types |-> {"egress"}, ingress |-> <<>>, egress |-> egress]
MCGlobalPols ==
    {Gnp(All, <<R("Deny", {})>>), Gnp(Has("web"), <<R("Allow", {"pods"}), R("Deny", {})>>)}
MCDNSLabels == Sel({"dns"})
MCTierRank == [default |-> 1]

Pa(ns, name, created, selector, ports, modes) ==
    {[namespace |-> ns, name |-> name, created |-> created, selector |-> selector,
      mode |-> m, ports |-> ports] : m \in modes}

\* One of each scope, two of one, one that is not for pods of its namespace alone.
MCPeerAuths ==
    Pa("system", 1, 1, Nil, {}, {"strict", "permissive"})
    \cup Pa("shop", 1, 1, Nil, {}, {"strict", "unset", "permissive"})
    \cup Pa("shop", 2, 2, Nil, {[port |-> 80, mode |-> "strict"]}, {"strict", "permissive"})
    \cup Pa("shop", 3, 1, Sel({"web"}), {}, {"permissive", "disable"})
    \cup Pa("system", 2, 1, Sel({"istiod"}), {}, {"strict"})

\* All but the one a workload of istio-system meets in two lists.
MCScopedPeerAuths == {p \in MCPeerAuths : p.namespace # "system" \/ p.selector = Nil}
=============================================================================
