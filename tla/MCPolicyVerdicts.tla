-------------------------- MODULE MCPolicyVerdicts --------------------------
EXTENDS GlobalVerdicts

\* Two workloads of one namespace and one of another; the label db is on both
\* sides, and nobody is labelled ghost.
MCNamespaces == {"shop", "infra"}
MCWorkloads == {"web", "db", "dns"}
MCNsOf == [web |-> "shop", db |-> "shop", dns |-> "infra"]
MCLabels == {"web", "db", "ghost", "name=shop", "name=infra", "team"}
MCPodLabels == [web |-> {"web"}, db |-> {"db"}, dns |-> {"db"}]
MCNsLabels == [shop |-> {"name=shop", "team"}, infra |-> {"name=infra"}]
MCNameLabel == [shop |-> "name=shop", infra |-> "name=infra"]

\* Pods, services, a private network and the rest of the internet.
MCCidrs == {"wan", "private", "pods", "services", "lan"}
MCAddrsOf == [wan |-> {"p", "s", "l", "i"}, private |-> {"p", "s", "l"}, pods |-> {"p"},
              services |-> {"s"}, lan |-> {"l"}]
MCAddrOf == [w \in MCWorkloads |-> "p"]

Sel(labels) == [labels |-> labels, exprs |-> FALSE]
SelExprs == [labels |-> {}, exprs |-> TRUE]

Pod(s) == [podSelector |-> s, namespaceSelector |-> Nil, ipBlock |-> Nil]
Ns(s) == [podSelector |-> Nil, namespaceSelector |-> s, ipBlock |-> Nil]
Both(s, t) == [podSelector |-> s, namespaceSelector |-> t, ipBlock |-> Nil]
Ip(c, except) == [podSelector |-> Nil, namespaceSelector |-> Nil,
                  ipBlock |-> [cidr |-> c, except |-> except]]

To(peers, ports) == [peers |-> peers, ports |-> ports]

Peers ==
    {Pod(Sel({})), Pod(Sel({"web"})), Pod(Sel({"ghost"})),
     Ns(Sel({"name=infra"})), Ns(Sel({"name=shop"})), Ns(Sel({})),
     Both(Sel({"db"}), Sel({"name=infra"})), Both(Sel({"db"}), Sel({})),
     Ip("wan", {}), Ip("wan", {"lan"}), Ip("wan", {"pods"}), Ip("private", {"lan"}), Ip("lan", {})}

\* The rules of a direction: none, one for everybody, one peer, and rules that
\* differ in their ports or share one.
RuleSets ==
    {{}, {To({}, {})}, {To({}, {80})},
     {To({Pod(Sel({"web"}))}, {80}), To({Pod(Sel({}))}, {53})},
     {To({Ip("wan", {"lan"}), Ip("lan", {})}, {})},
     {To({Ip("wan", {"pods"}), Pod(Sel({"db"}))}, {})}}
    \cup {{To({peer}, {})} : peer \in Peers}

Shop(selector, types, ingress, egress) ==
    [namespace |-> "shop", podSelector |-> selector, policyTypes |-> types,
     ingress |-> ingress, egress |-> egress]

ShopPolicies ==
    {Shop(s, {}, rs, {}) : s \in {Sel({}), Sel({"web"}), Sel({"db"})}, rs \in RuleSets}
    \cup {Shop(s, {"egress"}, {}, rs) : s \in {Sel({}), Sel({"web"}), Sel({"db"})}, rs \in RuleSets}
    \cup {Shop(s, {"ingress", "egress"}, {To({Pod(Sel({}))}, {})}, rs) :
             s \in {Sel({}), Sel({"web"})}, rs \in {{}, {To({Ip("wan", {})}, {})}}}
    \cup {Shop(Sel({"web"}), {"egress"}, {To({Pod(Sel({"db"}))}, {})}, {}),
          Shop(SelExprs, {"ingress"}, {}, {}),
          Shop(Sel({"team"}), {"ingress"}, {}, {})}

InfraPolicies ==
    {[Shop(Sel({}), types, rs, {}) EXCEPT !.namespace = "infra"] :
        types \in {{}, {"ingress", "egress"}}, rs \in {{}, {To({Pod(Sel({"db"}))}, {})}}}

MCNetPols == ShopPolicies \cup InfraPolicies

All == [has |-> {}, lacks |-> {}]
Has(l) == [has |-> {l}, lacks |-> {}]
Lacks(l) == [has |-> {}, lacks |-> {l}]

\* An egress rule, for TCP to the ports of its peer if it names any.
R(action, nets, notNets, ports) ==
    [action |-> action, nets |-> nets, notNets |-> notNets,
     protocol |-> IF ports = {} THEN Nil ELSE "TCP", sourcePorts |-> {}, destinationPorts |-> ports,
     unsupported |-> FALSE]

LogOnly == [R("Log", {}, {}, {}) EXCEPT !.unsupported = TRUE]

DenyAll == R("Deny", {}, {}, {})
AllowAll == R("Allow", {}, {}, {})

RuleLists ==
    {<<>>, <<AllowAll>>, <<DenyAll>>,
     <<R("Allow", {"pods"}, {}, {}), DenyAll>>,
     <<R("Allow", {"pods", "lan"}, {}, {80})>>,
     <<R("Deny", {"lan"}, {}, {}), AllowAll>>,
     <<R("Allow", {"private"}, {"lan"}, {}), R("Deny", {"lan"}, {}, {})>>,
     <<R("Deny", {}, {"pods"}, {}), AllowAll>>,
     <<R("Pass", {"pods"}, {}, {}), AllowAll>>,
     <<R("Allow", {}, {}, {80}), R("Deny", {"pods"}, {}, {})>>,
     <<LogOnly, R("Allow", {"private"}, {}, {}), DenyAll>>}

Gnp(name, order, selector, egress) ==
    [name |-> name, tier |-> Nil, order |-> order, selector |-> selector, nsSelector |-> Nil,
     types |-> {"egress"}, ingress |-> <<>>, egress |-> egress]

\* The same rules on the ports of the peers of ingress, and on the workload's own.
Flip(r) == [r EXCEPT !.sourcePorts = r.destinationPorts, !.destinationPorts = r.sourcePorts]
In(p) == [p EXCEPT !.types = {}, !.ingress = [i \in DOMAIN p.egress |-> Flip(p.egress[i])],
                   !.egress = <<>>]
InOwn(p) == [p EXCEPT !.types = {}, !.ingress = p.egress, !.egress = <<>>]

\* Two names whose order is not that of their orders.
MCGlobalPols ==
    {Gnp(1, 2, s, rs) : s \in {All, Lacks("web")}, rs \in RuleLists}
    \cup {Gnp(2, o, s, rs) : o \in {1, Nil}, s \in {All, Has("web")}, rs \in RuleLists}
    \cup {In(Gnp(1, 2, All, rs)) : rs \in RuleLists}
    \cup {[Gnp(2, 1, All, <<DenyAll>>) EXCEPT !.nsSelector = Has("team")],
          [Gnp(2, 1, All, <<AllowAll>>) EXCEPT !.tier = "security"],
          [Gnp(2, 1, All, <<DenyAll>>) EXCEPT !.types = {"ingress"}],
          InOwn(Gnp(2, 1, All, <<R("Deny", {}, {}, {80}), AllowAll>>)),
          Gnp(2, 1, All, <<[R("Deny", {"pods"}, {}, {80}) EXCEPT !.sourcePorts = {80}], AllowAll>>),
          Gnp(2, 1, All, <<[DenyAll EXCEPT !.protocol = "UDP"], AllowAll>>),
          Gnp(2, 1, All, <<[R("Deny", {"pods"}, {}, {80}) EXCEPT !.protocol = Nil]>>),
          [Gnp(2, 1, All, <<AllowAll>>) EXCEPT !.egress[1].unsupported = TRUE]}
MCTierRank == [default |-> 1, security |-> 2]
MCApiServerCidrs == {"services"}
=============================================================================
