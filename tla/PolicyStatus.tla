---------------------------- MODULE PolicyStatus ----------------------------
(***************************************************************************)
(* How the engines' status digests of one workload are combined and turned  *)
(* into badges (internal/policy/statusKeys.go).                             *)
(***************************************************************************)

\* The zero PolicyStatus: an engine with no policy for the workload.
NoStatus ==
    [ingressLocked |-> FALSE, egressLocked |-> FALSE, crossNs |-> FALSE,
     internetEgress |-> FALSE, internetIngress |-> FALSE, apiServerEgress |-> FALSE,
     lanEgress |-> FALSE, lanIngress |-> FALSE, innerNsEgress |-> FALSE,
     innerNsIngress |-> FALSE, hasL7 |-> FALSE]

\* An engine that does not lock a direction lets everything through there.
effectivePolicyStatus(raw) ==
    [raw EXCEPT !.internetEgress  = ~raw.egressLocked \/ @,
                !.internetIngress = ~raw.ingressLocked \/ @,
                !.lanEgress       = ~raw.egressLocked \/ @,
                !.lanIngress      = ~raw.ingressLocked \/ @,
                !.innerNsEgress   = ~raw.egressLocked \/ @,
                !.innerNsIngress  = ~raw.ingressLocked \/ @,
                !.apiServerEgress = ~raw.egressLocked \/ @,
                !.crossNs         = (~raw.egressLocked /\ ~raw.ingressLocked) \/ @]

\* Mutant: the access of any engine.
IntersectAnyAccess(perEngine) ==
    [field \in DOMAIN NoStatus |-> \E e \in DOMAIN perEngine : perEngine[e][field]]

\* perEngine: engine -> its status.  An engine with nothing to say is left out;
\* a single one is taken as it is; of several, the locks and the L7 flag of any
\* and the access of all.
IntersectPolicyStatus(perEngine) ==
    LET filtered == {e \in DOMAIN perEngine : perEngine[e] # NoStatus}
    IN  CASE filtered = {} -> NoStatus
          [] \E e \in filtered : filtered = {e} -> perEngine[CHOOSE e \in filtered : TRUE]
          [] OTHER -> [field \in DOMAIN NoStatus |->
                          IF field \in {"ingressLocked", "egressLocked", "hasL7"}
                          THEN \E e \in filtered : perEngine[e][field]
                          ELSE \A e \in filtered : effectivePolicyStatus(perEngine[e])[field]]

\* A badge for both directions, else for the one that has it.
Badges(egress, ingress, full, out, in) ==
    IF egress /\ ingress THEN {full}
    ELSE {b \in {out, in} : (b = out /\ egress) \/ (b = in /\ ingress)}

HasEscapeHatch(status) ==
    \/ status.internetEgress \/ status.internetIngress
    \/ status.lanEgress      \/ status.lanIngress
    \/ status.apiServerEgress

DeriveStatusKeys(status) ==
    UNION {Badges(~status.egressLocked \/ status.internetEgress,
                  ~status.ingressLocked \/ status.internetIngress,
                  "internet-full", "internet-egress", "internet-ingress"),
           Badges(status.lanEgress, status.lanIngress,
                  "lan-full", "lan-egress", "lan-ingress"),
           Badges(status.innerNsEgress, status.innerNsIngress,
                  "namespace-full", "namespace-egress", "namespace-ingress"),
           {b \in {"api-server-egress"} : status.apiServerEgress},
           {b \in {"air-gapped"} : /\ status.egressLocked /\ status.ingressLocked
                                   /\ ~HasEscapeHatch(status)},
           {b \in {"cross-namespace"} : status.crossNs},
           {b \in {"l7-applied"} : status.hasL7}}
=============================================================================
