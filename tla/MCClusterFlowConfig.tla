-------------------------- MODULE MCClusterFlowConfig --------------------------
(* ClusterFlowConfig on two objects, two nodes and two pods. *)
EXTENDS ClusterFlowConfig

CONSTANTS a, eth, v1, v2, n1, n2, c1, c2, p1, p2, u

MCRuleIds == {1, 2, 3}

SelA == [match |-> {a}, none |-> {}]
SelB == [match |-> {}, none |-> {a}]

SpecA1 == [sel |-> SelA, rules |-> {[id |-> 1, if |-> eth]}]
SpecA2 == [sel |-> SelA, rules |-> {[id |-> 2, if |-> eth], [id |-> 2, if |-> None]}]
SpecA3 == [sel |-> SelA, rules |-> {[id |-> 1, if |-> eth], [id |-> 2, if |-> None]}]
SpecB == [sel |-> SelB, rules |-> {[id |-> 3, if |-> eth]}]

\* The objects may have one selector or two, and share a rule or not.
MCSpecs == [c \in Configs |-> IF c = c1 THEN {SpecA1, SpecA2} ELSE {SpecA3, SpecB}]

PodOf(ph, n, ls, v) == [phase |-> ph, node |-> n, labels |-> ls, addr |-> [i \in {eth} |-> v]]

MCPodStates ==
  {PodOf("Pending", None, {a}, None), PodOf("Running", n1, {a}, None),
   PodOf("Running", n1, {a}, v1), PodOf("Running", n1, {}, v1),
   PodOf("Running", n2, {a}, v2), PodOf("Succeeded", n1, {a}, v1),
   PodOf("Succeeded", n1, {}, v1)}

MCInitConfigs == {[c \in Configs |-> IF c = c1 THEN SpecA2 ELSE s] : s \in {None, SpecB}}

\* One pod runs already, the other is about to.
MCInitPods ==
  {[p \in Pods |-> IF p = p1 THEN PodOf("Running", n1, {a}, v1)
                   ELSE PodOf("Pending", None, {a}, None)]}
=============================================================================
