------------------------ MODULE MCClusterConfigManager ------------------------
(* Instances of ClusterConfigManager for TLC. *)
EXTENDS ClusterConfigManager

CONSTANTS n1, n2, n3, c1, c2, l1, p1, p2, p3, intel, id1, v1, v2

Card(pci, class) == [vendor |-> intel, pci |-> pci, id |-> id1, class |-> class, subclass |-> 0]

\* Network controllers of class 2, in the first node two; all nodes have another
\* card with the same id, the third nothing else.
MCBus == [n \in Nodes |-> CASE n = n1 -> {Card(p1, 2), Card(p2, 2), Card(p3, 12)}
                             [] n = n2 -> {Card(p1, 2), Card(p3, 12)}
                             [] OTHER -> {Card(p3, 12)}]
MCSupported == {[vendor |-> intel, class |-> 2, subclass |-> 0, id |-> id1]}
MCNodeLabels == [n \in Nodes |-> IF n = n1 THEN {l1} ELSE {}]

For(nodes, pci, ddp, fw, priority) ==
  [nodes |-> nodes, devices |-> [vendor |-> None, pci |-> pci, id |-> None],
   config |-> [ddp |-> ddp, fw |-> fw], priority |-> priority]

\* All devices; the first device; the labelled node, with a higher priority.
MCSpecs == {For({}, None, v1, v1, 0), For({}, p1, v2, None, 0), For({l1}, None, None, v2, 1)}
=============================================================================
