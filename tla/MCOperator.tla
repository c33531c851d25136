-------------------------------- MODULE MCOperator --------------------------------
(* A small operator: replicas, assets and node agents for TLC. *)
EXTENDS Operator

CONSTANTS r1, r2, labeler, daemon, account, labelerSet, daemonSet, x, y, n1, n2, p1, p2, a1, a2

MCReplicas == {r1, r2}
MCAssets == <<labeler, daemon>>
MCObjects == {account, labelerSet, daemonSet}
MCObjectsOf == [a \in {labeler, daemon} |-> IF a = labeler THEN {account, labelerSet} ELSE {daemonSet}]
MCBlocking == {daemonSet}
MCContents == {{x}, {x, y}}

MapOf(objects) == [data |-> objects, immutable |-> FALSE]
LabelerData(c) == [o \in {labelerSet} |-> c]
AccountData(c) == [o \in {account, labelerSet} |-> IF o = account THEN {x} ELSE c]
DaemonData(c) == [o \in {daemonSet} |-> c]
MCFileContent == [a \in {labeler, daemon} |-> IF a = labeler THEN LabelerData({x, y}) ELSE DaemonData({x})]

\* Nothing yet; what an earlier version has left, which had one object more in
\* the labeler's ConfigMap, there a field less or nothing else that differs, and a
\* field more in the daemon's, one object missing; and an operator that runs.
NoObjects == [o \in MCObjects |-> NoObject]
ObjectsWith(l, d) ==
  [o \in MCObjects |-> [data |-> IF o = labelerSet THEN l ELSE IF o = daemonSet THEN d ELSE {x},
                        unavailable |-> FALSE]]
Maps(l, d) == [a \in {labeler, daemon} |-> MapOf(IF a = labeler THEN l ELSE d)]
Fresh == [maps |-> [a \in {labeler, daemon} |-> NoObject], objs |-> NoObjects,
          leader |-> NoReplica, exits |-> 1, pins |-> 1]
Upgrade(l) == [maps |-> Maps(AccountData(l), DaemonData({x, y})),
               objs |-> [ObjectsWith(l, {x, y}) EXCEPT ![account] = NoObject],
               leader |-> NoReplica, exits |-> 1, pins |-> 0]
Running(e) == [maps |-> Maps(LabelerData({x, y}), DaemonData({x})), objs |-> ObjectsWith({x, y}, {x}),
               leader |-> r1, exits |-> e, pins |-> 0]
MCAssetStarts == {Fresh, Upgrade({x}), Upgrade({x, y}), Running(0), Running(1)}
MCStarts == {[assets |-> Fresh, edits |-> 0, faults |-> 0],
             [assets |-> Upgrade({x}), edits |-> 0, faults |-> 0],
             [assets |-> Upgrade({x, y}), edits |-> 0, faults |-> 0],
             [assets |-> Running(0), edits |-> 3, faults |-> 1],
             [assets |-> Running(0), edits |-> 4, faults |-> 0],
             [assets |-> Running(1), edits |-> 2, faults |-> 0]}

MCNodes == {n1, n2}
MCPools == {p1, p2}
MCNads == {a1, a2}
MCSpecs == {[pool |-> p1, nad |-> a1], [pool |-> p1, nad |-> a2],
            [pool |-> p2, nad |-> a1], [pool |-> p1, nad |-> None]}
MCCapacities == {[p \in {p1, p2} |-> 1], [p \in {p1, p2} |-> IF p = p1 THEN 2 ELSE 1],
                 [p \in {p1, p2} |-> IF p = p1 THEN 0 ELSE 2]}
MCInitNodes == {[n \in {n1, n2} |-> IF n = n1 THEN [p \in {p1, p2} |-> 1] ELSE None]}
===================================================================================
