--------------------------- MODULE MaintenanceWindow ---------------------------
(***************************************************************************)
(* What pkg/drainhelper promises the daemons that use it: at most one node *)
(* of the cluster is inside a maintenance window at any time, and a node   *)
(* is taken out of service only from inside its window.  A window that was *)
(* broken into (the node lost its lead while it was inside) no longer      *)
(* keeps the others out, until the node has left it.                       *)
(***************************************************************************)
CONSTANT Nodes

VARIABLES
  inside,    \* the nodes whose maintenance function may be running
  broken,    \* the nodes whose window was broken into
  cordoned   \* the nodes taken out of service

wvars == <<inside, broken, cordoned>>

Init ==
  /\ inside = {}
  /\ broken = {}
  /\ cordoned = [n \in Nodes |-> FALSE]

\* A node enters its window when no node is inside one that still is whole.
Enter(n) ==
  /\ inside \subseteq broken
  /\ inside' = inside \cup {n}
  /\ broken' = IF n \in inside THEN broken ELSE broken \ {n}
  /\ UNCHANGED cordoned

Break(n) ==
  /\ n \in inside
  /\ broken' = broken \cup {n}
  /\ UNCHANGED <<inside, cordoned>>

Cordon(n) ==
  /\ n \in inside
  /\ cordoned' = [cordoned EXCEPT ![n] = TRUE]
  /\ UNCHANGED <<inside, broken>>

\* A node may also be put back later, by its own daemon after a reboot.  In a
\* broken window this does not end the maintenance.
Uncordon(n) ==
  /\ inside' = inside \ {n} \/ (n \in broken /\ UNCHANGED inside)
  /\ cordoned' = [cordoned EXCEPT ![n] = FALSE]
  /\ UNCHANGED broken

\* The window closes with the node in service or, for a reboot or after a
\* failure, still out of it.
Leave(n) ==
  /\ inside' = inside \ {n}
  /\ broken' \in {broken, broken \ {n}}
  /\ UNCHANGED cordoned

Next == \E n \in Nodes : Enter(n) \/ Break(n) \/ Cordon(n) \/ Uncordon(n) \/ Leave(n)

Spec == Init /\ [][Next]_wvars
=============================================================================
