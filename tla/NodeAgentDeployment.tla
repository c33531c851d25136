-------------------------- MODULE NodeAgentDeployment --------------------------
(***************************************************************************)
(* controllers/flowconfig/flowconfignodeagentdeployment_controller.go: the *)
(* controller in the operator that keeps one flowconfig-daemon pod on      *)
(* every node that has VFs of the pool that the object names, with all of  *)
(* these VFs and as many copies of the network annotation.                 *)
(*                                                                         *)
(* One object is modelled.  The controller remembers what the last         *)
(* Reconcile read (old) and shares the limits of its pod template with     *)
(* every pod it makes (tmpl).                                              *)
(***************************************************************************)
EXTENDS Naturals, FiniteSets

CONSTANTS
  Nodes,      \* node names
  Pools,      \* VF pools: resource names
  Nads,       \* network annotations
  MaxVFs,     \* VFs of a pool on a node
  None,       \* no object, no node, no pod, an empty name
  Specs,      \* the specs users give the object
  Capacities, \* the capacities of nodes
  InitNodes   \* the nodes, and their capacities, that there may be at first

Quantity == 0..MaxVFs
AgentSpec == [pool : Pools, nad : Nads \cup {None}]
Capacity == [Pools -> Quantity]

ASSUME NamesAssumption == None \notin Pools \cup Nads \cup Nodes
ASSUME SpecsAssumption == Specs \subseteq AgentSpec /\ None \notin AgentSpec
ASSUME CapacitiesAssumption == Capacities \subseteq Capacity /\ None \notin Capacity
ASSUME InitAssumption == InitNodes \subseteq [Nodes -> Capacities \cup {None}]
ASSUME VFsAssumption == MaxVFs \in Nat

VARIABLES
  cr,      \* the spec of the object, or None
  owned,   \* the object has its owner reference (to the operator)
  cap,     \* status.capacity of every node, None for a node that is not there
  podOf,   \* the pod of every node, or None
  queue,   \* a request waits
  later,   \* a RequeueAfter (30 seconds) is running
  rec,     \* the variables of Reconcile
  old,     \* oldDCFVfPoolName and oldNADAnnotation
  tmpl,    \* limits of the uft container in the template, 0 where not set
  missed,  \* an event was filtered out that mattered (for the properties)
  failed,  \* a failure has happened that is only logged (for the properties)
  edits, faults  \* what is left of the bounds

outside == <<cr, owned, cap>>
memory == <<queue, later, rec, old, tmpl>>
bounds == <<missed, failed, edits, faults>>
agentVars == <<outside, podOf, memory, bounds>>

\* A pod: its limits, its annotation (nad, as often as count says), whether the
\* object it was made for is gone and whether it is being deleted.  for is the
\* pool that it was made for.
Pod == [limits : Capacity, nad : Nads, count : Quantity, for : Pools,
        orphan : BOOLEAN, dying : BOOLEAN]

ASSUME PodsAssumption == None \notin Pod

NoOld == [pool |-> None, nad |-> None]
NoLimits == [p \in Pools |-> 0]
Idle == [pc |-> "idle", cr |-> None, orphan |-> FALSE, nodes |-> <<>>, deleted |-> FALSE]

AgentTypeOK ==
  /\ cr \in AgentSpec \cup {None} /\ owned \in BOOLEAN
  /\ cap \in [Nodes -> Capacity \cup {None}]
  /\ podOf \in [Nodes -> Pod \cup {None}]
  /\ \A n \in Nodes : podOf[n] # None => podOf[n].count = podOf[n].limits[podOf[n].for]
  /\ queue \in BOOLEAN /\ later \in BOOLEAN
  /\ rec.pc \in {"idle", "list", "nodes"} /\ rec.cr \in AgentSpec \cup {None}
  /\ DOMAIN rec.nodes \subseteq Nodes /\ \A n \in DOMAIN rec.nodes : rec.nodes[n] \in Capacity
  /\ old \in [pool : Pools \cup {None}, nad : Nads \cup {None}]
  /\ tmpl \in Capacity
  /\ missed \in BOOLEAN /\ failed \in BOOLEAN /\ edits \in Nat /\ faults \in Nat

\* Two bounds: changes of the object, of nodes and of pods, and failures.
AgentInit(maxEdits, maxFaults) ==
  /\ cr = None /\ owned = FALSE
  /\ cap \in InitNodes
  /\ podOf = [n \in Nodes |-> None]
  /\ queue = FALSE /\ later = FALSE
  /\ rec = Idle
  /\ old = NoOld
  /\ tmpl = NoLimits
  /\ missed = FALSE /\ failed = FALSE
  /\ edits = maxEdits /\ faults = maxFaults

\* A failure; some are only logged.
Fault(logged) ==
  /\ faults > 0 /\ faults' = faults - 1
  /\ failed' = (failed \/ logged)
  /\ UNCHANGED <<missed, edits>>

-----------------------------------------------------------------------------
(* Reconcile *)

\* An object without an owner reference gets one: this Update is an event again.
setInstanceOwner ==
  /\ owned' = (cr # None)
  /\ queue' = (cr # None /\ ~owned)

\* The Get, setInstanceOwner and the check of the annotation.  An object that is gone needs nothing: its pods are collected.
ReconcileGet ==
  /\ rec.pc = "idle" /\ queue
  /\ setInstanceOwner
  /\ later' = (later \/ (cr # None /\ cr.nad = None))
  /\ rec' = IF cr # None /\ cr.nad # None THEN [Idle EXCEPT !.pc = "list", !.cr = cr] ELSE Idle
  /\ UNCHANGED <<cr, cap, podOf, old, tmpl, bounds>>

There(f) == {x \in DOMAIN f : f[x] # None}

\* Faulty: what is read is remembered before the pods are looked at.
ListNodesAndRemember ==
  /\ rec.pc = "list"
  /\ rec' = [rec EXCEPT !.pc = "nodes", !.nodes = [n \in There(cap) |-> cap[n]]]
  /\ old' = [pool |-> rec.cr.pool, nad |-> rec.cr.nad]
  /\ UNCHANGED <<outside, podOf, queue, later, tmpl, bounds>>

ListNodes ==
  /\ rec.pc = "list"
  /\ rec' = [rec EXCEPT !.pc = "nodes", !.nodes = [n \in There(cap) |-> cap[n]]]
  /\ UNCHANGED <<outside, podOf, queue, later, old, tmpl, bounds>>

\* The object or the nodes are not to be had: the request comes back.
ReadFails ==
  /\ rec.pc = "list"
  /\ Fault(FALSE)
  /\ rec' = Idle
  /\ queue' = TRUE
  /\ UNCHANGED <<outside, podOf, later, old, tmpl>>

Drop(f, x) == [y \in DOMAIN f \ {x} |-> f[y]]

\* VFs of the pool that the object names: on the node, and in the pod's limits.
getNodeResources(n) == rec.nodes[n][rec.cr.pool]
getPodResources(n) == podOf[n].limits[rec.cr.pool]

NextNode(n, deleted) ==
  rec' = [rec EXCEPT !.nodes = Drop(@, n), !.deleted = @ \/ deleted]

\* addAnnotations and addResources: the limits go into a map that the pod and
\* the template share.
NewPod(limits, n) ==
  [limits |-> limits, nad |-> rec.cr.nad, count |-> getNodeResources(n),
   for |-> rec.cr.pool, orphan |-> rec.orphan, dying |-> FALSE]

\* No pod on the node: CreatePod, if the node has VFs of the pool.
CreatePod(n) ==
  LET qty == getNodeResources(n)
      limits == [tmpl EXCEPT ![rec.cr.pool] = qty]
  IN /\ rec.pc = "nodes" /\ n \in DOMAIN rec.nodes /\ podOf[n] = None
     /\ IF qty = 0 THEN UNCHANGED <<tmpl, podOf>>
        ELSE tmpl' = limits /\ podOf' = [podOf EXCEPT ![n] = NewPod(limits, n)]
     /\ NextNode(n, FALSE)
     /\ UNCHANGED <<outside, queue, later, old, bounds>>

\* The Create fails, after the template was changed; or the Get fails.
CreateFails(n) ==
  LET qty == getNodeResources(n)
  IN /\ rec.pc = "nodes" /\ n \in DOMAIN rec.nodes /\ podOf[n] = None /\ qty # 0
     /\ Fault(TRUE)
     /\ tmpl' = [tmpl EXCEPT ![rec.cr.pool] = qty]
     /\ NextNode(n, FALSE)
     /\ UNCHANGED <<outside, podOf, queue, later, old>>

GetPodFails(n) ==
  /\ rec.pc = "nodes" /\ n \in DOMAIN rec.nodes
  /\ Fault(TRUE)
  /\ NextNode(n, FALSE)
  /\ UNCHANGED <<outside, podOf, queue, later, old, tmpl>>

\* Faulty: only a change of the object counts.
OutdatedByObjectOnly(n) ==
  /\ old.pool # rec.cr.pool \/ old.nad # rec.cr.nad
  /\ old.pool # None /\ podOf[n].limits[old.pool] # 0

\* The pod does not fit: the object changed since the last Reconcile (and the
\* pod has limits of the pool it had then), or the node's VFs did.
Outdated(n) ==
  IF old.pool # rec.cr.pool \/ old.nad # rec.cr.nad
    THEN old.pool # None /\ podOf[n].limits[old.pool] # 0
    ELSE getNodeResources(n) # getPodResources(n)

\* Made for what this Reconcile has read.
MadeForThis(n) ==
  /\ podOf[n].for = rec.cr.pool /\ podOf[n].nad = rec.cr.nad
  /\ getPodResources(n) = getNodeResources(n)

\* The first Reconcile of a process has no old values and keeps every pod; one
\* that does not fit is missed.
KeepPod(n) ==
  /\ rec.pc = "nodes" /\ n \in DOMAIN rec.nodes /\ podOf[n] # None /\ ~Outdated(n)
  /\ NextNode(n, FALSE)
  /\ missed' = (missed \/ (old = NoOld /\ ~MadeForThis(n)))
  /\ UNCHANGED <<outside, podOf, queue, later, old, tmpl, failed, edits, faults>>

\* The deletion of a pod takes its time; it is made anew by a later Reconcile.
DeletePod(n) ==
  /\ rec.pc = "nodes" /\ n \in DOMAIN rec.nodes /\ podOf[n] # None /\ Outdated(n)
  /\ podOf' = [podOf EXCEPT ![n].dying = TRUE]
  /\ NextNode(n, TRUE)
  /\ UNCHANGED <<outside, queue, later, old, tmpl, bounds>>

DeleteFails(n) ==
  /\ rec.pc = "nodes" /\ n \in DOMAIN rec.nodes /\ podOf[n] # None /\ Outdated(n)
  /\ Fault(TRUE)
  /\ NextNode(n, TRUE)
  /\ UNCHANGED <<outside, podOf, queue, later, old, tmpl>>

\* Faulty: the annotation is not remembered.
ReconcileEndsWithoutNad ==
  /\ rec.pc = "nodes" /\ rec.nodes = <<>>
  /\ old' = [old EXCEPT !.pool = rec.cr.pool, !.nad = IF @ = None THEN rec.cr.nad ELSE @]
  /\ queue' = (queue \/ rec.deleted)
  /\ rec' = Idle
  /\ UNCHANGED <<outside, podOf, later, tmpl, bounds>>

\* What was read is remembered; pods that were deleted bring the request back.
ReconcileEnds ==
  /\ rec.pc = "nodes" /\ rec.nodes = <<>>
  /\ old' = [pool |-> rec.cr.pool, nad |-> rec.cr.nad]
  /\ queue' = (queue \/ rec.deleted)
  /\ rec' = Idle
  /\ UNCHANGED <<outside, podOf, later, tmpl, bounds>>

\* The 30 seconds are over.
RequeueFires ==
  /\ later /\ later' = FALSE
  /\ queue' = TRUE
  /\ UNCHANGED <<outside, podOf, rec, old, tmpl, bounds>>

\* Every ten hours the informer sends an Update event for the object.
Resync ==
  /\ rec = Idle /\ ~queue /\ cr # None
  /\ queue' = TRUE
  /\ UNCHANGED <<outside, podOf, later, rec, old, tmpl, bounds>>

-----------------------------------------------------------------------------
(* Everybody else *)

Edit == edits > 0 /\ edits' = edits - 1 /\ UNCHANGED <<failed, faults>>

\* The object is created, changed or deleted: all of these events count.
WriteObject(s) ==
  /\ Edit /\ cr # s
  /\ cr' = s
  /\ owned' = (owned /\ s # None)
  /\ queue' = TRUE
  /\ podOf' = [n \in Nodes |-> IF podOf[n] # None /\ s = None
                               THEN [podOf[n] EXCEPT !.orphan = TRUE] ELSE podOf[n]]
  /\ rec' = [rec EXCEPT !.orphan = @ \/ (rec # Idle /\ s = None)]
  /\ UNCHANGED <<cap, later, old, tmpl, missed>>

\* getNodeFilterPredicates: an Update of a node counts if its VFs of the old pool
\* changed, whatever pool the object names and Reconcile is reading now.
NodeUpdateCounts(n, c) == old.pool # None /\ c[old.pool] # cap[n][old.pool]

ChangeNode(n, c) ==
  /\ Edit /\ cap[n] # None /\ c # None /\ cap[n] # c
  /\ cap' = [cap EXCEPT ![n] = c]
  /\ queue' = (queue \/ (cr # None /\ NodeUpdateCounts(n, c)))
  /\ missed' = (missed \/
                (~NodeUpdateCounts(n, c) /\ rec.pc = "nodes" /\ c[rec.cr.pool] # cap[n][rec.cr.pool]))
  /\ UNCHANGED <<cr, owned, podOf, later, rec, old, tmpl>>

\* A node that comes back to the pod it had, when the pod is of an earlier spec
\* than the last one the controller went through its nodes with.
ComesBackOld(n) ==
  /\ podOf[n] # None /\ ~podOf[n].dying
  /\ rec.pc = "nodes" \/ podOf[n].for # old.pool \/ podOf[n].nad # old.nad

\* A node comes (the event counts), or goes (it does not, but its pod goes too
\* unless the node is back before).  The annotation of a pod of an earlier spec is
\* not looked at: this is missed.
AddNode(n, c) ==
  /\ Edit /\ cap[n] = None /\ c # None
  /\ cap' = [cap EXCEPT ![n] = c]
  /\ queue' = (queue \/ cr # None)
  /\ missed' = (missed \/ ComesBackOld(n))
  /\ UNCHANGED <<cr, owned, podOf, later, rec, old, tmpl>>

RemoveNode(n) ==
  /\ Edit /\ cap[n] # None
  /\ cap' = [cap EXCEPT ![n] = None]
  /\ UNCHANGED <<cr, owned, podOf, memory, missed>>

KillPod(n) ==
  /\ Edit /\ podOf[n] # None /\ ~podOf[n].dying
  /\ podOf' = [podOf EXCEPT ![n].dying = TRUE]
  /\ UNCHANGED <<outside, memory, missed>>

\* A pod whose object or node is gone is collected.
CollectPod(n) ==
  /\ podOf[n] # None /\ ~podOf[n].dying
  /\ podOf[n].orphan \/ cap[n] = None
  /\ podOf' = [podOf EXCEPT ![n].dying = TRUE]
  /\ UNCHANGED <<outside, memory, bounds>>

\* A pod is gone: the Delete event of an owned object counts.
PodGone(n) ==
  /\ podOf[n] # None /\ podOf[n].dying
  /\ podOf' = [podOf EXCEPT ![n] = None]
  /\ queue' = TRUE
  /\ UNCHANGED <<outside, later, rec, old, tmpl, bounds>>

-----------------------------------------------------------------------------
ReconcileStep ==
  \/ ReconcileGet \/ ListNodes \/ ReconcileEnds \/ RequeueFires
  \/ \E n \in Nodes : CreatePod(n) \/ KeepPod(n) \/ DeletePod(n)

ReconcileTrouble ==
  \/ ReadFails
  \/ \E n \in Nodes : CreateFails(n) \/ GetPodFails(n) \/ DeleteFails(n)

ClusterStep == \E n \in Nodes : CollectPod(n) \/ PodGone(n)

Users ==
  \/ \E s \in Specs \cup {None} : WriteObject(s)
  \/ \E n \in Nodes, c \in Capacities : ChangeNode(n, c) \/ AddNode(n, c)
  \/ \E n \in Nodes : RemoveNode(n) \/ KillPod(n)

-----------------------------------------------------------------------------
(* Properties *)

\* The node's VFs of the pool are those of its pod; without VFs there is no pod.
ResourcesFit(n) ==
  IF cap[n][cr.pool] = 0 THEN podOf[n] = None
  ELSE podOf[n] # None /\ ~podOf[n].dying /\ podOf[n].limits[cr.pool] = cap[n][cr.pool]

Wanted == cr # None /\ cr.nad # None

AtRest ==
  /\ ~failed /\ ~missed /\ rec = Idle /\ ~queue /\ Wanted
  /\ \A n \in There(podOf) : ~podOf[n].dying /\ ~podOf[n].orphan

\* When the controller has come to rest, every node has the pod it should have:
\* the VFs of the pool that the object names, and its annotation.  Requests that
\* come while pods are still being deleted, changes of the object and of nodes
\* in the middle of a Reconcile do not spoil it; failures that are only logged,
\* a change of VFs that the event filter judges by the old pool, a change that the
\* first Reconcile of a new process should have noticed, and one made while a node
\* was away and its pod was not, do.
\* (The variables have their types.)
RestMeansCurrent ==
  /\ AgentTypeOK
  /\ AtRest => \A n \in There(cap) : ResourcesFit(n) /\ (podOf[n] # None => podOf[n].nad = cr.nad)

\* As long as nothing failed and nothing was missed, the controller does not take
\* down a pod that was made for what the object says when the Reconcile reads it,
\* with all VFs of the node.
NoNeedlessDeletion ==
  [][~failed /\ ~missed =>
       \A n \in Nodes : DeletePod(n) /\ ~podOf[n].dying =>
         ~MadeForThis(n)]_agentVars

\* Whatever failed, whatever event was missed and however often the leader
\* changed, in the end every node's VFs of the pool are with its pod, and stay
\* there.  (The pod may be one with more limits, or with an old annotation.)
ResourcesArrive ==
  <>[](Wanted => \A n \in There(cap) :
         cap[n][cr.pool] = IF podOf[n] = None THEN 0 ELSE podOf[n].limits[cr.pool])
=============================================================================
