--------------------------- MODULE ClusterFlowConfig ---------------------------
(***************************************************************************)
(* controllers/flowconfig/clusterflowconfig_controller.go: the controller  *)
(* in the operator that turns ClusterFlowConfigs (rules for all pods that  *)
(* a selector matches) into NodeFlowConfigs (rules for one node).          *)
(*                                                                         *)
(* The API server holds the ClusterFlowConfigs (cfc), the pods (pod) and   *)
(* the NodeFlowConfigs (nfc).  The controller keeps in memory, for every   *)
(* ClusterFlowConfig and node, the hashes of the rules it put there        *)
(* (hashMap).  One Reconcile runs at a time; its variables are rec.        *)
(*                                                                         *)
(* It reads NodeFlowConfigs from the informer's cache, which may be behind *)
(* what it wrote itself.  (Objects and pods are changed by others only:    *)
(* they are what the cache has, and the events say so.)                    *)
(*                                                                         *)
(* A hash stands for its rule: SHA-256 of the rule's JSON text.  A rule of *)
(* a NodeFlowConfig is a cluster rule with the PCI address its pod         *)
(* interface has; a rule written by hand is a member of UserRules.         *)
(***************************************************************************)
EXTENDS Naturals, FiniteSets

CONSTANTS
  Configs,     \* names of ClusterFlowConfigs
  Nodes,       \* node names, and so names of NodeFlowConfigs
  Pods,        \* pod names
  Labels,      \* pod labels
  Interfaces,  \* pod interfaces that a ToPodInterface action may name
  Addresses,   \* PCI addresses of VFs
  RuleIds,     \* what tells cluster rules apart besides their interface
  None,        \* no object, no node, no address, a rule without actions
  UserRules,   \* rules that are written into NodeFlowConfigs by hand
  Specs,       \* the specs that users give each ClusterFlowConfig
  PodStates,   \* the states that pods come to
  InitConfigs, \* the ClusterFlowConfigs there may be when the operator starts
  InitPods,    \* the pods there may be when the operator starts
  MaxEdits,    \* bound: changes of ClusterFlowConfigs, pods and NodeFlowConfigs
  MaxFaults,   \* bound: failures
  Faults       \* the kinds of failure that may happen

\* A cluster rule: its one ToPodInterface action names an interface.
Rule == [id : RuleIds, if : Interfaces \cup {None}]

\* matchLabels, and the labels that matchExpressions (DoesNotExist) rule out.
Selector == [match : SUBSET Labels, none : SUBSET Labels]

Spec == [sel : Selector, rules : SUBSET Rule]

\* The address of every interface, from the network-status annotation.
Pod == [phase : {"Pending", "Running", "Succeeded", "Failed"}, node : Nodes \cup {None}, labels : SUBSET Labels,
        addr : [Interfaces -> Addresses \cup {None}]]

NodeRule == [rule : Rule, addr : Addresses \cup {None}] \cup UserRules

\* Failures whose Reconcile returns an error and is tried again ...
Retried == {"api", "conflict"}
\* ... and failures that are only logged: a NodeFlowConfig that is not read or
\* not written; and a lost hashMap.
Logged == {"read", "refused", "restart"}
\* Three more follow from what else happens: a pod passed over, a NodeFlowConfig
\* that the cache or the copy is behind of, and new labels of a pod that does not
\* run, of which the controller is not told.
Consequences == {"skipped", "stale", "unheard"}

ASSUME RulesAssumption ==
  None \notin Interfaces \cup Addresses \cup Nodes /\ \A rs \in SUBSET NodeRule : rs # None
ASSUME SpecsAssumption == Specs \in [Configs -> SUBSET Spec] /\ PodStates \subseteq Pod
\* A pod runs on the node that it is bound to.
ASSUME PodsAssumption == \A s \in PodStates : s.phase = "Running" => s.node # None
ASSUME InitAssumption ==
  /\ InitConfigs \subseteq [Configs -> Spec \cup {None}] /\ None \notin Spec
  /\ \A f \in InitConfigs, c \in Configs : f[c] \in Specs[c] \cup {None}
  /\ InitPods \subseteq [Pods -> PodStates \cup {None}] /\ None \notin Pod
ASSUME UserAssumption == UserRules \cap [rule : Rule, addr : Addresses \cup {None}] = {}
ASSUME BoundsAssumption ==
  MaxEdits \in Nat /\ MaxFaults \in Nat /\ Faults \subseteq Retried \cup Logged

VARIABLES
  cfc,      \* the ClusterFlowConfigs, None where there is none
  pod,      \* the pods, None where there is none
  nfc,      \* the rules of every NodeFlowConfig, None where there is none
  cache,    \* what the informer's cache has of every NodeFlowConfig
  queue,    \* the controller's work queue
  hashMap,  \* Cluster2NodeRulesHashMap
  rec,      \* the variables of Reconcile
  writers,  \* the selectors for which each NodeFlowConfig was written
  edits,    \* changes still allowed
  budget,   \* failures still allowed
  failed    \* the kinds of failure that have happened

api == <<cfc, pod, nfc, cache>>
bounds == <<edits, budget, failed>>
clusterVars == <<api, queue, hashMap, rec, writers, bounds>>

NoEntry == [n \in Nodes |-> None]

NodeFlowConfigs == [Nodes -> (SUBSET NodeRule) \cup {None}]

Idle == [pc |-> "idle", req |-> None, sel |-> None, pods |-> <<>>, list |-> <<>>,
         work |-> NoEntry, stale |-> {}, todo |-> {}]

UpToDate == [n \in Nodes |-> "current"]

There(f) == {x \in DOMAIN f : f[x] # None}

NoHashes == [n \in Nodes |-> {}]

\* The nodes of c's entry; an entry without hashes is as good as none.
NodesOf(c) == {n \in Nodes : hashMap[c][n] # {}}

\* Nodes are cleaned from an entry that is still there.
ClusterTypeOK ==
  /\ cfc \in [Configs -> Spec \cup {None}]
  /\ pod \in [Pods -> Pod \cup {None}]
  /\ nfc \in NodeFlowConfigs /\ cache \in [Nodes -> {"current", "old", "absent"}]
  /\ queue \subseteq Configs
  /\ hashMap \in [Configs -> [Nodes -> SUBSET NodeRule]]
  /\ rec.pc \in {"idle", "pods", "list", "build", "write", "clean"}
  /\ rec.req \in Configs \cup {None}
  /\ rec.sel \in Selector \cup {None}
  /\ DOMAIN rec.pods \subseteq Pods /\ \A p \in DOMAIN rec.pods : rec.pods[p] \in Pod
  /\ DOMAIN rec.list \subseteq Configs /\ \A c \in DOMAIN rec.list : rec.list[c] \in SUBSET Rule
  /\ rec.work \in NodeFlowConfigs
  /\ rec.todo \subseteq Nodes /\ (rec.todo # {} => rec.todo \subseteq NodesOf(rec.req))
  /\ rec.stale \subseteq Nodes
  /\ writers \in [Nodes -> SUBSET Selector]
  /\ edits \in Nat /\ budget \in Nat /\ failed \subseteq Faults \cup Consequences

\* GetClusterFlowConfigReconciler and the Create events of the first list.
ClusterInit ==
  /\ cfc \in InitConfigs
  /\ pod \in InitPods
  /\ nfc = NoEntry /\ cache = UpToDate
  /\ queue = There(cfc)
  /\ hashMap = [c \in Configs |-> NoHashes]
  /\ rec = Idle
  /\ writers = [n \in Nodes |-> {}]
  /\ edits = MaxEdits
  /\ budget = MaxFaults
  /\ failed = {}

Fault(k) ==
  /\ k \in Faults
  /\ budget > 0
  /\ budget' = budget - 1
  /\ failed' = failed \cup {k}
  /\ UNCHANGED edits

-----------------------------------------------------------------------------
(* Translation *)

SelectorMatches(s, p) == s.match \subseteq p.labels /\ s.none \cap p.labels = {}

\* getNodeActionsFromClusterActions: a rule with an action needs the address of
\* its interface on the pod; a rule with none stays without (and without END).
Translatable(r, p) == r.if # None => p.addr[r.if] # None
Translated(r, p) == [rule |-> r, addr |-> IF r.if = None THEN None ELSE p.addr[r.if]]

NodeRules(rs, p) == {Translated(r, p) : r \in rs}

-----------------------------------------------------------------------------
(* Reconcile *)

goto(l) == rec' = [rec EXCEPT !.pc = l]
return == rec' = Idle

\* Reconcile returns an error: the request comes back.
RetryLater == return /\ queue' = queue \cup {rec.req}

\* The Get of the request's object: found, or not found and to be cleaned up.
ReconcileGet(c) ==
  /\ rec.pc = "idle"
  /\ c \in queue
  /\ queue' = queue \ {c}
  /\ rec' = IF cfc[c] # None
              THEN [Idle EXCEPT !.pc = "pods", !.req = c, !.sel = cfc[c].sel]
              ELSE [Idle EXCEPT !.pc = "clean", !.req = c, !.todo = NodesOf(c)]
  /\ UNCHANGED <<api, hashMap, writers, bounds>>

\* getPodsForPodSelector; without pods, the rules of the object are cleaned up.
ListPods ==
  LET matching == {p \in There(pod) : SelectorMatches(rec.sel, pod[p])}
  IN /\ rec.pc = "pods"
     /\ rec' = IF matching # {}
                 THEN [rec EXCEPT !.pc = "list", !.pods = [p \in matching |-> pod[p]]]
                 ELSE [rec EXCEPT !.pc = "clean", !.todo = NodesOf(rec.req)]
     /\ UNCHANGED <<api, queue, hashMap, writers, bounds>>

\* getClusterFlowConfigsForPodSelector: all objects with the same selector.
ListConfigs ==
  LET same == {c \in There(cfc) : cfc[c].sel = rec.sel}
  IN /\ rec.pc = "list"
     /\ rec' = [rec EXCEPT !.pc = "build", !.list = [c \in same |-> cfc[c].rules]]
     /\ UNCHANGED <<api, queue, hashMap, writers, bounds>>

\* A Get or List of these fails: the request is tried again.
ListFails ==
  /\ rec.pc \in {"pods", "list"}
  /\ Fault("api")
  /\ RetryLater
  /\ UNCHANGED <<api, hashMap, writers>>

Drop(f, x) == [y \in DOMAIN f \ {x} |-> f[y]]

\* Faulty: the rules of this object only.
UpdateSpecOwnOnly(p) ==
  LET n == rec.pods[p].node
      rules == NodeRules(rec.list[rec.req], rec.pods[p])
  IN /\ rec.pc = "build" /\ p \in DOMAIN rec.pods
     /\ n # None /\ rec.req \in DOMAIN rec.list
     /\ \A c \in DOMAIN rec.list : \A r \in rec.list[c] : Translatable(r, rec.pods[p])
     /\ rec' = [rec EXCEPT !.pods = Drop(@, p), !.work[n] = rules]
     /\ hashMap' = [hashMap EXCEPT ![rec.req][n] = rules]
     /\ UNCHANGED <<api, queue, writers, bounds>>

\* Faulty: the hashes are not recorded.
UpdateSpecUnrecorded(p) ==
  LET n == rec.pods[p].node
  IN /\ rec.pc = "build" /\ p \in DOMAIN rec.pods
     /\ n # None /\ rec.list # <<>>
     /\ \A c \in DOMAIN rec.list : \A r \in rec.list[c] : Translatable(r, rec.pods[p])
     /\ rec' = [rec EXCEPT !.pods = Drop(@, p),
                  !.work[n] = UNION {NodeRules(rec.list[c], rec.pods[p]) : c \in DOMAIN rec.list}]
     /\ UNCHANGED <<api, queue, hashMap, writers, bounds>>

\* The copies that are not what the API server has: also one just read, of node n.
Outdated(n) == rec.stale \cup IF cache[n] = "current" THEN {} ELSE {n}

\* One round of the loop over the pods: the rules of the pod's node are made
\* anew, from this pod and all listed objects, whatever the node had and
\* whatever another pod of it brought; every object's hashes are recorded.
UpdateSpec(p) ==
  LET n == rec.pods[p].node
      rules(c) == NodeRules(rec.list[c], rec.pods[p])
  IN /\ rec.pc = "build" /\ p \in DOMAIN rec.pods
     /\ n # None /\ rec.list # <<>>
     /\ \A c \in DOMAIN rec.list : \A r \in rec.list[c] : Translatable(r, rec.pods[p])
     /\ rec' = [rec EXCEPT !.pods = Drop(@, p),
                  !.work[n] = UNION {rules(c) : c \in DOMAIN rec.list}, !.stale = Outdated(n)]
     /\ hashMap' = [c \in Configs |->
                      IF c \in DOMAIN rec.list THEN [hashMap[c] EXCEPT ![n] = rules(c)]
                      ELSE hashMap[c]]
     /\ UNCHANGED <<api, queue, writers, bounds>>

\* A rule does not translate: the objects before it are recorded, the pod is
\* passed over, and a node that another pod brought before is left with the
\* rules made so far (it is the same object).
UpdateSpecFails(p) ==
  LET n == rec.pods[p].node
      fine(c) == {r \in rec.list[c] : Translatable(r, rec.pods[p])}
      bad == {c \in DOMAIN rec.list : fine(c) # rec.list[c]}
  IN /\ rec.pc = "build" /\ p \in DOMAIN rec.pods
     /\ n # None
     /\ \E b \in bad, done \in SUBSET (DOMAIN rec.list \ bad) :
          \E part \in SUBSET fine(b) :
            /\ hashMap' = [c \in Configs |->
                 IF c \in done THEN [hashMap[c] EXCEPT ![n] = NodeRules(rec.list[c], rec.pods[p])]
                 ELSE hashMap[c]]
            /\ rec' = [rec EXCEPT !.pods = Drop(@, p),
                 !.work[n] = IF rec.work[n] = None THEN None
                             ELSE (UNION {NodeRules(rec.list[c], rec.pods[p]) : c \in done})
                                    \cup NodeRules(part, rec.pods[p])]
     /\ failed' = failed \cup {"skipped"}
     /\ UNCHANGED <<api, queue, writers, edits, budget>>

\* A pod without a node yet, or no object with this selector any more.
SkipPod(p) ==
  /\ rec.pc = "build" /\ p \in DOMAIN rec.pods
  /\ rec.pods[p].node = None \/ rec.list = <<>>
  /\ rec' = [rec EXCEPT !.pods = Drop(@, p)]
  /\ UNCHANGED <<api, queue, hashMap, writers, bounds>>

\* getNodeFlowConfig fails and the pod is passed over.
ReadFails(p) ==
  /\ rec.pc = "build" /\ p \in DOMAIN rec.pods
  /\ rec.pods[p].node # None
  /\ rec.work[rec.pods[p].node] = None
  /\ Fault("read")
  /\ rec' = [rec EXCEPT !.pods = Drop(@, p)]
  /\ UNCHANGED <<api, queue, hashMap, writers>>

BuildEnds ==
  /\ rec.pc = "build" /\ rec.pods = <<>>
  /\ goto("write")
  /\ UNCHANGED <<api, queue, hashMap, writers, bounds>>

\* The NodeFlowConfig of n is written with rules rs: until the informer hears of
\* it, the cache has an old version or none.  (An Update that changes nothing is none.)
Put(n, rs) ==
  /\ nfc' = [nfc EXCEPT ![n] = rs]
  /\ cache' = [cache EXCEPT ![n] = CASE nfc[n] = None /\ rs # None -> "absent"
                                     [] nfc[n] # rs /\ @ = "current" -> "old"
                                     [] OTHER -> @]

\* createOrUpdateNodeFlowConfigs, one node: Update, or Create.
Write(n) ==
  /\ rec.pc = "write" /\ rec.work[n] # None /\ n \notin rec.stale
  /\ Put(n, rec.work[n])
  /\ rec' = [rec EXCEPT !.work[n] = None]
  /\ writers' = [writers EXCEPT ![n] = @ \cup {rec.sel}]
  /\ UNCHANGED <<cfc, pod, queue, hashMap, bounds>>

\* The copy is old, or there was none in the cache: the Conflict, or AlreadyExists,
\* is logged, and nothing else.
WriteConflict(n) ==
  /\ rec.pc = "write" /\ rec.work[n] # None /\ n \in rec.stale
  /\ rec' = [rec EXCEPT !.work[n] = None]
  /\ failed' = failed \cup {"stale"}
  /\ UNCHANGED <<api, queue, hashMap, writers, edits, budget>>

\* A webhook or the API server refuses: it is logged.
WriteFails(n) ==
  /\ rec.pc = "write" /\ rec.work[n] # None /\ n \notin rec.stale
  /\ Fault("refused")
  /\ rec' = [rec EXCEPT !.work[n] = None]
  /\ UNCHANGED <<api, queue, hashMap, writers>>

WriteEnds ==
  /\ rec.pc = "write" /\ rec.work = NoEntry
  /\ return
  /\ UNCHANGED <<api, queue, hashMap, writers, bounds>>

\* cleanNodeFlowConfig, one node: the recorded rules go, the others stay.
Clean(n) ==
  /\ rec.pc = "clean" /\ n \in rec.todo /\ cache[n] = "current"
  /\ Put(n, IF nfc[n] = None THEN None ELSE nfc[n] \ hashMap[rec.req][n])
  /\ rec' = [rec EXCEPT !.todo = @ \ {n}]
  /\ UNCHANGED <<cfc, pod, queue, hashMap, writers, bounds>>

\* The Get fails, or the Update for another reason than a conflict.
CleanFails(n) ==
  /\ rec.pc = "clean" /\ n \in rec.todo /\ nfc[n] # None
  /\ Fault("refused") \/ Fault("read")
  /\ rec' = [rec EXCEPT !.todo = @ \ {n}]
  /\ UNCHANGED <<api, queue, hashMap, writers>>

\* The cache does not have the NodeFlowConfig yet: it is taken for one that is gone.
CleanUnseen(n) ==
  /\ rec.pc = "clean" /\ n \in rec.todo /\ cache[n] = "absent"
  /\ rec' = [rec EXCEPT !.todo = @ \ {n}]
  /\ failed' = failed \cup {"stale"}
  /\ UNCHANGED <<api, queue, hashMap, writers, edits, budget>>

\* The cache has an old version; or somebody is faster between Get and Update.
Conflicts(n) ==
  \/ cache[n] = "old" /\ UNCHANGED bounds
  \/ cache[n] = "current" /\ nfc[n] # None /\ Fault("conflict")

\* Faulty: a conflict is not tried again.
CleanConflictDropped(n) ==
  /\ rec.pc = "clean" /\ n \in rec.todo
  /\ Conflicts(n)
  /\ return
  /\ hashMap' = [hashMap EXCEPT ![rec.req] = NoHashes]
  /\ UNCHANGED <<api, queue, writers>>

\* A conflict is returned before the entry is deleted: all of it again.
CleanConflict(n) ==
  /\ rec.pc = "clean" /\ n \in rec.todo
  /\ Conflicts(n)
  /\ RetryLater
  /\ UNCHANGED <<api, hashMap, writers>>

CleanEnds ==
  /\ rec.pc = "clean" /\ rec.todo = {}
  /\ hashMap' = [hashMap EXCEPT ![rec.req] = NoHashes]
  /\ return
  /\ UNCHANGED <<api, queue, writers, bounds>>

-----------------------------------------------------------------------------
(* Events *)

\* mapPodsToRequests looks at matchLabels only.
mapPodsToRequests(p) == {c \in There(cfc) : cfc[c].sel.match \subseteq p.labels}

Edit ==
  /\ edits > 0
  /\ edits' = edits - 1
  /\ UNCHANGED <<nfc, cache, hashMap, rec, writers, budget>>

\* A ClusterFlowConfig is created, changed or deleted: every such event counts.
WriteConfig(c, s) ==
  /\ cfc[c] # s
  /\ cfc' = [cfc EXCEPT ![c] = s]
  /\ queue' = queue \cup {c}
  /\ Edit
  /\ UNCHANGED <<pod, failed>>

\* getPodFilterPredicates, Update: a pod that starts running, or a running one
\* whose labels or annotations change.
PodUpdateCounts(old, new) ==
  /\ new.phase = "Running"
  /\ \/ old.phase = "Pending"
     \/ old.labels # new.labels
     \/ old.addr # new.addr

\* The phases that a pod can go to: it starts, and ends.
NextPhases(ph) ==
  CASE ph = "Pending" -> {"Pending", "Running", "Succeeded", "Failed"}
    [] ph = "Running" -> {"Running", "Succeeded", "Failed"}
    [] OTHER -> {ph}

\* A pod comes (Pending; the event does not count), changes (some events count)
\* or goes (all count).  An update is mapped from the old and from the new pod.
WritePod(p, s) ==
  /\ pod[p] # s
  /\ pod[p] = None => s.phase = "Pending"
  /\ pod[p] # None /\ s # None => s.phase \in NextPhases(pod[p].phase)
  /\ pod[p] # None /\ s # None => pod[p].node \in {None, s.node}
  /\ pod' = [pod EXCEPT ![p] = s]
  /\ queue' = CASE pod[p] = None -> queue
                [] pod[p] # None /\ s = None -> queue \cup mapPodsToRequests(pod[p])
                [] OTHER -> IF PodUpdateCounts(pod[p], s)
                              THEN queue \cup mapPodsToRequests(pod[p]) \cup mapPodsToRequests(s)
                              ELSE queue
  /\ failed' = IF pod[p] # None /\ s # None /\ pod[p].labels # s.labels
                   /\ ~PodUpdateCounts(pod[p], s)
                 THEN failed \cup {"unheard"} ELSE failed
  /\ Edit
  /\ UNCHANGED cfc

\* A user adds a rule to a NodeFlowConfig; the controller does not watch these.
\* A copy it has already read has an old resource version from now on.
WriteNodeRule(n, u) ==
  /\ edits > 0 /\ edits' = edits - 1
  /\ nfc[n] # None /\ u \notin nfc[n]
  /\ Put(n, nfc[n] \cup {u})
  /\ rec' = [rec EXCEPT !.stale = IF rec.work[n] = None THEN @ ELSE @ \cup {n}]
  /\ UNCHANGED <<cfc, pod, queue, hashMap, writers, budget, failed>>

\* Every ten hours the informer sends an Update event for every object.
Resync ==
  /\ rec = Idle /\ queue = {} /\ There(cfc) # {}
  /\ queue' = There(cfc)
  /\ UNCHANGED <<api, hashMap, rec, writers, bounds>>

\* The informer hears of the NodeFlowConfig of n.
CacheUpdate(n) ==
  /\ cache[n] # "current"
  /\ cache' = [cache EXCEPT ![n] = "current"]
  /\ UNCHANGED <<cfc, pod, nfc, queue, hashMap, rec, writers, bounds>>

\* The operator's process is started again: its memory is gone.
Restart ==
  /\ Fault("restart")
  /\ rec' = Idle
  /\ hashMap' = [c \in Configs |-> NoHashes]
  /\ queue' = There(cfc)
  /\ cache' = UpToDate
  /\ UNCHANGED <<cfc, pod, nfc, writers>>

-----------------------------------------------------------------------------
ReconcileStep ==
  \/ \E c \in Configs : ReconcileGet(c)
  \/ ListPods \/ ListConfigs
  \/ \E p \in Pods : UpdateSpec(p) \/ UpdateSpecFails(p) \/ SkipPod(p)
  \/ BuildEnds
  \/ \E n \in Nodes : Write(n) \/ WriteConflict(n) \/ Clean(n) \/ CleanUnseen(n) \/ CleanConflict(n)
  \/ WriteEnds \/ CleanEnds

FailureStep ==
  \/ ListFails \/ Restart
  \/ \E p \in Pods : ReadFails(p)
  \/ \E n \in Nodes : WriteFails(n) \/ CleanFails(n)

EditStep ==
  \/ \E c \in Configs : \E s \in Specs[c] \cup {None} : WriteConfig(c, s)
  \/ \E p \in Pods, s \in PodStates \cup {None} : WritePod(p, s)
  \/ \E n \in Nodes, u \in UserRules : WriteNodeRule(n, u)

InformerStep == Resync \/ \E n \in Nodes : CacheUpdate(n)

ClusterNext == ReconcileStep \/ FailureStep \/ EditStep \/ InformerStep

ClusterSpec == ClusterInit /\ [][ClusterNext]_clusterVars

\* The controller's one worker is scheduled, the informer resyncs, and its cache
\* catches up.
ClusterFairSpec ==
  /\ ClusterSpec
  /\ WF_clusterVars(ReconcileStep) /\ WF_<<queue, rec>>(Resync)
  /\ \A n \in Nodes : WF_clusterVars(CacheUpdate(n))

-----------------------------------------------------------------------------
(* Properties *)

Recorded(cs, n) == UNION {hashMap[c][n] : c \in cs}

\* What does no harm to the controller's memory.
MemoryKept == Retried \cup {"unheard"}

\* Every rule that a NodeFlowConfig holds and no user wrote is in the memory of
\* the controller, under some object, unless the node is about to be written:
\* what is not recorded is never removed (Cluster2NodeRulesHashMap, "it can find
\* all NodeFlowConfigs that were affected").  Failures that are only logged
\* break it, and so does a cache that does not have a NodeFlowConfig yet when its
\* rules are to be removed: they stay, and are forgotten.
RulesAreRecorded ==
  failed \subseteq MemoryKept =>
    \A n \in Nodes : nfc[n] # None /\ rec.work[n] = None =>
                       nfc[n] \ UserRules \subseteq Recorded(Configs, n)

\* When the controller has come to rest, the rules of objects that were deleted
\* are gone from all nodes, whatever other objects, pods and lists did meanwhile
\* and however often an old copy in the cache sent the cleanup back.  (This too is
\* not so after a failure that is only logged, or after a Get of a NodeFlowConfig
\* that the cache did not have yet.  The variables have their types.)
DeletedIsGone ==
  /\ ClusterTypeOK
  /\ failed \subseteq MemoryKept /\ rec = Idle /\ queue = {} =>
       \A n \in Nodes : nfc[n] # None => nfc[n] \ UserRules \subseteq Recorded(There(cfc), n)

\* The one pod on n that any object selects, all of whose rules translate.
OnlyPod(n, p) ==
  LET selects(c, q) == SelectorMatches(cfc[c].sel, pod[q])
  IN /\ pod[p] # None /\ pod[p].node = n /\ pod[p].phase = "Running"
     /\ \A q \in There(pod) \ {p} : pod[q].node = n => \A c \in There(cfc) : ~selects(c, q)
     /\ \A c, d \in There(cfc) : selects(c, p) /\ selects(d, p) => cfc[c].sel = cfc[d].sel
     /\ \A c \in There(cfc) : selects(c, p) => \A r \in cfc[c].rules : Translatable(r, pod[p])

\* The rules of c that no other object may have: cleaning up another object that
\* has the same rule takes it away from c too, until c is reconciled again.
OwnRules(c) == {r \in cfc[c].rules : \A d \in Configs \ {c} : \A s \in Specs[d] : r \notin s.rules}

\* The node of every such pod has the own rules of all objects that select it.
Reflected ==
  \A n \in Nodes, p \in Pods : OnlyPod(n, p) =>
    \A c \in There(cfc) : SelectorMatches(cfc[c].sel, pod[p]) =>
      nfc[n] # None /\ NodeRules(OwnRules(c), pod[p]) \subseteq nfc[n]

\* An object that selects one pod of a node, alone or with objects of the same
\* selector, gets its rules to the node once the controller has come to rest;
\* no resync is needed, as long as no other selector ever wrote the node, the
\* labels of pods that do not run stay (getPodFilterPredicates drops their change,
\* although getPodsForPodSelector lists such pods, also those that have ended) and
\* the cache had caught up when NodeFlowConfigs were read.
RestMeansReflected ==
  failed \subseteq Retried /\ rec = Idle /\ queue = {}
  /\ (\A n \in Nodes : Cardinality(writers[n]) <= 1) => Reflected

\* Once objects and pods stop changing, the rules arrive and stay, whatever
\* failed before: what is only logged is made good by the resync.
ClusterRulesArrive == <>[]Reflected
=============================================================================
