---------------------------- MODULE NodeFlowConfig ----------------------------
(***************************************************************************)
(* controllers/flowconfig/nodeflowconfig_controller.go, dcf_client.go and  *)
(* pkg/flowconfig/flowsets: the flowconfig-daemon of one node, which keeps *)
(* the flow rules of the UFT server (a container of its own) equal to the  *)
(* rules of the node's NodeFlowConfig.                                     *)
(*                                                                         *)
(* The object outlives the daemon, and so do the flows in the server; what *)
(* the daemon knows of them, flowSets, is lost with its process.           *)
(***************************************************************************)
EXTENDS Integers

CONSTANTS
  Rules,      \* the rules a spec may hold, see Rule
  Values,     \* Spec and Last of a pattern item, decoded
  None,       \* a field that is not set
  Ports,      \* port ids
  AutoPort,   \* automaticPortId: the controller has to find the port
  NoPort,     \* there is none
  VFs,        \* PCI addresses of virtual functions
  PortOf,     \* per VF, the DCF port on the same PF, or NoPort
  VfIds,      \* indices of VFs on their PF
  NoVf,       \* the node has no such VF
  VfIdOf,     \* per VF, its index or NoVf
  FlowIds,    \* the ids the server gives to flows
  NoId,       \* the hash is not a key of flowSets
  NoFlow,     \* the id is not in use
  MaxEdits,   \* bound: writes of the object in one behaviour
  MaxFaults   \* bound: failures in one behaviour

\* A rule with a pattern of one item (type and mask go over unchanged) and the
\* address of its VFPCIADDR action.
Rule == [spec : Values \cup {None}, last : Values \cup {None},
         port : Ports \cup {AutoPort}, vf : VFs]

\* getFlowCreateRequests fails when the VF is not on the node or, with the port
\* left to it, no DCF port is on the PF of the VF.
Translates(fr) ==
  VfIdOf[fr.vf] # NoVf /\ (fr.port # AutoPort \/ PortOf[fr.vf] # NoPort)

PortIdOf(fr) == IF fr.port # AutoPort THEN fr.port ELSE PortOf[fr.vf]

\* The request for a rule, its action now with the index of the VF.  Last is
\* decoded into the Spec of the item.
getFlowCreateRequests(fr) ==
  [spec |-> IF fr.last # None THEN fr.last ELSE fr.spec, last |-> None,
   port |-> PortIdOf(fr), vf |-> VfIdOf[fr.vf]]

\* Requests, and with them their hashes (getFlowCreateHash is injective).
Requests == {getFlowCreateRequests(fr) : fr \in {r \in Rules : Translates(r)}}

RequestsOf(rs) == {getFlowCreateRequests(fr) : fr \in rs}

\* "ports": ListPorts fails.  "refused": Validate or Create answers with an
\* error.  "undestroyed": Destroy answers with one.  "destroy": the call of
\* Destroy itself fails.  "reply": the answer to a Create is lost.  "watch": the
\* deletion is only seen as DeleteStateUnknown.  "crash", "server": the daemon's
\* or the server's process ends.
FaultKinds ==
  {"ports", "refused", "undestroyed", "destroy", "reply", "watch", "crash", "server"}

ASSUME RulesAssumption == Rules \subseteq Rule
ASSUME PortsAssumption ==
  /\ AutoPort \notin Ports /\ NoPort \notin Ports
  /\ PortOf \in [VFs -> Ports \cup {NoPort}]
  /\ NoVf \notin VfIds
  /\ VfIdOf \in [VFs -> VfIds \cup {NoVf}]
ASSUME IdsAssumption == NoId \notin FlowIds
ASSUME FlowsAssumption == NoFlow \notin Requests
ASSUME FlowBounds == MaxEdits \in Nat /\ MaxFaults \in Nat

VARIABLES
  exists,    \* the NodeFlowConfig is in the API server
  rules,     \* Spec.Rules
  pending,   \* the controller's queue holds a request
  pc,        \* where Reconcile is; "off" when the process is down
  toAdd,     \* hashes of createRules still to do
  toDelete,  \* hashes of deleteRules still to do
  flowSets,  \* per hash, the id of the flow the daemon knows
  server,    \* per id, the flow in the UFT server
  synced,    \* the last Reconcile met no error it looks at
  edits,     \* writes of the object still allowed
  budget,    \* failures still allowed
  failed     \* the kinds of failure there were

object == <<exists, rules, edits>>
daemon == <<pending, pc, toAdd, toDelete, flowSets, synced>>
failures == <<budget, failed>>
flowVars == <<object, daemon, server, failures>>

-----------------------------------------------------------------------------
Known == {k \in Requests : flowSets[k] # NoId}

\* GetCompliments: the keys of flowSets that are not among keys.
GetCompliments(keys) == Known \ keys

\* Add: a key that is there keeps its id.
Add(k, id) == IF k \in Known THEN flowSets ELSE [flowSets EXCEPT ![k] = id]

Empty == [k \in Requests |-> NoId]

FlowTypeOK ==
  /\ exists \in BOOLEAN
  /\ rules \subseteq Rules
  /\ pending \in BOOLEAN
  /\ pc \in {"off", "idle", "delete", "create"}
  /\ toAdd \subseteq Requests
  /\ toDelete \subseteq Requests
  /\ flowSets \in [Requests -> FlowIds \cup {NoId}]
  /\ server \in [FlowIds -> Requests \cup {NoFlow}]
  /\ synced \in BOOLEAN
  /\ edits \in Nat
  /\ budget \in Nat
  /\ failed \subseteq FaultKinds

FlowInit ==
  /\ exists = FALSE
  /\ rules = {}
  /\ pending = FALSE
  /\ pc = "off"
  /\ toAdd = {}
  /\ toDelete = {}
  /\ flowSets = Empty
  /\ server = [id \in FlowIds |-> NoFlow]
  /\ synced = FALSE
  /\ edits = MaxEdits
  /\ budget = MaxFaults
  /\ failed = {}

FlowFault(k) ==
  /\ budget > 0
  /\ budget' = budget - 1
  /\ failed' = failed \cup {k}

-----------------------------------------------------------------------------
(* Reconcile *)

Dequeue ==
  /\ pc = "idle"
  /\ pending
  /\ pending' = FALSE

\* Reconcile returns nil, so that nothing is requeued; ok tells if it met an error.
Return(ok) ==
  /\ pc' = "idle"
  /\ toAdd' = {}
  /\ toDelete' = {}
  /\ synced' = ok

\* Faulty: an error of getFlowCreateRequests is not looked at.
SyncRulesUnchecked ==
  /\ Dequeue
  /\ exists
  /\ toAdd' = RequestsOf(rules) \ Known
  /\ toDelete' = GetCompliments(RequestsOf(rules))
  /\ pc' = "delete"
  /\ UNCHANGED <<object, flowSets, server, synced, failures>>

\* Faulty: rules that are in the cache are created again.
SyncRulesAgain ==
  /\ Dequeue
  /\ exists
  /\ \A fr \in rules : Translates(fr)
  /\ toAdd' = RequestsOf(rules)
  /\ toDelete' = GetCompliments(RequestsOf(rules))
  /\ pc' = "delete"
  /\ UNCHANGED <<object, flowSets, server, synced, failures>>

\* syncRules: all rules translate, and getToAddAndDelete compares them with the
\* cache.
SyncRules ==
  /\ Dequeue
  /\ exists
  /\ \A fr \in rules : Translates(fr)
  /\ toAdd' = RequestsOf(rules) \ Known
  /\ toDelete' = GetCompliments(RequestsOf(rules))
  /\ pc' = "delete"
  /\ UNCHANGED <<object, flowSets, server, synced, failures>>

\* One rule that does not translate: nothing is created or deleted.
SyncRulesFails ==
  /\ Dequeue
  /\ exists
  /\ \E fr \in rules : ~Translates(fr)
  /\ Return(FALSE)
  /\ UNCHANGED <<object, flowSets, server, failures>>

ListPortsFails ==
  /\ Dequeue
  /\ exists
  /\ FlowFault("ports")
  /\ Return(FALSE)
  /\ UNCHANGED <<object, flowSets, server>>

\* The object is gone: deleteAllRules.
DeleteAllRules ==
  /\ Dequeue
  /\ ~exists
  /\ toAdd' = {}
  /\ toDelete' = GetCompliments({})
  /\ pc' = "delete"
  /\ UNCHANGED <<object, flowSets, server, synced, failures>>

\* Faulty: the record stays in the cache.
DeleteRuleRemembered(k) ==
  /\ pc = "delete"
  /\ k \in toDelete
  /\ toDelete' = toDelete \ {k}
  /\ server' = [server EXCEPT ![flowSets[k]] = NoFlow]
  /\ UNCHANGED <<object, pending, pc, toAdd, flowSets, synced, failures>>

\* One round of deleteRules: Destroy the flow with the id in the cache.
DeleteRule(k) ==
  /\ pc = "delete"
  /\ k \in toDelete
  /\ toDelete' = toDelete \ {k}
  /\ flowSets' = [flowSets EXCEPT ![k] = NoId]
  /\ server' = [server EXCEPT ![flowSets[k]] = NoFlow]
  /\ UNCHANGED <<object, pending, pc, toAdd, synced, failures>>

\* Destroy answers with an ErrorInfo, which nobody looks at.
DeleteRuleRefused(k) ==
  /\ pc = "delete"
  /\ k \in toDelete
  /\ FlowFault("undestroyed")
  /\ toDelete' = toDelete \ {k}
  /\ flowSets' = [flowSets EXCEPT ![k] = NoId]
  /\ UNCHANGED <<object, pending, pc, toAdd, server, synced>>

\* Faulty: rules are created while old ones are still there.
DeletesEndEarly ==
  /\ pc = "delete"
  /\ pc' = "create"
  /\ UNCHANGED <<object, pending, toAdd, toDelete, flowSets, server, synced, failures>>

DeletesEnd ==
  /\ pc = "delete"
  /\ toDelete = {}
  /\ pc' = "create"
  /\ UNCHANGED <<object, pending, toAdd, toDelete, flowSets, server, synced, failures>>

\* One round of createRules: the server validates the request and creates it.
CreateRule(k) ==
  /\ pc = "create"
  /\ k \in toAdd
  /\ \E id \in FlowIds :
       /\ server[id] = NoFlow
       /\ server' = [server EXCEPT ![id] = k]
       /\ flowSets' = Add(k, id)
  /\ toAdd' = toAdd \ {k}
  /\ UNCHANGED <<object, pending, pc, toDelete, synced, failures>>

\* Faulty: the rule is passed over and the error forgotten.
CreateRuleSkipped(k) ==
  /\ pc = "create"
  /\ k \in toAdd
  /\ FlowFault("refused")
  /\ toAdd' = toAdd \ {k}
  /\ UNCHANGED <<object, pending, pc, toDelete, flowSets, server, synced>>

\* Validate or Create fails: the rest is not created.
CreateRuleRefused(k) ==
  /\ pc = "create"
  /\ k \in toAdd
  /\ FlowFault("refused")
  /\ Return(FALSE)
  /\ UNCHANGED <<object, pending, flowSets, server>>

\* The server created the flow, but its answer did not arrive.
CreateReplyLost(k) ==
  /\ pc = "create"
  /\ k \in toAdd
  /\ FlowFault("reply")
  /\ \E id \in FlowIds :
       /\ server[id] = NoFlow
       /\ server' = [server EXCEPT ![id] = k]
  /\ Return(FALSE)
  /\ UNCHANGED <<object, pending, flowSets>>

CreatesEnd ==
  /\ pc = "create"
  /\ toAdd = {}
  /\ Return(TRUE)
  /\ UNCHANGED <<object, pending, flowSets, server, failures>>

-----------------------------------------------------------------------------
(* The processes *)

\* The process ends, with what it kept in memory.
DaemonGone ==
  /\ pc' = "off"
  /\ pending' = FALSE
  /\ toAdd' = {}
  /\ toDelete' = {}
  /\ flowSets' = Empty
  /\ synced' = FALSE
  /\ UNCHANGED object

\* Destroy returns an error and a nil response, whose ErrorInfo is read for the
\* log message: the process panics.  The server may have done its part.
DeleteRulePanics(k) ==
  /\ pc = "delete"
  /\ k \in toDelete
  /\ FlowFault("destroy")
  /\ server' \in {server, [server EXCEPT ![flowSets[k]] = NoFlow]}
  /\ DaemonGone

DaemonCrash ==
  /\ pc # "off"
  /\ FlowFault("crash")
  /\ DaemonGone
  /\ UNCHANGED server

\* Faulty: the object that is there already is not noticed.
DaemonStartUnaware ==
  /\ pc = "off"
  /\ pc' = "idle"
  /\ pending' = FALSE
  /\ UNCHANGED <<object, toAdd, toDelete, flowSets, server, synced, failures>>

\* main: an empty cache, and a Create event if there is an object.
DaemonStart ==
  /\ pc = "off"
  /\ pc' = "idle"
  /\ pending' = exists
  /\ UNCHANGED <<object, toAdd, toDelete, flowSets, server, synced, failures>>

\* The UFT server restarts without flows; nobody tells the daemon.
ServerRestart ==
  /\ FlowFault("server")
  /\ server' = [id \in FlowIds |-> NoFlow]
  /\ UNCHANGED <<object, daemon>>

-----------------------------------------------------------------------------
(* Those who write the object *)

\* Faulty: no event passes the filter while the last request is worked on.
NotifyIdle == pending' = (pending \/ pc = "idle")

Notify == pending' = (pending \/ pc # "off")

\* The object is created or its spec changed.
WriteRules(rs) ==
  /\ edits > 0
  /\ ~exists \/ rs # rules
  /\ edits' = edits - 1
  /\ exists' = TRUE
  /\ rules' = rs
  /\ Notify
  /\ UNCHANGED <<pc, toAdd, toDelete, flowSets, synced, server, failures>>

RemoveObject ==
  /\ edits > 0
  /\ exists
  /\ edits' = edits - 1
  /\ exists' = FALSE
  /\ rules' = {}
  /\ UNCHANGED <<pc, toAdd, toDelete, flowSets, synced, server>>

DeleteObject ==
  /\ RemoveObject
  /\ Notify
  /\ UNCHANGED failures

\* The informer missed the deletion; the DeleteStateUnknown event is filtered.
DeleteObjectUnseen ==
  /\ RemoveObject
  /\ FlowFault("watch")
  /\ UNCHANGED pending

-----------------------------------------------------------------------------
ReconcileStep ==
  \/ SyncRules \/ SyncRulesFails \/ DeleteAllRules \/ DeletesEnd \/ CreatesEnd
  \/ \E k \in Requests : DeleteRule(k) \/ CreateRule(k)

FailureStep ==
  \/ ListPortsFails \/ DaemonCrash \/ ServerRestart \/ DeleteObjectUnseen
  \/ \E k \in Requests :
       \/ DeleteRuleRefused(k) \/ DeleteRulePanics(k)
       \/ CreateRuleRefused(k) \/ CreateReplyLost(k)

FlowNext ==
  \/ ReconcileStep \/ FailureStep \/ DaemonStart
  \/ (\E rs \in SUBSET Rules : WriteRules(rs)) \/ DeleteObject

FlowSpec == FlowInit /\ [][FlowNext]_flowVars

\* The controller's goroutine is scheduled and the pod restarts its container.
FlowFairSpec == FlowSpec /\ WF_flowVars(ReconcileStep) /\ WF_flowVars(DaemonStart)

-----------------------------------------------------------------------------
(* Properties *)

Flows == {server[id] : id \in FlowIds} \ {NoFlow}

Quiet == pc = "idle" /\ ~pending

\* Calls were refused at most: what the server did is known to the daemon, what
\* it was told to destroy it destroyed, every change of the object was seen, and
\* no process ended.
ReliableCalls == failed \subseteq {"ports", "refused"}

\* Unless the server restarted, every record of the cache names a flow that is in
\* the server under that id and is the flow of that rule, so that deleteRules
\* destroys what it means to.
CachedFlowsExist ==
  "server" \notin failed =>
    \A k \in Requests : flowSets[k] # NoId => server[flowSets[k]] = k

\* With reliable calls no flow is in the server without a record, or twice:
\* nothing that was created is beyond the reach of a later Reconcile.
NoStrayFlows ==
  ReliableCalls =>
    \A id \in FlowIds : server[id] # NoFlow => flowSets[server[id]] = id

\* What the user means by a rule: the values from spec to last, where last is set
\* (docs/flowconfig-daemon/creating-rules.md), on that port, to that VF.
FlowOf(fr) ==
  [spec |-> fr.spec, last |-> fr.last, port |-> PortIdOf(fr), vf |-> VfIdOf[fr.vf]]

FlowsOf(rs) == {FlowOf(fr) : fr \in rs}

\* The rules that give values and no range.
PlainRules == {fr \in rules : fr.last = None}

\* After a Reconcile that met no error, and with no change outstanding, the
\* server holds the flows the spec means and no others; a spec with ranges is
\* left out, see RangesKept.
SyncedMeansEqual ==
  ReliableCalls /\ Quiet /\ synced /\ rules = PlainRules => Flows = FlowsOf(rules)

\* Whatever was lost, refused or crashed before, after a Reconcile that met no
\* error every rule of the spec that gives no range is in force: what a failure
\* leaves behind (a record that is gone, a flow that is not destroyed or not
\* known) can be too much and never too little, until the server restarts.
SyncedRulesInForce ==
  "server" \notin failed /\ Quiet /\ synced => FlowsOf(PlainRules) \subseteq Flows

\* The same as SyncedMeansEqual for every spec: a rule with a spec and a last
\* matches the values between them.
RangesKept ==
  ReliableCalls /\ Quiet /\ synced => Flows = FlowsOf(rules)

\* "First, delete from delete lists, then create new rules": a flow is created
\* when all that had to go is gone, and never beside a flow of the same rule.
DeletedBeforeCreated ==
  [][\A id \in FlowIds :
       ReliableCalls /\ server[id] = NoFlow /\ server'[id] # NoFlow
         => toDelete = {} /\ server'[id] \notin Flows]_flowVars

\* Once the object stays as it is (edits are bounded), the flows its rules mean
\* end up in the server, alone, as long as nothing is lost on the way; after a
\* refused call the daemon may also rest with the error, since Reconcile returns
\* nil.  Rules that do not translate and rules with a range are left out.
RulesArrive ==
  <>[](exists /\ rules = PlainRules /\ \A fr \in rules : Translates(fr))
    => <>[](\/ Flows = FlowsOf(rules)
            \/ Quiet /\ ~synced /\ failed # {}
            \/ ~ReliableCalls)
=============================================================================
