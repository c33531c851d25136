# Verification of the Intel Ethernet Operator

TLA+ modules, TLC configurations and TLAPS proofs kept beside the operator's
code.  Every definition is translated from the Go sources; `PROJECT.json` maps
each one to the lines it stands for.

## 1. The system

The operator manages Intel E810 NICs in a Kubernetes cluster.  Its parts run in
different processes and meet only in objects of the API server.

| Part | Source | State it keeps | Operations | Interacts through |
|---|---|---|---|---|
| fwddp-manager | `pkg/fwddp-manager` | its informer caches; reads all EthernetClusterConfigs and Nodes | on any change: for every node, gather the matching configs, pick one per device (priority, then age), write the EthernetNodeConfig spec | EthernetNodeConfig spec |
| fwddp-daemon, one per node | `pkg/fwddp-daemon` | the object's condition, the work queue, timers, the closure of the running update | `Reconcile`, `configureNode`, `updateCondition`, `rebootNode` | EthernetNodeConfig status, the drain helper, the node's devices, systemd |
| drain helper, in each daemon | `pkg/drainhelper` | the Lease `clv-daemon-lease`, the Node's `unschedulable` | `Run`, `Uncordon` | the Lease, shared by all daemons; the Node |
| FW and DDP updaters | `pkg/fwddp-daemon/{fw,ddp}updater.go`, `deviceupdate.go` | files below the artifacts folder, NVM, `/lib/firmware` | prepare, update, `isRebootRequired` | nvmupdate64e, the file system |
| ClusterFlowConfig controller | `controllers/flowconfig/clusterflowconfig_controller.go` | a hash map from cluster object and node to hashes of rules (in memory) | reconcile: add and remove the rules of the pods selected | NodeFlowConfig spec |
| NodeFlowConfig controller, one per node | `controllers/flowconfig/nodeflowconfig_controller.go`, `dcf_client.go`, `pkg/flowconfig/flowsets` | the `flowSets` cache (in memory) of the rules created | reconcile: compare spec, cache; create and destroy rules | the UFT server over gRPC |
| FlowConfigNodeAgentDeployment controller | `controllers/flowconfig/flowconfignodeagentdeployment_controller.go` | the names it saw last (in memory) | reconcile: one agent pod per matching node | Pods, NetworkAttachmentDefinition |
| webhooks | `apis/flowconfig/v1` | none | validate rules on create and update | API server admission |
| asset manager, in every replica of the operator | `main.go`, `pkg/utils/assets` | none | create or update the operands' ConfigMaps and DaemonSets, wait until ready, start the controllers | ConfigMaps, DaemonSets, shared by all replicas |
| inventory, labeler | `pkg/fwddp-daemon/inventory.go`, `pkg/labeler` | none | scan the PCI bus for supported cards; report them, label the node | Node labels, EthernetNodeConfig status |
| flow messages and utilities | `pkg/flowconfig/{rpc,utils,sriovutils}` | none | decode items and actions of a rule; find the PF of a VF | called by webhooks and daemon |

What is hard about it: the daemons of all nodes compete for one lease; the
update runs in a goroutine nobody waits for; a reboot kills the process in the
middle of a protocol that spans it; conditions and retries carry the state of
an update across restarts; in-memory caches have to agree with objects and
rules that outlive the process; the replicas of the operator write the same
objects when they start; an object is compared in a way that overlooks what is
gone from it; one folder serves the updates of a living and of a
leftover worker; errors are logged and dropped in several places.

What makes each part correct:

* drain helper: one node at a time is out of service for an update, only the
  lease's holder drains, the function runs on a drained node, and a `nil` from
  `Run` means the node is back;
* daemon: a `Succeeded` condition tells the truth, a reboot happens on a
  drained node and is not taken as done before it happened, an unfinished
  update is never forgotten, a node that is to be updated does not stay cordoned
  for ever, a daemon handles only its own object;
* manager: the spec of every node is what the priorities ask for, and a config
  that is taken back is taken back on the node;
* updaters: nothing gets on a device that no spec let pass, an update that ends
  well is stored whole, and nothing of an earlier try spoils a later one;
* flow controllers: after a reconcile without error the rules in the server are
  those of the spec, and the cache says which they are; the rules of every
  selected pod get to its node, those of deleted objects go;
* webhooks: what is let in fits the fields it is sent in, and neither the
  controller nor the daemon fails on it later;
* operator: replicas that deploy at once leave no mixture and do not block each
  other; every node with VFs of the pool has an agent with all of them.

## 2. Modules

| Module | Models | Uses |
|---|---|---|
| `MaintenanceWindow` | the promise of the drain helper, without lease, elector or goroutines | |
| `DrainHelper` | `pkg/drainhelper` on any number of nodes | shown to implement `MaintenanceWindow` |
| `NodeConfigDaemon` | `pkg/fwddp-daemon` on any number of nodes | extends `DrainHelper`: composition of daemon and helper |
| `NodeFlowConfig` | the flowconfig-daemon of a node, its `flowSets` cache, and the UFT server as it uses it | |
| `ClusterConfigManager` | `pkg/fwddp-manager`: the EthernetClusterConfig controller; `pkg/labeler` and the inventory, whose label and devices it reads | |
| `DeviceUpdate` | the updaters, `deviceupdate.go`, `pkg/utils` and the two functions of the daemon that use them, file by file | says in detail what `NodeConfigDaemon` takes as outcomes |
| `ClusterFlowConfig` | the ClusterFlowConfig controller, down to the NodeFlowConfigs | |
| `FlowMessages` | item and action types and item messages of `flow.pb.go` | |
| `FlowAdmission` | both webhooks, the translation of both flow controllers | extends `FlowMessages` |
| `AssetManager` | `main.go` and `pkg/utils/assets` in any number of replicas | |
| `NodeAgentDeployment` | the FlowConfigNodeAgentDeployment controller | |
| `Operator` | the operator's Deployment | extends `AssetManager` and `NodeAgentDeployment`: composition |
| `DrainHelperProofs` | theorems about the drain helper | extends `DrainHelper` |
| `NodeConfigDaemonProofs` | theorems about the daemon: its use of the helper, its updates | extends `NodeConfigDaemon`, `DrainHelperProofs` |
| `NodeFlowConfigProofs`, `DeviceUpdateProofs`, `ClusterConfigManagerProofs`, `ClusterFlowConfigProofs`, `FlowAdmissionProofs`, `OperatorProofs` | theorems about the modules they extend | |
| `MC...` | instances for TLC | |

### DrainHelper

`Run` is two threads of control.  `run[n]` is where the caller's goroutine is:
`idle` (not in `Run`), `acquire` (the elector polls for the lease), `renew`,
`release` (the elector's own release) and `mitigate` (the deferred cleanup that
empties the `HolderIdentity`, whoever it names).  `worker[n][s]` is an
`OnStartedLeading` goroutine: get the Node, cordon, drain (with up to `Steps`
attempts), `work` (the caller's function `f`), get the Node, uncordon.  A node
has `Slots` of them because the elector does not wait for the goroutine: after
a lost lease a later `Run` starts another one beside it.

The lease is modelled by its holder.  The elector (client-go, external) takes
it when it is free, its own, or expired; the record of a holder expires when
its elector is no longer at work, so `Refreshed` is false exactly when the
holder's `Run` is not in `renew`, `release` or `mitigate`.  The elector's own
release may succeed or fail, in every run and in the proofs: the comment in `Run`
says that it fails, but `go.mod` pins client-go v0.25.0, whose release writes a
valid record.  `LeaseCanBeLost` lets renewing fail for a whole `RenewDeadline`.

`broken` is a history variable: the nodes whose lead ended, or whose lease was
emptied by the cleanup of another daemon, while a worker of theirs was alive, until
the process ends or the node leads again with no worker left.  A broken node has
lost all that the lease is for; the properties say what remains true of the others,
and that only these two events (`StopLeading` under a worker, `Mitigate` of another
node) can break a lead.

`LeaseDuration` is a set of values per node: it comes from the environment of each
daemon and may be another one after a restart; `NewLeaderElector` refuses one not
above `RenewDeadline`.  (The model also lets it change between two `Run`s of the same
process.)

Cordon, drain and uncordon of kubectl are modelled by their contract (they
succeed or fail; cordon and uncordon set `Spec.Unschedulable`).

### NodeConfigDaemon

`pc[n]` is where `Reconcile` is; each value is a point between two calls that
another process can observe: `finish` (condition `PostUpdateReboot` found),
`begin` (before the condition `InProgress`), `prepare` (inventory, downloads),
`run` (inside `DrainHelper.Run`), `rejected` (inside a `Run` whose elector was refused),
`report` (before the last condition).
`act[n][s]` is what `drainFunc` closes over, per worker of the helper: devices
still to do, `rebootRequired`, `nodeActionErr`, whether `PostUpdateReboot` was
written, and the `nodeConfig` it writes it with.  `enc` is the object in the API
server, `queue` and `later` the controller's queue and running `RequeueAfter`
timers, `hw` the version stored in a device and `live` the one it runs, which
differ until a reboot.

`updateCondition` reads the object again into the caller's `nodeConfig`
(`Reread`), with the generation taken before, as in the code; its error is only
logged (`updateConditionLost`).  A failed Get of `Reconcile` changes nothing (the
request is requeued) and is a stuttering step.  Whether nvmupdate's result asks
for a reboot is `handleFWUpdate` over exit code and flag; that a flag of zero is
right about the firmware being live is taken from the tool.  In one respect the
closure is simplified: `Reconcile` and `drainFunc` share one `nodeConfig`, and
the copy of the worker is handed back when `configureNode` returns, so a
leftover worker of a lost lease does not change the copy of a later update.

The spec is written by the environment (`UpdateSpec`: the manager or a user).

### NodeFlowConfig

`exists` and `rules` are the NodeFlowConfig in the API server, `pending` the
controller's queue (one object, so one request), `flowSets` the cache from the
hash of a request to the id of its flow, `server` the flows in the UFT server
by id.  A Reconcile is `SyncRules` (translate every rule, compare with the
cache) or `DeleteAllRules`, then one `DeleteRule` per hash of `toDelete`,
`DeletesEnd`, one `CreateRule` per hash of `toAdd`, `CreatesEnd`; each of these
is one call to another process, between which anything may happen.

`failed` records which of these failures have happened: `ListPorts` fails; `Validate`
or `Create` is refused; `Destroy` answers with an error (nobody looks at it) or
fails as a call (the nil response is read and the process panics); the answer
to a `Create` is lost; a deletion is only seen as `DeleteStateUnknown`; the
daemon or the server dies.  `ReliableCalls` says that none but the first two
have; the properties that other failures break are claimed up to them.

Data: a rule has a pattern of one item with `Spec` and `Last`, a port (or the
automatic one) and the VF of its action, whose id (`VfIdOf`) is in the request; type,
mask, attributes and the other actions go over into the request unchanged and are
left out.  `getFlowCreateRequests` is what the code makes of a rule, `FlowOf` what the
rule means; the properties compare the flows in the server with the second.  The hash of a
request (`getFlowCreateHash`) is taken as injective, so a request stands for its
hash.  `PortOf`, the DCF port on the PF of a VF, is a constant: it is read from
sysfs and from `ListPorts`.  The port information `syncFlowConfig` writes to the
status is left out; no code reads it, and the event filter ignores the update.
`Query`, `List`, `Flush` and `Isolate` of the client have no caller.

### ClusterConfigManager

`bus` are the cards in every node.  The labeler (`findSupportedDevice`,
`LabelNode`, `UnlabelNode`) and the daemon's inventory (`GetInventory`,
`ReportDevices`) look at them when they run, so both can be behind; `TakeOut`
takes a card out.  A supported card is one whose vendor, class, subclass and id
are in the list of supported devices.  `ccs` are the EthernetClusterConfigs, `present` the nodes with the label
`intel-ethernet-present`, `enc` the EthernetNodeConfigs (devices reported, spec)
and `seen` the same in the manager's cache.  `ReconcileStart` lists configs and
nodes and determines `drainSkip`; one round of the loop per node is
`SyncNodeUpdate`, `SyncNodeNothing` (the new spec is a `DeepDerivative` of the
old one), `SyncNodeConflict` (the cache was behind) or `SyncNodeFails` (any other
error, logged); `ReconcileEnd` returns nil.  The lists come out of maps and the
contexts of the devices are a map, so `NewSpecs` is the set of outcomes over all
orders.  An EthernetNodeConfig that does not exist is like one without devices.

`DeepDerivative` is modelled by what it does with these specs: an empty string
or slice in the new value is not compared, a longer old slice matches on its
prefix, Booleans are compared.  A checksum goes with its URL.  `drainSkip` is
that of a Kubernetes deployment; on OpenShift the Infrastructure object decides.
A resource version that changed and changed back is no conflict in the model.
`clean` is a history variable: nothing failed, changed or was read too late since
Reconcile began.

The manager is told of EthernetClusterConfigs only: labels and devices that come
later are noticed at the next change of a config or at `Resync`.

### DeviceUpdate

`files` is the artifacts folder: for every device the downloaded archive, the
tools and profiles unpacked from it and the tool's result file.  `main` is
`prepareUpdateQueue` (per device: download, unpack and find the firmware, then
the DDP package) and the wait for `Run`; `worker[s]` is `drainFunc` (per device:
run nvmupdate64e, read its result, copy the profile to both places), with the
queue of paths it was given.  A path says nothing about the file that is there
when it is used.  Packages are model values; `Layout` says what is in each, and a
package that is not whole fails halfway, with the files before in place.
Publications change what a URL serves.  `LoseLease` lets `Run` return under its
worker, which goes on beside the next update in the same folders; `DrainHelper`
and `NodeConfigDaemon` say when that happens.  The search functions panic when
the folder they walk is gone (`FindPanics`), and the daemon comes back with its
folder as it was.

The result file is one of the cases that `isRebootRequired` tells apart: missing
or unreadable (the error means reboot), whole with its flag, or cut off before the
flag (no error, no reboot).  An unpacked file is taken to replace the one of the same
name whole: `Untar` and `Unzip` open it without `O_TRUNC` (`utils.go:285`, `:313`), and
the tail that a longer file of the same device may leave is not modelled.  `asked`, `alone`, `behind` and `cut` are history for
the properties.

### ClusterFlowConfig

`cfc`, `pod` and `nfc` are the objects in the API server, `hashMap` what the
controller remembers per ClusterFlowConfig and node, `queue` the requests, `rec` the
variables of the one Reconcile that runs.  A Reconcile reads the object, lists pods
and objects with the same selector, reads each NodeFlowConfig and makes its rules
anew per pod, and writes them at the end; or it cleans one node after the other.
Users edit objects, pods and NodeFlowConfigs in between.  A hash stands for its
rule.

All reads go to the informer caches of the manager.  ClusterFlowConfigs and pods are
written by others only and an event is sent when the cache has the change, so `cfc`
and `pod` stand for the cache as well.  NodeFlowConfigs are written by the controller
itself and not watched: `cache[n]` says whether the cache is `current`, has an `old`
version (an Update from it is a conflict) or has none yet (`absent`: a Create is
refused, and a cleanup takes the object for gone and forgets its hashes,
`CleanUnseen`).  `rec.stale` are the copies that were not current when they were read;
writing one is refused and only logged.

A pod is pending, runs, or has ended (`Succeeded`, `Failed`).  Pods of all phases are
listed with their node, but a change of labels is an event for running ones only.

`failed` records which failures have happened; those of `Retried` end in another try,
those of `Logged` are forgotten by the code, and `Consequences` follow from what else
happens: a pod passed over, a stale copy, labels of a pod that does not run, of which
the controller is not told (`unheard`).  `writers` records the selectors that wrote a
node.

### FlowMessages, FlowAdmission

`FlowMessages` has the names: every item and action type, and the fields of each
item message.  In `FlowAdmission` the bytes of spec, last and mask are a function
from the fields they set to numbers (a MAC is its 32 high and low bits; an address
that does not parse is `Bad`).  The validate functions are operators of the same
names.  `WriteNode` and `WriteCluster` write what the webhook lets in;
`CreateOrUpdate` is the controller writing what it generates, through the webhook
of the NodeFlowConfig; `SyncRules` is the daemon decoding the same bytes again, on
a node whose VFs and ports change.  A webhook that panics (an attribute or header
that is missing) refuses: the failure policy is `fail`.

### AssetManager, NodeAgentDeployment, Operator

`proc[r]` is a replica: down, at an asset's ConfigMap (read, write), reading the
ConfigMaps back, at the objects of an asset, one after the other (read, write), polling
until they are ready, or started.  A write is refused if the object has changed since
it was read, and the replica exits; it is started again.  ConfigMaps that a user marked
immutable are left.

An object is written unless the new one is a `DeepDerivative` of the old
(`asset.go:191`).  Of a ConfigMap's data, which is a map from keys to texts, this
compares the keys that the new data has (`DerivedData`); of an object, here a set of
fields, those that the new definition has (`DerivedContent`).  What a new version of
the operator only drops is therefore left where it is.  Simplifications: one ConfigMap
per file, objects not shared between ConfigMaps, one DaemonSet per asset that is waited
for; a ConfigMap that is itself held by a ConfigMap, and its immutability, are not
modelled.

`podOf[n]` is the agent pod of a node with its limits and annotations, `old` the
pool and annotation that the controller remembers, `tmpl` the limits in its pod
template, which all pods share.  Pods are deleted first and gone later; their
deletion is an event like any other.  `missed` and `failed` are history: an
event that the filter dropped although it mattered, a failure that was only
logged.  A node that goes takes its pod with it, unless it is back before the pod is
collected (`AddNode`, `ComesBackOld`).

In `Operator` the controller runs in the replica that leads; with it go queue,
remembered values and template.  The next leader begins with the object's Create
event.

## 3. Runs

| Run | Instance | Shows |
|---|---|---|
| `drainhelper` | 2 nodes, 1 slot, 1 attempt, releases that work or fail, lost leases, any failures and crashes, on one node a lease duration that may be refused; under fairness | `TypeOK`, `DrainOnlyWhileLeader`, `WorkOnDrainedNode`, `NilReturnMeansUncordoned`, refinement of `MaintenanceWindow`, `RunReturns` |
| `daemon_onenode` | 1 node, 2 devices, 4 generations, edits between updates, 3 failures, a lease duration that may be refused | `SucceededMeansApplied`, `RebootOnlyDrained`, `FinishOnlyAfterReboot`, `UpdatesComplete` |
| `daemon_disturbed` | 1 node, 1 device, 3 generations, edits and deletions at any time, a lease that can be lost, crashes, 2 failures | `UnfinishedIsPending`, `FlashOnlyByLeader`, `CordonIsTemporary` |
| `nodeflow` | 4 rules, 4 ids, 3 edits, 2 failures of any kind | `FlowTypeOK`, `NoStrayFlows`, `SyncedMeansEqual`, `CachedFlowsExist`, `SyncedRulesInForce`, `DeletedBeforeCreated`, `RulesArrive` |
| `manager_choice` | 3 nodes (one without supported cards), 3 devices, 2 configs, 3 kinds of spec, 2 edits, 1 failure, a cache that lags | `CleanMeansReflected`, `HighestPriorityWins`, `ConfigsArrive` |
| `clusterflow` | 2 objects with 2 selectors, 2 pods, 2 nodes, 2 edits, a cache that lags, 1 failure of any kind; under fairness | `RulesAreRecorded`, `DeletedIsGone`, `RestMeansReflected`, `ClusterRulesArrive` |
| `operator` | 2 replicas, 2 assets with 3 objects, 2 nodes, 2 pools, 2 annotations; 6 beginnings | `DeployedIsWhole`, `RestMeansCurrent`, `NoNeedlessDeletion`, `ResourcesArrive`, `ControllersRun` |
| `deviceupdate` | 2 devices, 3 firmware and 2 DDP packages, 2 workers, 3 troubles of any kind | `OnlyAskedIsStored`, `CurrentUsesItsOwn`, `EndedMeansStored`, `UpdatesEnd` |
| `admission` | every field of the items that are looked into, alone, at its limits; every item and action type | `AdmittedFits`, `RangesOrdered`, `GeneratedIsAdmitted`, `OnlyTheNodeRefuses` |
| `drainhelper_release` | 2 nodes that can renew, violation | `WorkKeepsLead` fails |
| `nodeflow_ranges` | 1 edit, no failure, violation | `RangesKept` fails |
| `manager_unmatched` | 3 edits, violation | `UnmatchedIsRemoved` fails |

Where a module has a type invariant of its own that is not listed, it is a conjunct
of one of the invariants: `DaemonTypeOK` of `RebootOnlyDrained`, `ManagerTypeOK` of
`CleanMeansReflected`, `ClusterTypeOK` of `DeletedIsGone`, `UpdateTypeOK` of
`OnlyAskedIsStored`, `AssetTypeOK` of `DeployedIsWhole`, `AgentTypeOK` of
`RestMeansCurrent`.

### Bounds

* Nodes: two in `drainhelper`, the holder of the lease and one that waits for it, or
  empties it.  The daemons are run on one node: what several of them do to each other
  they do through the helper, and `UsesHelper` shows that they use it as the helper's own
  specification says.  That a node is flashed only while it leads, which
  `daemon_disturbed` shows of one node that loses its lease, is `FlashedByLeader` for any
  number of nodes.  In
  `drainhelper_release` two are enough for the wrong order as well: the node whose
  cleanup emptied the lease acquires it again.  The theorems have no bound.
* Slots: with one slot the leftover worker of a node goes on while the other node
  leads and its own `Run`s wait for the slot; `deviceupdate` has a leftover worker
  beside the current one of the same node.  The theorems have no bound.
* Steps: 1 attempt in `drainhelper` and `daemon_disturbed`, 2 in `daemon_onenode` and
  `drainhelper_release`, instead of 5: 2 reach both branches of the loop, one more try and
  giving up.  The theorems have no bound.
* `MaxGen`: one empty generation and up to three specs, enough to request,
  change and withdraw.  `MaxFaults`: up to three failures, more than any
  property's counterexample needed while the models were written.
* Rules: four.  Two make the same request, because one is a range that ends where the
  other is; one is for another VF on the same port; one does not translate.  Three edits let a rule come,
  go and come back around a failure.  Four ids leave room for the flows that two
  failures can lose.
* Configs: two on the same device, with the same or another priority, created in
  the same second or not; the first node has a second device, so that a config
  can be in force for one of them.  Two edits write both configs, or write and
  take back one.
* Cluster rules: two objects that share a selector and a rule, or do not; a pod
  runs, another comes, on the same node or another, with or without the address
  that its rules need, and ends.  Two edits move a pod and change or delete an object;
  the theorems about the three safety properties have no bound.
* Packages: two firmware packages with their tool at the same place, a third with
  it elsewhere and a profile of its own, a profile whose archive is broken; three
  troubles let a lease be lost, the spec change and a call fail on top.
* Admission: one field at a time, so that a rule has one number at its limit or
  one above in spec, last or mask; the checks of the fields are independent of
  each other in the code.
* Operator: a fresh start, an upgrade from a version with a key and a field more, a
  field less or not, and an object missing, and a running operator with three edits
  and a failure, with four edits, or with two edits and a change of the leader.  Two readiness polls stand for the retries.
* `RebootPrompt`: in the runs the process does nothing more between the reboot order and
  the reboot; `UnfinishedPending` and `FlashedByLeader` do not assume it.

### Fairness

`FairSpec` and `DaemonFairSpec` assume that goroutines are scheduled and `f`
returns (weak fairness), that a 15-minute timer fires, that an ordered reboot
happens, that the DaemonSet restarts a dead process, and strong fairness of
taking the lease: the elector polls with a jittered `RetryPeriod` for as long as
`Run` lasts, so a lease that is free again and again is found free.  A lease duration
that the elector refuses again and again is corrected some day (strong fairness of
`Prepare` with one that is accepted).  No failure
and no spec change is ever required.  `FlowFairSpec`: the controller's goroutine is
scheduled and the pod restarts the daemon's container; it does not assume a
retry, which the code does not have, and `RulesArrive` says what follows from
that.  `ManagerFairSpec`: the loop of Reconcile goes on (its outcome is free, and
failures are bounded), the watch delivers every object to the cache, and the
informer resyncs (every 10 hours by default); `ConfigsArrive` needs the resync.
`ClusterFairSpec`: the controller's goroutine is scheduled and the informer resyncs;
a failure that returned an error is tried again because the request stays in the
queue.  `UpdateFairSpec`: preparation and every worker go on; nothing about the
server or the tools is assumed, since troubles are bounded.  `OperatorFairSpec`:
every replica goes on and is started again, a started replica is elected, the
leader's controller and informer go on, and Kubernetes removes deleted pods.  That
the pods of a DaemonSet become available is not assumed; it is the premise of
`ControllersRun`.  `admission` has no liveness.
Deadlock is not checked in the runs of the daemon, the updaters, the flow
controllers, the operator and the manager: with the edits and failures used up
they rightly come to rest.

## 4. What the violations say, and known limits

`drainhelper_release`: `Run` ends with a cleanup that empties the lease because, its
comment says, the elector's release fails.  With the pinned client-go it works.  Node
A releases, node B acquires and drains, the cleanup of A empties B's lease, and A, or
any other node, acquires it while B's worker runs: two nodes are out of service, and
one of them may be flashing.  `DrainOnlyWhileLeader`, `FlashOnlyByLeader` and
`MaintenanceWindow` hold for all nodes but the one that was robbed.

`nodeflow_ranges`: `getFlowCreateRequests` stores the decoded `Last` of a pattern item in
`Spec` (`nodeflowconfig_controller.go:315`), so that a range, as `creating-rules.md` shows
it, becomes its upper end.  `SyncedMeansEqual`, `SyncedRulesInForce` and `RulesArrive` are
about rules without ranges.

`manager_unmatched`: a config that is deleted or no longer matches leaves its
entries in the EthernetNodeConfig, because a spec with fewer entries is a
`DeepDerivative` of the old one and is not written; a test says it "should not be
reflected in any nc".

Behaviour of the code that the modules contain and that limits what is claimed:

* After a failed renewal `Run` returns `nil` while its goroutine still drains and
  updates the node; another node may lead by then.  The node counts as broken;
  `configureNode` takes the `nil` for the end of the update, and the object is reported
  `Succeeded`.
* A spec written while an update that needs a reboot is running is reported
  `Succeeded`, with its generation, after the reboot and is not applied
  (`daemon.go:259`): `SucceededMeansApplied` is claimed for edits between updates.  The
  same goes for an update that is being prepared when a leftover worker reboots the node.
* A daemon that dies between the condition `PostUpdateReboot` and the reboot order
  (`daemon.go:332`) makes the next one take the reboot as done: `FinishOnlyAfterReboot`
  is claimed without crashes.
* A lost `Succeeded` (`updateCondition` only logs its error) leaves `InProgress` behind
  with nothing queued: `UnfinishedIsPending` and `UpdatesComplete` are claimed without lost
  status updates, and the runs have none; `RebootsDrained` and `FlashedByLeader` are proved
  with them.
* A node stays cordoned for ever in three cases, which `CordonIsTemporary` leaves out:
  its lead was broken and the uncordon has lost its context; or the uncordon failed, or
  the daemon died, and the spec was then withdrawn (`daemon.go:273` reports
  `NotRequested` and does not uncordon) or set to skip the drain.
* The asset manager does not take back what a new version of the operator drops: a key
  that is no longer in a file stays in the ConfigMap, with its object, when nothing else
  in the ConfigMap changed, and a field that is gone from a definition stays in the
  object (`asset.go:191`).  `DeployedIsWhole` says that there is no less than files and
  ConfigMaps say.  No document says what becomes of the rest, so there is no run about
  it.
* A result file of nvmupdate64e that is cut off before its flag means no reboot
  (`deviceupdate.go:51`); `EndedMeansStored` leaves the case out.
* `findFwExec` and `findDdpProfile` panic on a folder that is removed under them.
* After a restart of the operator the rules of objects that are deleted later are
  only found if the object was reconciled in between (`hashMap` is in memory).
* A cleanup that comes before the cache has the NodeFlowConfig just created takes it for
  gone and forgets its hashes (`clusterflowconfig_controller.go:103`); a write from a copy
  that is behind is refused and only logged.  `RulesAreRecorded`, `DeletedIsGone` and
  `RestMeansReflected` are claimed without these.
* Rules that two ClusterFlowConfigs share go when one of them is cleaned up; rules
  of another selector, and of users, are overwritten when a node is rewritten; with
  two pods of an object on one node only the last one has rules; a node whose pod
  left keeps its rules while other pods of the object remain.
* A pod that does not run yet, or has ended, is listed with its node and addresses, but
  a change of its labels is no event: the rules made for it stay when it is no longer
  selected, and with two pods on a node they may be the last ones made, until the
  resync.
* The pool and annotation the agent controller remembers are shared by all objects
  and lost with the leader; a `Delete` that failed is forgotten, so that a pod may
  keep an old annotation; a pod may ask for VFs of earlier pools.
* A DaemonSet that was just created has an empty status and counts as ready; one
  unavailable pod of it later keeps every starting replica down.
* A cluster rule without actions is let in, and its NodeFlowConfig then has a rule
  whose port the daemon cannot find: no rule of the node is synced.
* MAC addresses are compared by their last 32 bits, IPv6 addresses are cut to
  theirs, `hdr_checksum` is limited to 255 where `creating-rules.md` has 65535, and
  PPPoE and UDP fields of last and mask are not compared with a spec that does not
  set them.
* A failed call of `Destroy` makes `deleteRules` read a nil response
  (`nodeflowconfig_controller.go:205`): the process panics, and the flows it knew
  stay in the server (`DeleteRulePanics`), as after any crash.
* A config in force that leaves `DDPURL` or `FWURL` unset is not written over one
  that set it (`ConfigDerives`); a node can have a mixture of two configs.
* Of two configs with the same priority and timestamp, the one that is written
  depends on the order of the list, so that two Reconciles may alternate.
* The doc comment of `Run` promises a reboot "without loosing the leadership";
  the lease is emptied before the reboot (`Mitigate`).
* Delete events pass the name filter of the daemons (`DeleteEvent`): a deleted
  EthernetNodeConfig is requeued by every daemon until it exists again, and may
  then be reconciled by the daemon of another node.

## 5. Proofs

Every theorem holds for all values of the constants: any number of nodes, devices,
rules, replicas, edits and failures.  What it takes for granted of the constants is
named at their declaration; apart from types, these assumptions say that a null
value (`None`, `NoObject`, `NoHolder`) is no member of the set it is added to, and
that `AssetStarts` has a leader only where all assets are deployed
(`LeaderAssumption`: `main.go` starts the manager after `LoadAndDeploy`); the ones about
pods and about configs and devices are named with the theorems that rest on them.
TLC evaluates all of them.  Hypotheses on what may fail are part of the theorem:

| Hypothesis | Meaning | Without it |
|---|---|---|
| `[]LeadKept` | no node loses its lead under its worker (`broken` stays empty); `AloneKeepsLead` shows it for one daemon that can renew | a worker outlives its `Run`, as in `daemon_disturbed`, or two nodes are updated at once, as in `drainhelper_release` |
| `Undisturbed` | no EthernetNodeConfig is deleted, or there is one daemon | a daemon may reconcile the object of another node |
| `Quiet` | nothing deleted, specs change between updates, no Reconcile between reboot order and reboot | section 4, `daemon.go:259` |
| `"status" \notin Faults` | an `updateCondition` whose error is only logged reaches the API server | the condition is that of an earlier step |
| `"crash" \notin Faults` | no crash of the daemon other than the reboot | section 4, `daemon.go:332` |

### DrainHelperProofs, NodeConfigDaemonProofs

* `TypeCorrect`: `Spec => []TypeOK`.  Inductive as it stands; the only arithmetic
  is the number of attempts, which `Retry` keeps below `Steps`.
* `LeaderOnly`: no hypothesis on the lease.  `DrainOnlyWhileLeader` excepts the broken
  nodes and is inductive (`LeaseStep`): a step that takes the lease from a node with a
  live worker (its own `StopLeading`, another node's `Mitigate`) puts the node into
  `broken`, and `Acquire` takes it out only when no worker of it is alive.
* `DrainedWhileWorking`, `NilMeansUncordoned`: `CordonInv` ties the worker's
  position to `cordoned` (it is set from `drain` on and until `uncordon`),
  `ReturnInv` ties an ended worker's error and `keep` to `cordoned`, both for nodes
  that are not broken.  They need `DrainOnlyWhileLeader`, since a second worker would
  uncordon under the first.
* `ImplementsWindow`: every step of the helper is a step or stutter of
  `MaintenanceWindow` under `inside <- {n : Draining(n)}`, with `DrainInv`.
* `UsesHelper`: the composition's steps are helper steps or leave the helper's
  variables alone, so `DaemonSpec => Spec` and the helper's theorems carry over
  (`DaemonsImplementWindow`).
* `FlashedByLeader`: devices change only in steps of a worker in `work`, and by
  `LeaderOnly` its node holds the lease or is broken.

### NodeConfigDaemonProofs: the updates

All of these are stated for behaviours with `[]LeadKept`: as long as nobody's lead is
broken.  For one daemon that can renew, `AloneKeepsLead` makes this a theorem: the only
cleanup is its own, and it comes after the worker's end.

The theorems are about one node `n` at a time.  `BaseInv` is what makes this
possible: the daemon of `n` has no request and no copy of another node's object
(`Own`), every live worker is the one its `Run` waits for (`NoLeftover`), and `Run` is
called by `configureNode` only (`RunInv`).  From it a step of another node is shown to
leave everything of `n` but the lease alone, once for all invariants.

* `UnfinishedPending`, under `Undisturbed /\ "status" \notin Faults`, with crashes,
  deletions and edits at any time.  `UnfinishedIsPending` says nothing of a Reconcile that
  is about to report; `PendingInv` adds that one which reports `Failed` comes back later,
  and that a worker which ended with `reboot` and without error has ordered the reboot.
* `RebootsDrained`, under `Quiet`, with crashes and lost conditions.  `RebootInv`: the
  copies of `drainSkip` in Reconcile, in `Run` and in the worker agree with the object,
  and once the reboot is ordered no worker is alive that could uncordon the node
  and `Run` is not called again.
* `SucceededTrue` and `FinishesAfterReboot`, under `Quiet` and without `status` and `crash`.
  `TruthInv` follows an update from its beginning to the condition: Reconcile's copy
  is the current spec, its place determines the condition, `PostUpdateReboot` means
  that all is stored and runs after the reboot.  `WorkInv` is its part for the time of
  the worker: a device that has left the queue is done, an error-free end means an
  empty queue, the mark is set when, and only when, all is stored and a reboot is due.

### NodeFlowConfigProofs

* `FlowTypeCorrect`: `FlowSpec => []FlowTypeOK`.
* `RulesInForce`: until the server restarts, after any other failures, a Reconcile without
  error leaves every rule without a range in force.  `CoverInv`: while Reconcile runs,
  every request of the spec is in the cache and not to be deleted, or still to be added,
  unless a change is outstanding; with `CachedFlowsExist` a record is a flow.
  `PlainTranslation` says that the request of a rule without a range is what the rule means.
  The lemma `WorkListsFit` (the two lists fit the cache) serves these proofs.
* `CacheIsTrue`: until the server restarts, a record names the flow of its rule.
* `NothingLost`, `SyncedIsEqual` and `DeletesFirst`, as long as `ReliableCalls`
  holds (only `ListPorts`, `Validate` and `Create` were refused): every flow has its
  record, after a Reconcile without error the server holds the flows that a spec without
  ranges means, and flows are created after all deletions.  Since `failed` only grows
  (`FailedGrows`), a step that keeps `ReliableCalls` is one of `ReliableSteps`.  The
  last two need `PlanInv`: while Reconcile runs, what stays in the cache and what is
  still to be added together are the requests of the spec, unless the object
  changed and a request is in the queue.

### DeviceUpdateProofs

No hypotheses: leftover workers, new publications and all failures are included.

* `OnlyAsked`: `AskedInv` extends `OnlyAskedIsStored` to all that can still reach a
  device: the files in its folder, the archive that is about to be unpacked, the tool
  that runs.
* `CurrentIsItsOwn`: `QueueInv`: the paths in the queue, of `main` and then of the worker
  that `Run` waits for, lead to what they led to when the device was prepared, or
  to nothing; the exception is the tool of a device between unpacking and finding its
  DDP package.
* `EndedIsStored`: `AloneInv` (a worker that is marked as undisturbed is the only one
  alive) and `StoredInv`: what such a worker has behind it is stored, and it knows
  of the reboot, or the result file it reads next says so.

### FlowAdmissionProofs

* `GeneratedAdmitted`: what `validateRules` asks of the pattern the other webhook has
  asked already; the actions that are generated end with `END` and have the address
  of an interface of the pod.
* `NodeAloneRefuses`: the error cases of the decoder in the daemon, one after the other,
  are excluded by `validateRules` or need an address or port that is not on the node.
* `Fits`, `Ordered`: from the guards of the validate functions, item type by item type.

`AdmissionInv`, which they share, says that what is stored was let in.  The rules that
users write are any lists whose fields have values of their Go types
(`RulesAssumption`).  That a list with a VF action has a first one takes an induction
over its indices, done as a minimal counterexample (`WFMin`).

### ClusterConfigManagerProofs

No hypotheses: edits, refused updates, late devices and labels and a cache that is
behind are included.

* `PriorityWins`: `prepareDeviceConfigContext` is a loop, written as a recursive function of
  the number of rounds.  `RoundsExist` shows that the recursion has a solution,
  `RoundLeads` its loop invariant (`Leads`: nothing so far matches, or what is left matches
  and beats all that match); both are minimal counterexamples (`LeastNat`) in place of
  induction.  `ContextIsBest` concludes that every order of the list leads to a config in
  force, and `NewSpec` that the new spec has one entry for each device that has one.
* `CleanIsReflected`: `CleanInv`: while Reconcile is clean it works with the current
  configs and `drainSkip`, and the nodes it is done with are `Reflected`.  The key lemma is
  `DerivedIsReflected`: a spec which the new one is a `DeepDerivative` of, and which is
  therefore left as it is, has what the configs in force set.

They rest on two facts about the cluster: there are finitely many configs and devices
(`FiniteAssumption`), and no two devices of a node have the same PCI address
(`AddressAssumption`), which the code uses as key of its map.

### ClusterFlowConfigProofs

* `RulesRecorded`, as long as no failure was only logged and no cleanup met a cache that
  lacked the object (`MemoryKept`): `RecordedInv` adds what Reconcile is about to write, whose hashes
  are recorded when the rules are made and not when they are written, and that in the
  middle of a cleanup the nodes already done have no rule of the request.
* `DeletedGone`: `GoneInv`: an object that is gone and has hashes waits in the queue for
  its cleanup or is in it; one that goes after another Reconcile listed it waits for
  its own turn, so that hashes recorded too late are found.
* `RestIsReflected`, with no hypothesis: the property itself excepts labels that went
  unheard and copies that were stale.  `RestInv` is about the objects that are not in the queue: all
  that Reconcile has listed of them is still so (`ListedInv`), and the rules for a pod that
  is alone on its node are there, or the object's own Reconcile is on its way to them
  (`ReachesInv`).  The key lemma is `Unheard`: of a pod that runs and is selected, no change
  goes by without a request.  `OriginInv` says where recorded rules come from, so
  that cleaning up one object does not touch the own rules of another.  The theorem
  rests on two facts about Kubernetes and users: a running pod has a node
  (`PodsAssumption`), and the objects at the start are among `Specs` (`InitAssumption`).

### OperatorProofs

* `DeploysWhole`: `AssetInv` says for every replica what it has behind it (`DeployInv`):
  ConfigMaps that have what the files say, then loaded contents equal to them, then
  objects that have what was loaded; and that a replica whose copy tells it to write nothing has seen an
  object that is right.  The key step is `Keeps`: with conflicting writes refused, no
  replica undoes what another has done.
* `RestsCurrent`, `DeletesWithReason`: `AgentInv`.  `MadeInv` says for which pool and
  annotation a pod was made, depending on whether this Reconcile has come to its node;
  `FitInv` says that without a request in the queue what was read is what there is, and
  that a node which is done fits.  A change of the leader puts a request in the queue
  and forgets `old`.

### Only model-checked

Liveness (`RunReturns`, `CordonIsTemporary`, `UpdatesComplete`, `UpdatesEnd`, `RulesArrive`,
`ClusterRulesArrive`, `ConfigsArrive`, `ResourcesArrive`, `ControllersRun`): fairness is out
of the prover's reach.  Every safety property that a passing run checks is also proved.

## 6. Plan

Done: drain helper, daemon and their composition, flow rule cache, manager with
labeler and inventory, updaters, distribution of rules to nodes, admission and
translation of rules, asset manager and agent deployment and their composition;
proofs of all their safety properties.

Compositions that would be worth the states: the manager with the daemon, in place
of `UpdateSpec`; `ClusterFlowConfig` with `NodeFlowConfig`, where a rule goes all the way
to the server.

## 7. Not modelled

* Generated code: deepcopy functions (values have no identity here), the accessors
  and the encoding of the protocol buffers, the gRPC stubs.  The item messages are
  modelled by their fields, the action messages only where they are decoded (VF,
  VFPCIADDR).
* Reads of sysfs, ethtool, devlink and environment variables: versions and MAC in
  the inventory, the PF of a VF as part of the node's state.
* `drainSkip` on OpenShift, where the Infrastructure object decides.
* The status of the NodeFlowConfig (port information), which no code reads.
* Two FlowConfigNodeAgentDeployments at once; deletion of a NodeFlowConfig that the
  cluster controller made; templates in the assets' files.
* TLS and the certificates of the download; sizes and time limits of files, which
  are failures of the calls they guard.
* Kubernetes itself: API server, informers and kubectl's drain are modelled by
  the contract the code relies on.
