------------------------- MODULE ClusterConfigManager -------------------------
(***************************************************************************)
(* pkg/fwddp-manager: the controller that turns the EthernetClusterConfigs *)
(* of the cluster into the specs of the EthernetNodeConfigs, one per node. *)
(*                                                                         *)
(* It is told of changes of EthernetClusterConfigs only.  Nodes, their     *)
(* labels and the devices the daemons report are read when it reconciles,  *)
(* the EthernetNodeConfigs from a cache that may lag behind.  The label    *)
(* comes from pkg/labeler and the devices from the inventory of            *)
(* pkg/fwddp-daemon, which both look for supported cards on the PCI bus.   *)
(***************************************************************************)
EXTENDS Integers, FiniteSets, Sequences, Functions

CONSTANTS
  Nodes,       \* the nodes of the cluster
  Configs,     \* names of EthernetClusterConfigs
  Labels,      \* labels (key and value) a node selector may ask for
  NodeLabels,  \* per node, its labels
  Bus,         \* per node, its PCI devices: vendor, class, subclass, id, address
  Supported,   \* devices.json: vendor, class, subclass and id
  None,        \* a field that is not set
  Versions,    \* packages a DDPURL or FWURL may name
  Specs,       \* the specs users may write, see ClusterSpec
  CacheLag,    \* TRUE: the cache of EthernetNodeConfigs may be behind
  MaxEdits,    \* bound: changes of configs, and cards taken out
  MaxFaults    \* bound: updates the API server refuses

\* isDeviceSupported, the same in the labeler and in the inventory.
isDeviceSupported(d) ==
  [vendor |-> d.vendor, class |-> d.class, subclass |-> d.subclass, id |-> d.id] \in Supported

\* GetInventory: the supported devices, by what the manager looks at.  (Names,
\* drivers and versions are for the user; where they cannot be read, they are
\* left empty and the device is reported all the same.)
GetInventory(devices) ==
  {[vendor |-> d.vendor, pci |-> d.pci, id |-> d.id] : d \in {e \in devices : isDeviceSupported(e)}}

\* findSupportedDevice of the labeler.
findSupportedDevice(devices) == \E d \in devices : isDeviceSupported(d)

Found == UNION {GetInventory(Bus[n]) : n \in Nodes}
Pcis == {d.pci : d \in Found}

\* A checksum goes with its URL, so that one field stands for both.
DeviceConfig == [ddp : Versions \cup {None}, fw : Versions \cup {None}]

DeviceSelector == [vendor : {d.vendor : d \in Found} \cup {None},
                   pci : Pcis \cup {None}, id : {d.id : d \in Found} \cup {None}]

ClusterSpec == [nodes : SUBSET Labels, devices : DeviceSelector,
                config : DeviceConfig, priority : Int]

ASSUME SpecsAssumption == Specs \subseteq ClusterSpec
ASSUME LabelsAssumption == NodeLabels \in [Nodes -> SUBSET Labels]
ASSUME BusAssumption == Bus = [n \in Nodes |-> Bus[n]]
ASSUME FiniteAssumption == IsFiniteSet(Configs) /\ \A n \in Nodes : IsFiniteSet(Bus[n])
ASSUME AddressAssumption == \A n \in Nodes : \A d, e \in Bus[n] : d.pci = e.pci => d = e
ASSUME ManagerBounds == MaxEdits \in Nat /\ MaxFaults \in Nat /\ CacheLag \in BOOLEAN

VARIABLES
  ccs,      \* the EthernetClusterConfigs: absent, or spec and time of creation
  now,      \* the latest creation timestamp (in seconds)
  bus,      \* the PCI devices that are in each node now
  present,  \* the nodes labelled intel-ethernet-present
  enc,      \* the EthernetNodeConfigs in the API server
  seen,     \* the same in the manager's cache
  pending,  \* the queue holds a request (Reconcile ignores which)
  pc,       \* "idle", or "sync" in the loop over the nodes
  listed,   \* clusterConfigs as Reconcile listed them
  skip,     \* drainSkip as Reconcile determined it
  todo,     \* the listed nodes that are still to come
  clean,    \* nothing failed, changed or was stale since Reconcile began
  edits,    \* changes still allowed
  budget    \* failures still allowed

reads == <<ccs, now, bus, present>>
writes == <<enc, seen>>
loop == <<pc, listed, skip, todo>>
managerVars == <<reads, writes, loop, pending, clean, edits, budget>>

NoConfig == [exists |-> FALSE]

\* getOrInitializeEthernetNodeConfig: an object that is missing is like one
\* without devices, for which nothing is ever written.
NoNodeConfig == [found |-> {}, config |-> <<>>, skip |-> FALSE]

\* An entry of Spec.Config.
Entry == [pci : Pcis, config : DeviceConfig]

ManagerTypeOK ==
  /\ \A all \in {ccs, listed} : all \in
       [Configs -> {NoConfig} \cup [exists : {TRUE}, spec : Specs, created : 1 .. now]]
  /\ bus \in [Nodes -> SUBSET UNION {Bus[n] : n \in Nodes}]
  /\ present \subseteq Nodes /\ todo \subseteq Nodes
  /\ \A n \in Nodes : \A e \in {enc[n], seen[n]} :
       /\ e.skip \in BOOLEAN
       /\ e.found \subseteq GetInventory(Bus[n])
       /\ Range(e.config) \subseteq Entry
       /\ \A i, j \in DOMAIN e.config : e.config[i].pci = e.config[j].pci => i = j
  /\ pc \in {"idle", "sync"}
  /\ pending \in BOOLEAN /\ skip \in BOOLEAN /\ clean \in BOOLEAN
  /\ edits \in Nat /\ budget \in Nat

ManagerInit ==
  /\ ccs = [c \in Configs |-> NoConfig]
  /\ now = 0
  /\ bus = Bus
  /\ present = {}
  /\ enc = [n \in Nodes |-> NoNodeConfig]
  /\ seen = enc
  /\ pending = FALSE
  /\ pc = "idle"
  /\ listed = ccs
  /\ skip = FALSE
  /\ todo = {}
  /\ clean = FALSE
  /\ edits = MaxEdits
  /\ budget = MaxFaults

-----------------------------------------------------------------------------
(* What Reconcile computes for a node *)

\* DeviceSelector.Matches
Matches(ds, d) ==
  /\ ds.vendor \in {None, d.vendor}
  /\ ds.pci \in {None, d.pci}
  /\ ds.id \in {None, d.id}

\* matchConfigsForNode
matchConfigsForNode(n, all) ==
  {c \in Configs : all[c].exists /\ all[c].spec.nodes \subseteq NodeLabels[n]}

\* Faulty: of configs with the same priority the first one stays.
OverridesByPriority(current, previous) ==
  current.spec.priority > previous.spec.priority

\* The switch of prepareDeviceConfigContext: current replaces previous.
Overrides(current, previous) ==
  \/ current.spec.priority > previous.spec.priority
  \/ /\ current.spec.priority = previous.spec.priority
     /\ current.created > previous.created

\* prepareDeviceConfigContext for one device: the configs in the order of the
\* list, the one that is left.
prepareDeviceConfigContext(d, configs) ==
  LET left[i \in 0 .. Len(configs)] ==
        IF i = 0 THEN NoConfig
        ELSE IF /\ Matches(configs[i].spec.devices, d)
                /\ left[i - 1] = NoConfig \/ Overrides(configs[i], left[i - 1])
             THEN configs[i] ELSE left[i - 1]
  IN left[Len(configs)]

\* The members of S, in any order.
Orders(S) == Bijection(1 .. Cardinality(S), S)

\* synchronizeNodeConfigSpec: the specs it may come to.  The list of configs
\* and the map of devices come in any order; drainSkip is set with an entry.
NewSpecs(n) ==
  UNION {LET configs == [i \in DOMAIN order |-> listed[order[i]]]
             context == [d \in seen[n].found |-> prepareDeviceConfigContext(d, configs)]
             devices == {d \in seen[n].found : context[d].exists}
             entries == {[pci |-> d.pci, config |-> context[d].spec.config] : d \in devices}
         IN {[config |-> s, skip |-> skip /\ s # <<>>] : s \in Orders(entries)}
         : order \in Orders(matchConfigsForNode(n, listed))}

-----------------------------------------------------------------------------
(* equality.Semantic.DeepDerivative: what is not set in new is not compared *)

ConfigDerives(new, old) ==
  /\ new.ddp \in {None, old.ddp}
  /\ new.fw \in {None, old.fw}

\* Faulty: only the devices are compared, not their configs.
DeepDerivativeDevices(new, old) ==
  /\ Len(new.config) <= Len(old.config)
  /\ \A i \in DOMAIN new.config : new.config[i].pci = old.config[i].pci
  /\ new.skip = old.skip

\* Faulty: drainSkip is not compared.
DeepDerivativeConfig(new, old) ==
  /\ Len(new.config) <= Len(old.config)
  /\ \A i \in DOMAIN new.config :
       /\ new.config[i].pci = old.config[i].pci
       /\ ConfigDerives(new.config[i].config, old.config[i].config)

DeepDerivative(new, old) ==
  /\ Len(new.config) <= Len(old.config)
  /\ \A i \in DOMAIN new.config :
       /\ new.config[i].pci = old.config[i].pci
       /\ ConfigDerives(new.config[i].config, old.config[i].config)
  /\ new.skip = old.skip

-----------------------------------------------------------------------------
(* Reconcile *)

\* GetDrainSkip: at most one labelled node is a single-node cluster.
getDrainSkip == Cardinality(present) <= 1

ReconcileStart ==
  /\ pc = "idle"
  /\ pending
  /\ pending' = FALSE
  /\ pc' = "sync"
  /\ listed' = ccs
  /\ skip' = getDrainSkip
  /\ todo' = present
  /\ clean' = TRUE
  /\ UNCHANGED <<reads, writes, edits, budget>>

\* One round of the loop over the nodes.
Round(n) ==
  /\ pc = "sync"
  /\ n \in todo
  /\ todo' = todo \ {n}
  /\ UNCHANGED <<reads, pc, listed, skip, pending, edits>>

\* The object changes; the cache follows now or later.
Write(n, object) ==
  /\ enc' = [enc EXCEPT ![n] = object]
  /\ seen' = IF CacheLag THEN seen ELSE [seen EXCEPT ![n] = object]

\* The new spec replaces the old one.
SyncNodeUpdate(n) ==
  /\ Round(n)
  /\ seen[n] = enc[n]
  /\ \E new \in NewSpecs(n) :
       /\ ~DeepDerivative(new, seen[n])
       /\ Write(n, [enc[n] EXCEPT !.config = new.config, !.skip = new.skip])
  /\ UNCHANGED <<clean, budget>>

SyncNodeNothing(n) ==
  /\ Round(n)
  /\ \E new \in NewSpecs(n) : DeepDerivative(new, seen[n])
  /\ clean' = (clean /\ seen[n] = enc[n])
  /\ UNCHANGED <<writes, budget>>

\* The update of an object that is newer in the API server is refused; the
\* error is logged and the loop goes on.
SyncNodeConflict(n) ==
  /\ Round(n)
  /\ seen[n] # enc[n]
  /\ \E new \in NewSpecs(n) : ~DeepDerivative(new, seen[n])
  /\ clean' = FALSE
  /\ UNCHANGED <<writes, budget>>

\* Any other failure of the Get or the Update is logged as well.
SyncNodeFails(n) ==
  /\ Round(n)
  /\ budget > 0
  /\ budget' = budget - 1
  /\ clean' = FALSE
  /\ UNCHANGED writes

\* Reconcile returns the error of getDrainSkip, which is nil here.
ReconcileEnd ==
  /\ pc = "sync"
  /\ todo = {}
  /\ pc' = "idle"
  /\ listed' = [c \in Configs |-> NoConfig]
  /\ skip' = FALSE
  /\ UNCHANGED <<reads, writes, todo, pending, clean, edits, budget>>

-----------------------------------------------------------------------------
(* The rest of the cluster *)

\* Something Reconcile reads has changed.
Change == clean' = FALSE /\ UNCHANGED <<loop, budget>>

Edit ==
  /\ Change
  /\ edits > 0
  /\ edits' = edits - 1

\* Two objects may be created within the same second.
CreateConfig(c, s) ==
  /\ Edit
  /\ ~ccs[c].exists
  /\ now' \in {now, now + 1} \ {0}
  /\ ccs' = [ccs EXCEPT ![c] = [exists |-> TRUE, spec |-> s, created |-> now']]
  /\ pending' = TRUE
  /\ UNCHANGED <<bus, present, writes>>

EditConfig(c, s) ==
  /\ Edit
  /\ ccs[c].exists
  /\ ccs[c].spec # s
  /\ ccs' = [ccs EXCEPT ![c].spec = s]
  /\ pending' = TRUE
  /\ UNCHANGED <<now, bus, present, writes>>

DeleteConfig(c) ==
  /\ Edit
  /\ ccs[c].exists
  /\ ccs' = [ccs EXCEPT ![c] = NoConfig]
  /\ pending' = TRUE
  /\ UNCHANGED <<now, bus, present, writes>>

\* A card is taken out of a node.
TakeOut(n, d) ==
  /\ Edit
  /\ d \in bus[n]
  /\ bus' = [bus EXCEPT ![n] = @ \ {d}]
  /\ UNCHANGED <<ccs, now, present, writes, pending>>

\* DeviceDiscovery: the labeler, which runs when its pod starts, finds a device ...
LabelNode(n) ==
  /\ Change
  /\ findSupportedDevice(bus[n]) /\ n \notin present
  /\ present' = present \cup {n}
  /\ UNCHANGED <<ccs, now, bus, writes, pending, edits>>

\* ... or none any more (a bus without any device is an error).
UnlabelNode(n) ==
  /\ Change
  /\ bus[n] # {} /\ ~findSupportedDevice(bus[n]) /\ n \in present
  /\ present' = present \ {n}
  /\ UNCHANGED <<ccs, now, bus, writes, pending, edits>>

\* The daemon of the node has created the object and reports the devices; where
\* it finds no bus at all, it reports nothing.
ReportDevices(n) ==
  /\ Change
  /\ bus[n] # {} /\ enc[n].found # GetInventory(bus[n])
  /\ Write(n, [enc[n] EXCEPT !.found = GetInventory(bus[n])])
  /\ UNCHANGED <<reads, pending, edits>>

CacheCatchesUp(n) ==
  /\ seen[n] # enc[n]
  /\ seen' = [seen EXCEPT ![n] = enc[n]]
  /\ UNCHANGED <<reads, enc, loop, pending, clean, edits, budget>>

\* The informer's resync (every 10 hours by default) passes all objects again.
Resync ==
  /\ ~pending
  /\ \E c \in Configs : ccs[c].exists
  /\ pending' = TRUE
  /\ UNCHANGED <<reads, writes, loop, clean, edits, budget>>

-----------------------------------------------------------------------------
ManagerNext ==
  \/ ReconcileStart \/ ReconcileEnd \/ Resync
  \/ \E n \in Nodes :
       \/ SyncNodeUpdate(n) \/ SyncNodeNothing(n) \/ SyncNodeConflict(n)
       \/ SyncNodeFails(n) \/ CacheCatchesUp(n)
       \/ LabelNode(n) \/ UnlabelNode(n) \/ ReportDevices(n)
       \/ \E d \in Bus[n] : TakeOut(n, d)
  \/ \E c \in Configs :
       \/ \E s \in Specs : CreateConfig(c, s) \/ EditConfig(c, s)
       \/ DeleteConfig(c)

ManagerSpec == ManagerInit /\ [][ManagerNext]_managerVars

\* The controller goes on with its loop, caches catch up and informers resync.
ManagerFairSpec ==
  /\ ManagerSpec
  /\ WF_<<pc, todo>>(ReconcileStart \/ ReconcileEnd \/ \E n \in Nodes : Round(n))
  /\ WF_managerVars(Resync)
  /\ \A n \in Nodes : WF_managerVars(CacheCatchesUp(n))

-----------------------------------------------------------------------------
(* Properties *)

\* The configs in force for a device of a node: they match it, and no other
\* that does has a higher priority or, with the same priority, is newer.
Best(n, d, all) ==
  LET candidates == {c \in matchConfigsForNode(n, all) : Matches(all[c].spec.devices, d)}
  IN {c \in candidates : \A o \in candidates :
        \/ all[c].spec.priority > all[o].spec.priority
        \/ /\ all[c].spec.priority = all[o].spec.priority
           /\ all[c].created >= all[o].created}

\* What Reconcile writes for a device is the config in force for it, whatever
\* the order of the list ("Higher priority policies can override lower ones").
HighestPriorityWins ==
  [][\A n \in Nodes :
       enc'[n].config # enc[n].config =>
         \A d \in seen[n].found :
           LET mine == {e \in Range(enc'[n].config) : e.pci = d.pci}
           IN IF Best(n, d, listed) = {} THEN mine = {}
              ELSE \E c \in Best(n, d, listed) :
                     mine = {[pci |-> d.pci, config |-> listed[c].spec.config]}]_managerVars

Configured(n, d) ==
  \E e \in Range(enc[n].config), c \in Best(n, d, ccs) :
    e.pci = d.pci /\ ConfigDerives(ccs[c].spec.config, e.config)

\* Every device has what the config in force for it sets, and the drain is
\* skipped just when there is nowhere to go.
Reflected(n) ==
  \A d \in enc[n].found :
    Best(n, d, ccs) # {} => Configured(n, d) /\ enc[n].skip = getDrainSkip

Clean == pc = "idle" /\ clean

\* A Reconcile in which nothing failed, changed or was read too late leaves every
\* node with what the configs in force set.
\* (The variables have their types.)
CleanMeansReflected ==
  /\ ManagerTypeOK
  /\ Clean => \A n \in present : Reflected(n)

\* Devices reported late, labels that come later, refused updates and a cache
\* that was behind are made up for: once nothing changes any more, every node
\* gets what the configs in force set.
ConfigsArrive ==
  <>[](\A n \in present : Reflected(n))

\* A device that no config matches is in no EthernetNodeConfig ("when cc
\* doesn't match to any node it should not be reflected in any nc").
UnmatchedIsRemoved ==
  Clean => \A n \in present : \A d \in enc[n].found :
    Best(n, d, ccs) = {} => \A e \in Range(enc[n].config) : e.pci # d.pci
=============================================================================
