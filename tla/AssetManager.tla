------------------------------ MODULE AssetManager ------------------------------
(***************************************************************************)
(* main.go and pkg/utils/assets: what each replica of the operator does    *)
(* when it starts.  It writes a ConfigMap per asset from its files, reads  *)
(* the ConfigMaps back, writes the objects that they hold (roles, accounts *)
(* and a DaemonSet) and waits for some DaemonSets to be ready; then it     *)
(* starts its manager, and the leader among the started replicas runs the  *)
(* controllers.  Any error ends the process, and it is started again.      *)
(*                                                                         *)
(* All replicas do this at once.  A write names the version of the object  *)
(* that the replica has read: a create fails if there is one, an update if *)
(* it has changed.  (The version is taken to be the object's value.)       *)
(***************************************************************************)
EXTENDS Naturals, FiniteSets, Sequences

CONSTANTS
  Replicas,    \* the operator's pods
  Assets,      \* a sequence: the assets in the order they are deployed
  Objects,     \* the objects that the ConfigMaps of the assets can hold
  ObjectsOf,   \* per asset, the objects that its ConfigMap can hold
  Blocking,    \* the DaemonSets that are waited for (Retries > 0)
  Contents,    \* what an object can hold: sets of fields with their values
  FileContent, \* per asset, what the operator's file says
  NoReplica,   \* no leader
  NoObject,    \* an object that is not there
  AssetStarts, \* how it begins: see AssetStart
  Retries      \* readiness polls before the replica gives up

AssetNames == {Assets[i] : i \in DOMAIN Assets}

\* The data of a ConfigMap: under the key of an object, its definition.
Data == UNION {[O -> Contents] : O \in SUBSET Objects}
ConfigMap == [data : Data, immutable : BOOLEAN]
Object == [data : Contents, unavailable : BOOLEAN]

\* ConfigMaps that hold only objects of their asset.
Own(ms) == \A a \in AssetNames : ms[a] # NoObject => DOMAIN ms[a].data \subseteq ObjectsOf[a]

ASSUME AssetsAssumption == Assets \in Seq(AssetNames) /\ Len(Assets) > 0
\* Assets do not share objects; each waits for one DaemonSet at most.
ASSUME ObjectsAssumption ==
  /\ ObjectsOf \in [AssetNames -> SUBSET Objects] /\ Blocking \subseteq Objects
  /\ \A a, b \in AssetNames : a # b => ObjectsOf[a] \cap ObjectsOf[b] = {}
  /\ \A a \in AssetNames : \A o, q \in Blocking \cap ObjectsOf[a] : o = q
ASSUME ContentsAssumption ==
  /\ FileContent \in [AssetNames -> Data]
  /\ \A a \in AssetNames : DOMAIN FileContent[a] \subseteq ObjectsOf[a]
  /\ NoObject \notin ConfigMap \cup Object
ASSUME ReplicasAssumption == NoReplica \notin Replicas
ASSUME RetriesAssumption == Retries \in Nat \ {0}

\* A beginning: the ConfigMaps and objects that an earlier version has left, the
\* replica that leads if all have started already, and two bounds: replicas that
\* fail for a reason of their own, changes that users make to ConfigMaps.
AssetStart ==
  [maps : [AssetNames -> ConfigMap \cup {NoObject}],
   objs : [Objects -> Object \cup {NoObject}],
   leader : Replicas \cup {NoReplica}, exits : Nat, pins : Nat]

\* Semantic.DeepDerivative of a ConfigMap's data: definitions are texts and are
\* compared whole, but keys that the new data leaves out are not looked at.
DerivedData(new, old) == \A o \in DOMAIN new : o \in DOMAIN old /\ new[o] = old[o]

\* Semantic.DeepDerivative of an object: fields and list entries that the new
\* content leaves out are not looked at.
DerivedContent(new, old) == new \subseteq old

\* What LoadAndDeploy sees to: every asset has its ConfigMap, which has all that
\* the operator's file says unless a user made it immutable, and every object in
\* it is there with all that its definition says.  (What an earlier version left
\* in a ConfigMap or an object beyond that may stay.)
Whole(ms, os) ==
  \A a \in AssetNames :
    /\ ms[a] # NoObject /\ (ms[a].immutable \/ DerivedData(FileContent[a], ms[a].data))
    /\ \A o \in DOMAIN ms[a].data : os[o] # NoObject /\ DerivedContent(ms[a].data[o], os[o].data)

ASSUME AssetStartsAssumption == AssetStarts \subseteq AssetStart /\ \A b \in AssetStarts : Own(b.maps)
\* A replica leads only after it has deployed all assets.
ASSUME LeaderAssumption == \A b \in AssetStarts : b.leader # NoReplica => Whole(b.maps, b.objs)

VARIABLES
  maps,    \* the ConfigMaps
  objs,    \* the objects of the assets
  proc,    \* every replica: where it is, its asset and object, what it read, its polls
  leader,  \* the replica whose controllers run
  settled, \* nobody wrote ConfigMaps since a replica deployed all assets
  exits, pins  \* what is left of the bounds

assetVars == <<maps, objs, proc, leader, settled, exits, pins>>

Down == [pc |-> "down", at |-> 1, hand |-> NoObject, done |-> {}, seen |-> NoObject,
         loaded |-> <<>>, polls |-> 0]

Deploying(r) == proc[r].pc \notin {"down", "started"}
Asset(r) == Assets[proc[r].at]

\* The objects of the asset at hand, once it is loaded.
Load(r) == DOMAIN proc[r].loaded[Asset(r)]

AssetTypeOK ==
  /\ maps \in [AssetNames -> ConfigMap \cup {NoObject}] /\ Own(maps)
  /\ objs \in [Objects -> Object \cup {NoObject}]
  /\ \A r \in Replicas :
       /\ proc[r].pc \in {"down", "readMap", "writeMap", "load", "readObject", "writeObject",
                          "wait", "started"}
       /\ proc[r].at \in DOMAIN Assets /\ proc[r].polls \in 0..Retries
       /\ DOMAIN proc[r].loaded \subseteq AssetNames
       /\ proc[r].pc \in {"readObject", "writeObject", "wait"} =>
            Asset(r) \in DOMAIN proc[r].loaded /\ proc[r].done \subseteq Load(r)
       /\ proc[r].pc = "writeObject" => proc[r].hand \in Load(r)
  /\ leader \in Replicas \cup {NoReplica}
  /\ leader # NoReplica => proc[leader].pc = "started"
  /\ settled \in BOOLEAN /\ exits \in Nat /\ pins \in Nat

AssetInit(b) ==
  /\ maps = b.maps
  /\ objs = b.objs
  /\ proc = [r \in Replicas |-> IF b.leader = NoReplica THEN Down ELSE [Down EXCEPT !.pc = "started"]]
  /\ leader = b.leader
  /\ settled = (b.leader # NoReplica)
  /\ exits = b.exits /\ pins = b.pins

-----------------------------------------------------------------------------
\* os.Exit(1): the replica is down.
Exit(r) == proc' = [proc EXCEPT ![r] = Down]

goto(r, l) == proc' = [proc EXCEPT ![r].pc = l]

\* The next asset of the same phase, or the first of the next one.
NextAsset(p, same, next) ==
  LET fresh == [p EXCEPT !.hand = NoObject, !.done = {}, !.seen = NoObject, !.polls = 0]
  IN IF p.at < Len(Assets) THEN [fresh EXCEPT !.pc = same, !.at = p.at + 1]
     ELSE [fresh EXCEPT !.pc = next, !.at = 1]

\* main, up to LoadFromFile.
OperatorStart(r) ==
  /\ proc[r].pc = "down"
  /\ goto(r, "readMap")
  /\ UNCHANGED <<maps, objs, leader, settled, exits, pins>>

\* createOrUpdate of a ConfigMap: the Get.
ReadMap(r) ==
  /\ proc[r].pc = "readMap"
  /\ proc' = [proc EXCEPT ![r].pc = "writeMap", ![r].seen = maps[Asset(r)]]
  /\ UNCHANGED <<maps, objs, leader, settled, exits, pins>>

\* What a replica makes of the file of an asset.
LoadFromFile(a) == [data |-> FileContent[a], immutable |-> FALSE]

\* Faulty: a ConfigMap that is there is never updated.
MapIsLeftIfThere(a, seen) == seen # NoObject

\* An immutable ConfigMap is passed over, and one that holds what the file says.
MapIsLeft(a, seen) ==
  seen # NoObject /\ (seen.immutable \/ DerivedData(LoadFromFile(a).data, seen.data))

\* Faulty: a ConfigMap that is there is created again.
WriteMapAlwaysCreates(r) ==
  /\ proc[r].pc = "writeMap"
  /\ IF maps[Asset(r)] = NoObject
       THEN /\ maps' = [maps EXCEPT ![Asset(r)] = LoadFromFile(Asset(r))]
            /\ proc' = [proc EXCEPT ![r] = NextAsset(proc[r], "readMap", "load")]
       ELSE Exit(r) /\ UNCHANGED maps
  /\ UNCHANGED <<objs, leader, settled, exits, pins>>

\* Create or Update; another replica or a user may have been faster.
WriteMap(r) ==
  /\ proc[r].pc = "writeMap"
  /\ \/ /\ MapIsLeft(Asset(r), proc[r].seen)
        /\ proc' = [proc EXCEPT ![r] = NextAsset(proc[r], "readMap", "load")]
        /\ UNCHANGED maps
     \/ /\ ~MapIsLeft(Asset(r), proc[r].seen) /\ maps[Asset(r)] = proc[r].seen
        /\ maps' = [maps EXCEPT ![Asset(r)] = LoadFromFile(Asset(r))]
        /\ proc' = [proc EXCEPT ![r] = NextAsset(proc[r], "readMap", "load")]
     \/ ~MapIsLeft(Asset(r), proc[r].seen) /\ maps[Asset(r)] # proc[r].seen /\ Exit(r) /\ UNCHANGED maps
  /\ UNCHANGED <<objs, leader, settled, exits, pins>>

\* loadFromConfigMap: what an asset held before is gone.
LoadMap(r) ==
  LET was == proc[r].loaded
      loaded == [a \in DOMAIN was \cup {Asset(r)} |-> IF a = Asset(r) THEN maps[a].data ELSE was[a]]
  IN /\ proc[r].pc = "load"
     /\ IF maps[Asset(r)] = NoObject THEN Exit(r)
        ELSE proc' = [proc EXCEPT ![r] = NextAsset([proc[r] EXCEPT !.loaded = loaded], "load", "readObject")]
     /\ UNCHANGED <<maps, objs, leader, settled, exits, pins>>

\* createOrUpdate of the objects, in any order: the Get.
GetObject(r) ==
  /\ proc[r].pc = "readObject"
  /\ \E o \in Load(r) \ proc[r].done :
       proc' = [proc EXCEPT ![r].pc = "writeObject", ![r].hand = o, ![r].seen = objs[o]]
  /\ UNCHANGED <<maps, objs, leader, settled, exits, pins>>

\* Create or Update, unless the object has what its definition says.  A new
\* DaemonSet has an empty status, and one that was changed has its old one, until
\* Kubernetes has looked at it.
PutObject(r) ==
  LET o == proc[r].hand
      want == proc[r].loaded[Asset(r)][o]
      left == proc[r].seen # NoObject /\ DerivedContent(want, proc[r].seen.data)
      next == [proc EXCEPT ![r].pc = "readObject", ![r].done = @ \cup {o}]
  IN /\ proc[r].pc = "writeObject"
     /\ \/ left /\ proc' = next /\ UNCHANGED objs
        \/ /\ ~left /\ objs[o] = proc[r].seen
           /\ objs' = [objs EXCEPT ![o] = [data |-> want, unavailable |->
                         objs[o] # NoObject /\ objs[o].unavailable]]
           /\ proc' = next
        \/ ~left /\ objs[o] # proc[r].seen /\ Exit(r) /\ UNCHANGED objs
     /\ UNCHANGED <<maps, leader, settled, exits, pins>>

\* All objects of the asset are written.
ObjectsWritten(r) ==
  /\ proc[r].pc = "readObject" /\ Load(r) \subseteq proc[r].done
  /\ proc' = [proc EXCEPT ![r].pc = "wait", ![r].polls = Retries]
  /\ UNCHANGED <<maps, objs, leader, settled, exits, pins>>

\* waitUntilReady: none unavailable, or not waited for; the last asset leads to
\* mgr.Start.
Ready(r) ==
  LET done == NextAsset(proc[r], "readObject", "started")
  IN /\ proc[r].pc = "wait"
     /\ \A o \in Blocking \cap Load(r) : objs[o] # NoObject /\ ~objs[o].unavailable
     /\ proc' = [proc EXCEPT ![r] = IF done.pc = "started" THEN [Down EXCEPT !.pc = "started"] ELSE done]
     /\ settled' = (settled \/ done.pc = "started")
     /\ UNCHANGED <<maps, objs, leader, exits, pins>>

\* One more poll, or none left.
NotReady(r) ==
  /\ proc[r].pc = "wait"
  /\ \E o \in Blocking \cap Load(r) : objs[o] # NoObject /\ objs[o].unavailable
  /\ IF proc[r].polls > 1 THEN proc' = [proc EXCEPT ![r].polls = @ - 1] ELSE Exit(r)
  /\ UNCHANGED <<maps, objs, leader, settled, exits, pins>>

\* A started replica becomes the leader.
Elect(r) ==
  /\ leader = NoReplica /\ proc[r].pc = "started"
  /\ leader' = r
  /\ UNCHANGED <<maps, objs, proc, settled, exits, pins>>

\* The API server fails, the leader loses its lease, the replica is moved: a
\* new process starts from nothing.
ReplicaExits(r) ==
  /\ proc[r].pc # "down"
  /\ exits > 0 /\ exits' = exits - 1
  /\ Exit(r)
  /\ leader' = IF leader = r THEN NoReplica ELSE leader
  /\ UNCHANGED <<maps, objs, settled, pins>>

-----------------------------------------------------------------------------
\* The pods of a DaemonSet become unavailable (they are replaced) or available.
PodsChange(o) ==
  /\ objs[o] # NoObject
  /\ objs' = [objs EXCEPT ![o].unavailable = ~objs[o].unavailable]
  /\ UNCHANGED <<maps, proc, leader, settled, exits, pins>>

\* A user replaces a ConfigMap by an immutable one.  (Bound: while no replica is
\* deploying; a replica that has read the old one may deploy it afterwards.)
PinMap(a, c) ==
  /\ pins > 0 /\ pins' = pins - 1
  /\ DOMAIN c \subseteq ObjectsOf[a]
  /\ \A r \in Replicas : ~Deploying(r)
  /\ maps' = [maps EXCEPT ![a] = [data |-> c, immutable |-> TRUE]]
  /\ settled' = FALSE
  /\ UNCHANGED <<objs, proc, leader, exits>>

ReplicaStep(r) ==
  \/ OperatorStart(r) \/ ReadMap(r) \/ WriteMap(r) \/ LoadMap(r)
  \/ GetObject(r) \/ PutObject(r) \/ ObjectsWritten(r) \/ Ready(r) \/ NotReady(r)

-----------------------------------------------------------------------------
(* Properties *)

\* From when a replica has deployed everything until a user writes a ConfigMap,
\* the cluster has no less than the ConfigMaps say, and they no less than the
\* operator's files unless a user made them immutable: replicas that deploy at the
\* same time, fail halfway and begin again do not leave a mixture, not even for a
\* while.  (What an upgrade drops is another matter: a key that the file no longer
\* has stays in the ConfigMap, and with it its object, if nothing else changed;
\* a field that a definition no longer has stays in the object.  The variables
\* have their types.)
DeployedIsWhole == AssetTypeOK /\ (settled => Whole(maps, objs))

\* Replicas that write the same objects and exit on every conflict do not keep
\* each other from starting for ever: if the pods that are waited for are some
\* day available for good, the controllers run in the end.  (While they are not,
\* waitUntilReady ends every replica that starts.)
ControllersRun ==
  <>[](\A o \in Blocking : objs[o] # NoObject => ~objs[o].unavailable)
    => <>[](leader # NoReplica)
=============================================================================
