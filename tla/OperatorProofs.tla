------------------------------ MODULE OperatorProofs ------------------------------
(***************************************************************************)
(* Theorems about Operator: any number of replicas, assets, nodes, pools   *)
(* and VFs, replicas that fail at any step and leaders that change in the  *)
(* middle of a Reconcile.                                                  *)
(***************************************************************************)
EXTENDS Operator, TLAPS

-----------------------------------------------------------------------------
(* Replicas that deploy: records *)

ProcPCs == {"down", "readMap", "writeMap", "load", "readObject", "writeObject", "wait",
            "started"}

Loads == UNION {[A -> Data] : A \in SUBSET AssetNames}

ProcRecord ==
  [pc : ProcPCs, at : DOMAIN Assets, hand : Objects \cup {NoObject}, done : SUBSET Objects,
   seen : ConfigMap \cup Object \cup {NoObject}, loaded : Loads, polls : 0..Retries]

\* The variables of a replica, by their fields.
ProcIs(p, pc, at, hand, done, seen, loaded, polls) ==
  /\ p \in ProcRecord /\ p.pc = pc /\ p.at = at /\ p.hand = hand /\ p.done = done
  /\ p.seen = seen /\ p.loaded = loaded /\ p.polls = polls

\* Replica r goes on with these variables, the others with what they have.
StepIs(r, pc, at, hand, done, seen, loaded, polls) ==
  /\ proc' \in [Replicas -> ProcRecord]
  /\ ProcIs(proc'[r], pc, at, hand, done, seen, loaded, polls)
  /\ \A q \in Replicas \ {r} : proc'[q] = proc[q]

AssetRecords ==
  /\ maps \in [AssetNames -> ConfigMap \cup {NoObject}]
  /\ objs \in [Objects -> Object \cup {NoObject}]
  /\ Own(maps)
  /\ proc \in [Replicas -> ProcRecord]
  /\ leader \in Replicas \cup {NoReplica}
  /\ settled \in BOOLEAN /\ exits \in Nat /\ pins \in Nat

\* The assets are numbered from 1.
LEMMA AssetsAre ==
  /\ Len(Assets) \in Nat /\ Len(Assets) > 0 /\ DOMAIN Assets = 1..Len(Assets)
  /\ \A i \in 1..Len(Assets) : Assets[i] \in AssetNames
  /\ \A a \in AssetNames : \E i \in 1..Len(Assets) : Assets[i] = a
BY AssetsAssumption DEF AssetNames

\* A replica that is not running, and one that has started.
LEMMA DownIs ==
  /\ ProcIs(Down, "down", 1, NoObject, {}, NoObject, <<>>, 0)
  /\ ProcIs([Down EXCEPT !.pc = "started"], "started", 1, NoObject, {}, NoObject, <<>>, 0)
<1>1. <<>> \in Loads
  <2>1. <<>> \in [{} -> Data] /\ {} \in SUBSET AssetNames
    OBVIOUS
  <2> QED
    BY <2>1 DEF Loads
<1>2. 1 \in DOMAIN Assets /\ 0 \in 0..Retries
  BY AssetsAre, RetriesAssumption
<1> QED
  BY <1>1, <1>2 DEF Down, ProcIs, ProcRecord, ProcPCs

\* One asset on, or the first one of the next phase.
LEMMA NextAssetIs ==
  ASSUME NEW p \in ProcRecord, NEW same \in ProcPCs, NEW next \in ProcPCs
  PROVE  \/ /\ p.at < Len(Assets)
            /\ ProcIs(NextAsset(p, same, next), same, p.at + 1, NoObject, {}, NoObject, p.loaded, 0)
         \/ /\ p.at = Len(Assets)
            /\ ProcIs(NextAsset(p, same, next), next, 1, NoObject, {}, NoObject, p.loaded, 0)
<1>1. p.at \in 1..Len(Assets) /\ 1 \in DOMAIN Assets /\ 0 \in 0..Retries
  BY AssetsAre, RetriesAssumption DEF ProcRecord
<1> DEFINE fresh == [p EXCEPT !.hand = NoObject, !.done = {}, !.seen = NoObject, !.polls = 0]
<1>2. PICK f \in ProcRecord : f = fresh
  BY <1>1 DEF ProcRecord
<1>3. /\ f.pc = p.pc /\ f.at = p.at /\ f.hand = NoObject /\ f.done = {} /\ f.seen = NoObject
      /\ f.loaded = p.loaded /\ f.polls = 0
  BY <1>2 DEF ProcRecord
<1> HIDE DEF fresh
<1>4. CASE p.at < Len(Assets)
  <2>1. PICK i \in DOMAIN Assets : i = p.at + 1
    BY <1>1, <1>4, AssetsAre
  <2>2. NextAsset(p, same, next) = [f EXCEPT !.pc = same, !.at = i]
    BY <1>2, <1>4, <2>1 DEF NextAsset, fresh
  <2>3. ProcIs(NextAsset(p, same, next), same, i, NoObject, {}, NoObject, p.loaded, 0)
    BY <1>3, <2>2 DEF ProcIs, ProcRecord
  <2> QED
    BY <1>4, <2>1, <2>3
<1>5. CASE p.at = Len(Assets)
  <2>1. NextAsset(p, same, next) = [f EXCEPT !.pc = next, !.at = 1]
    BY <1>1, <1>2, <1>5, AssetsAre DEF NextAsset, fresh
  <2>2. ProcIs(NextAsset(p, same, next), next, 1, NoObject, {}, NoObject, p.loaded, 0)
    BY <1>1, <1>3, <2>1 DEF ProcIs, ProcRecord
  <2> QED
    BY <1>5, <2>2
<1> QED
  BY <1>1, <1>4, <1>5, AssetsAre

\* One replica's variables change.
LEMMA StepOf ==
  ASSUME AssetRecords, NEW r \in Replicas, NEW v \in ProcRecord, proc' = [proc EXCEPT ![r] = v]
  PROVE  StepIs(r, v.pc, v.at, v.hand, v.done, v.seen, v.loaded, v.polls) /\ proc'[r] = v
BY DEF AssetRecords, StepIs, ProcIs

\* The replica exits.
LEMMA ExitIs ==
  ASSUME AssetRecords, NEW r \in Replicas, Exit(r)
  PROVE  StepIs(r, "down", 1, NoObject, {}, NoObject, <<>>, 0)
<1>1. PICK v \in ProcRecord : v = Down
  BY DownIs DEF ProcIs
<1>2. proc' = [proc EXCEPT ![r] = v]
  BY <1>1 DEF Exit
<1>3. StepIs(r, v.pc, v.at, v.hand, v.done, v.seen, v.loaded, v.polls)
  BY <1>2, StepOf
<1> QED
  BY <1>1, <1>3, DownIs DEF ProcIs

\* The replica goes on to the next asset or phase.
LEMMA NextStepIs ==
  ASSUME AssetRecords, NEW r \in Replicas, NEW p \in ProcRecord, p.at = proc[r].at,
         NEW same \in ProcPCs, NEW next \in ProcPCs, proc' = [proc EXCEPT ![r] = NextAsset(p, same, next)]
  PROVE  \/ proc[r].at < Len(Assets) /\ StepIs(r, same, proc[r].at + 1, NoObject, {}, NoObject, p.loaded, 0)
         \/ proc[r].at = Len(Assets) /\ StepIs(r, next, 1, NoObject, {}, NoObject, p.loaded, 0)
<1>1. NextAsset(p, same, next) \in ProcRecord
  BY NextAssetIs DEF ProcIs
<1>2. PICK v \in ProcRecord : v = NextAsset(p, same, next)
  BY <1>1
<1>3. StepIs(r, v.pc, v.at, v.hand, v.done, v.seen, v.loaded, v.polls)
  BY <1>2, StepOf
<1>4. \/ p.at < Len(Assets) /\ ProcIs(v, same, p.at + 1, NoObject, {}, NoObject, p.loaded, 0)
      \/ p.at = Len(Assets) /\ ProcIs(v, next, 1, NoObject, {}, NoObject, p.loaded, 0)
  BY <1>2, NextAssetIs
<1>5. CASE p.at < Len(Assets) /\ ProcIs(v, same, p.at + 1, NoObject, {}, NoObject, p.loaded, 0)
  <2>1. /\ v.pc = same /\ v.at = p.at + 1 /\ v.hand = NoObject /\ v.done = {} /\ v.seen = NoObject
        /\ v.loaded = p.loaded /\ v.polls = 0
    BY <1>5 DEF ProcIs
  <2> QED
    BY <1>3, <1>5, <2>1
<1>6. CASE p.at = Len(Assets) /\ ProcIs(v, next, 1, NoObject, {}, NoObject, p.loaded, 0)
  <2>1. /\ v.pc = next /\ v.at = 1 /\ v.hand = NoObject /\ v.done = {} /\ v.seen = NoObject
        /\ v.loaded = p.loaded /\ v.polls = 0
    BY <1>6 DEF ProcIs
  <2> QED
    BY <1>3, <1>6, <2>1
<1> QED
  BY <1>4, <1>5, <1>6

-----------------------------------------------------------------------------
(* Replicas that deploy: what their steps do *)

\* A replica begins with the ConfigMap of the first asset.
LEMMA StartEffect ==
  ASSUME AssetRecords, NEW r \in Replicas, OperatorStart(r)
  PROVE  /\ UNCHANGED <<maps, objs, leader, settled, exits, pins>>
         /\ proc[r].pc = "down"
         /\ StepIs(r, "readMap", proc[r].at, proc[r].hand, proc[r].done, proc[r].seen, proc[r].loaded, proc[r].polls)
<1>1. PICK p \in ProcRecord : p = proc[r]
  BY DEF AssetRecords
<1>2. PICK v \in ProcRecord : v = [p EXCEPT !.pc = "readMap"]
  BY DEF ProcRecord, ProcPCs
<1>3. /\ v.pc = "readMap" /\ v.at = p.at /\ v.hand = p.hand /\ v.done = p.done
      /\ v.seen = p.seen /\ v.loaded = p.loaded /\ v.polls = p.polls
  BY <1>2 DEF ProcRecord
<1>4. proc' = [proc EXCEPT ![r] = v]
  BY <1>1, <1>2 DEF OperatorStart, goto
<1>5. StepIs(r, v.pc, v.at, v.hand, v.done, v.seen, v.loaded, v.polls)
  BY <1>4, StepOf
<1> QED
  BY <1>1, <1>3, <1>5 DEF OperatorStart

\* The asset that a replica is at.
LEMMA AssetIs ==
  ASSUME AssetRecords, NEW r \in Replicas
  PROVE  /\ Asset(r) \in AssetNames /\ proc[r].at \in 1..Len(Assets) /\ Asset(r) = Assets[proc[r].at]
         /\ proc[r] \in ProcRecord
BY AssetsAre DEF AssetRecords, ProcRecord, Asset

\* A ConfigMap is read and kept for the write.
LEMMA ReadEffect ==
  ASSUME AssetRecords, NEW r \in Replicas, ReadMap(r)
  PROVE  /\ UNCHANGED <<maps, objs, leader, settled, exits, pins>> /\ proc[r].pc = "readMap"
         /\ StepIs(r, "writeMap", proc[r].at, proc[r].hand, proc[r].done, maps[Asset(r)],
                   proc[r].loaded, proc[r].polls)
<1>1. PICK p \in ProcRecord : p = proc[r]
  BY DEF AssetRecords
<1>2. PICK o \in ConfigMap \cup Object \cup {NoObject} : o = maps[Asset(r)]
  BY AssetIs DEF AssetRecords
<1>3. PICK v \in ProcRecord : v = [p EXCEPT !.pc = "writeMap", !.seen = o]
  BY DEF ProcRecord, ProcPCs
<1>4. /\ v.pc = "writeMap" /\ v.at = p.at /\ v.hand = p.hand /\ v.done = p.done
      /\ v.seen = o /\ v.loaded = p.loaded /\ v.polls = p.polls
  BY <1>3 DEF ProcRecord
<1>5. proc' = [proc EXCEPT ![r] = v]
  BY <1>1, <1>2, <1>3 DEF ReadMap, AssetRecords
<1>6. StepIs(r, v.pc, v.at, v.hand, v.done, v.seen, v.loaded, v.polls)
  BY <1>5, StepOf
<1> QED
  BY <1>1, <1>2, <1>4, <1>6 DEF ReadMap

\* What a replica has loaded for an asset are objects with their contents.
LEMMA LoadIs ==
  ASSUME NEW l \in Loads, NEW x \in DOMAIN l
  PROVE  /\ DOMAIN l \subseteq AssetNames /\ DOMAIN l[x] \subseteq Objects
         /\ \A o \in DOMAIN l[x] : l[x][o] \in Contents
<1>1. PICK A \in SUBSET AssetNames : l \in [A -> Data]
  BY DEF Loads
<1>2. l[x] \in Data /\ DOMAIN l = A
  BY <1>1
<1>3. PICK O \in SUBSET Objects : l[x] \in [O -> Contents]
  BY <1>2 DEF Data
<1> QED
  BY <1>2, <1>3

\* An object of the asset that is not done is read and kept for the write.
LEMMA GetEffect ==
  ASSUME AssetRecords, NEW r \in Replicas, GetObject(r), Asset(r) \in DOMAIN proc[r].loaded
  PROVE  /\ UNCHANGED <<maps, objs, leader, settled, exits, pins>> /\ proc[r].pc = "readObject"
         /\ \E o \in DOMAIN proc[r].loaded[Asset(r)] :
              StepIs(r, "writeObject", proc[r].at, o, proc[r].done, objs[o], proc[r].loaded,
                     proc[r].polls)
<1>1. PICK p \in ProcRecord : p = proc[r]
  BY DEF AssetRecords
<1>2. PICK o \in DOMAIN p.loaded[Asset(r)] :
        proc' = [proc EXCEPT ![r].pc = "writeObject", ![r].hand = o, ![r].seen = objs[o]]
  BY <1>1 DEF GetObject, Load
<1>3. p.loaded \in Loads
  BY DEF ProcRecord
<1>4. o \in Objects
  BY <1>1, <1>2, <1>3, LoadIs
<1>5. PICK s \in ConfigMap \cup Object \cup {NoObject} : s = objs[o]
  BY <1>4 DEF AssetRecords
<1>6. PICK v \in ProcRecord : v = [p EXCEPT !.pc = "writeObject", !.hand = o, !.seen = s]
  BY <1>4 DEF ProcRecord, ProcPCs
<1>7. /\ v.pc = "writeObject" /\ v.at = p.at /\ v.hand = o /\ v.done = p.done
      /\ v.seen = s /\ v.loaded = p.loaded /\ v.polls = p.polls
  BY <1>6 DEF ProcRecord
<1>8. proc' = [proc EXCEPT ![r] = v]
  BY <1>1, <1>2, <1>5, <1>6 DEF AssetRecords
<1>9. StepIs(r, v.pc, v.at, v.hand, v.done, v.seen, v.loaded, v.polls)
  BY <1>8, StepOf
<1> QED
  BY <1>1, <1>2, <1>5, <1>7, <1>9 DEF GetObject

\* The replica is through with an asset, and goes on to the next one or phase.
Onward(r, same, next, loaded) ==
  \/ proc[r].at < Len(Assets) /\ StepIs(r, same, proc[r].at + 1, NoObject, {}, NoObject, loaded, 0)
  \/ proc[r].at = Len(Assets) /\ StepIs(r, next, 1, NoObject, {}, NoObject, loaded, 0)

\* A ConfigMap is left, written as the files say, or somebody was faster.
LEMMA WriteMapEffect ==
  ASSUME AssetRecords, NEW r \in Replicas, WriteMap(r)
  PROVE  /\ UNCHANGED <<objs, leader, settled, exits, pins>> /\ proc[r].pc = "writeMap"
         /\ \/ /\ MapIsLeft(Asset(r), proc[r].seen) /\ maps' = maps
               /\ Onward(r, "readMap", "load", proc[r].loaded)
            \/ /\ ~MapIsLeft(Asset(r), proc[r].seen) /\ maps[Asset(r)] = proc[r].seen
               /\ maps' = [maps EXCEPT ![Asset(r)] = LoadFromFile(Asset(r))]
               /\ Onward(r, "readMap", "load", proc[r].loaded)
            \/ maps' = maps /\ StepIs(r, "down", 1, NoObject, {}, NoObject, <<>>, 0)
<1>1. proc[r] \in ProcRecord /\ "readMap" \in ProcPCs /\ "load" \in ProcPCs
  BY DEF AssetRecords, ProcPCs
<1>2. ASSUME proc' = [proc EXCEPT ![r] = NextAsset(proc[r], "readMap", "load")]
      PROVE  Onward(r, "readMap", "load", proc[r].loaded)
  BY <1>1, <1>2, NextStepIs DEF Onward
<1>3. ASSUME Exit(r) PROVE StepIs(r, "down", 1, NoObject, {}, NoObject, <<>>, 0)
  BY <1>3, ExitIs
<1> QED
  BY <1>2, <1>3 DEF WriteMap

\* A ConfigMap is read back; its asset is loaded.
LEMMA LoadMapEffect ==
  ASSUME AssetRecords, NEW r \in Replicas, LoadMap(r)
  PROVE  /\ UNCHANGED <<maps, objs, leader, settled, exits, pins>> /\ proc[r].pc = "load"
         /\ \/ StepIs(r, "down", 1, NoObject, {}, NoObject, <<>>, 0)
            \/ \E l \in Loads :
                 /\ DOMAIN l = DOMAIN proc[r].loaded \cup {Asset(r)}
                 /\ l[Asset(r)] = maps[Asset(r)].data
                 /\ \A a \in DOMAIN l \ {Asset(r)} : l[a] = proc[r].loaded[a]
                 /\ Onward(r, "load", "readObject", l)
<1>1. PICK p \in ProcRecord : p = proc[r]
  BY DEF AssetRecords
<1>2. UNCHANGED <<maps, objs, leader, settled, exits, pins>> /\ proc[r].pc = "load"
  BY DEF LoadMap
<1>3. CASE maps[Asset(r)] = NoObject
  <2>1. Exit(r)
    BY <1>3 DEF LoadMap
  <2> QED
    BY <1>2, <2>1, ExitIs
<1>4. CASE maps[Asset(r)] # NoObject
  <2>1. PICK x \in AssetNames : x = Asset(r)
    BY AssetIs
  <2>2. maps[x].data \in Data
    BY <1>4, <2>1 DEF AssetRecords, ConfigMap
  <2>3. PICK A \in SUBSET AssetNames : p.loaded \in [A -> Data]
    BY DEF ProcRecord, Loads
  <2> DEFINE f == [a \in DOMAIN p.loaded \cup {x} |-> IF a = x THEN maps[a].data ELSE p.loaded[a]]
  <2>4. f \in [A \cup {x} -> Data] /\ A \cup {x} \in SUBSET AssetNames
    BY <2>2, <2>3
  <2>5. f \in Loads
    BY <2>4 DEF Loads
  <2>6. PICK l \in Loads : l = f
    BY <2>5
  <2>7. /\ DOMAIN l = DOMAIN p.loaded \cup {x} /\ l[x] = maps[x].data
        /\ \A a \in DOMAIN l \ {x} : l[a] = p.loaded[a]
    BY <2>6
  <2>8. PICK v \in ProcRecord : v = [p EXCEPT !.loaded = l]
    BY DEF ProcRecord
  <2>9. v.at = p.at /\ v.loaded = l
    BY <2>8 DEF ProcRecord
  <2>10. proc' = [proc EXCEPT ![r] = NextAsset(v, "load", "readObject")]
    <3>1. [a \in DOMAIN proc[r].loaded \cup {Asset(r)} |->
             IF a = Asset(r) THEN maps[a].data ELSE proc[r].loaded[a]] = l
      BY <1>1, <2>1, <2>6
    <3>2. proc' = [proc EXCEPT ![r] = NextAsset([proc[r] EXCEPT !.loaded =
            [a \in DOMAIN proc[r].loaded \cup {Asset(r)} |->
             IF a = Asset(r) THEN maps[a].data ELSE proc[r].loaded[a]]], "load", "readObject")]
      BY <1>4 DEF LoadMap
    <3> QED
      BY <1>1, <2>8, <3>1, <3>2
  <2>11. "load" \in ProcPCs /\ "readObject" \in ProcPCs
    BY DEF ProcPCs
  <2>12. Onward(r, "load", "readObject", l)
    BY <1>1, <2>9, <2>10, <2>11, NextStepIs DEF Onward
  <2> QED
    BY <1>1, <1>2, <2>1, <2>7, <2>12
<1> QED
  BY <1>3, <1>4

\* What becomes of object h in the hands of replica r: it is left, or written as
\* the ConfigMap said, or somebody was faster.
PutResult(r, h) ==
  \/ /\ proc[r].seen # NoObject
     /\ DerivedContent(proc[r].loaded[Asset(r)][h], proc[r].seen.data) /\ objs' = objs
     /\ StepIs(r, "readObject", proc[r].at, h, proc[r].done \cup {h}, proc[r].seen,
               proc[r].loaded, proc[r].polls)
  \/ /\ \E o \in Object : o.data = proc[r].loaded[Asset(r)][h] /\ objs' = [objs EXCEPT ![h] = o]
     /\ StepIs(r, "readObject", proc[r].at, h, proc[r].done \cup {h}, proc[r].seen,
               proc[r].loaded, proc[r].polls)
  \/ objs' = objs /\ StepIs(r, "down", 1, NoObject, {}, NoObject, <<>>, 0)

\* An object is left, written as the ConfigMap said, or somebody was faster.
LEMMA PutEffect ==
  ASSUME AssetRecords, NEW r \in Replicas, PutObject(r), NEW h, proc[r].hand = h,
         Asset(r) \in DOMAIN proc[r].loaded, h \in DOMAIN proc[r].loaded[Asset(r)]
  PROVE  /\ UNCHANGED <<maps, leader, settled, exits, pins>> /\ proc[r].pc = "writeObject"
         /\ PutResult(r, h)
<1>1. PICK p \in ProcRecord : p = proc[r]
  BY DEF AssetRecords
<1>2. UNCHANGED <<maps, leader, settled, exits, pins>> /\ proc[r].pc = "writeObject"
  BY DEF PutObject
<1>3. PICK x \in DOMAIN p.loaded : x = Asset(r)
  BY <1>1
<1>4. p.loaded \in Loads
  BY DEF ProcRecord
<1>5. h \in Objects /\ p.loaded[x][h] \in Contents
  BY <1>1, <1>3, <1>4, LoadIs
<1>6. ASSUME proc' = [proc EXCEPT ![r].pc = "readObject", ![r].done = @ \cup {h}]
      PROVE  StepIs(r, "readObject", proc[r].at, h, proc[r].done \cup {h}, proc[r].seen,
                    proc[r].loaded, proc[r].polls)
  <2>1. PICK D \in SUBSET Objects : D = p.done \cup {h}
    BY <1>5 DEF ProcRecord
  <2>2. PICK v \in ProcRecord : v = [p EXCEPT !.pc = "readObject", !.done = D]
    BY DEF ProcRecord, ProcPCs
  <2>3. /\ v.pc = "readObject" /\ v.at = p.at /\ v.hand = p.hand /\ v.done = D
        /\ v.seen = p.seen /\ v.loaded = p.loaded /\ v.polls = p.polls
    BY <2>2 DEF ProcRecord
  <2>4. proc' = [proc EXCEPT ![r] = v]
    BY <1>1, <1>6, <2>1, <2>2 DEF AssetRecords
  <2>5. StepIs(r, v.pc, v.at, v.hand, v.done, v.seen, v.loaded, v.polls)
    BY <2>4, StepOf
  <2> QED
    BY <1>1, <2>1, <2>3, <2>5
<1>7. ASSUME Exit(r) PROVE StepIs(r, "down", 1, NoObject, {}, NoObject, <<>>, 0)
  BY <1>7, ExitIs
<1>8. PICK want \in Contents : want = p.loaded[x][h]
  BY <1>5
<1>9. PICK b \in BOOLEAN : b = (objs[h] # NoObject /\ objs[h].unavailable)
  BY <1>5 DEF AssetRecords, Object
<1>10. PICK o \in Object : o = [data |-> want, unavailable |-> b]
  BY DEF Object
<1>11. o.data = want
  BY <1>10
<1>12. \/ /\ proc[r].seen # NoObject /\ DerivedContent(want, proc[r].seen.data) /\ objs' = objs
          /\ proc' = [proc EXCEPT ![r].pc = "readObject", ![r].done = @ \cup {h}]
       \/ /\ objs' = [objs EXCEPT ![h] = o]
          /\ proc' = [proc EXCEPT ![r].pc = "readObject", ![r].done = @ \cup {h}]
       \/ objs' = objs /\ Exit(r)
  BY <1>1, <1>3, <1>8, <1>9, <1>10 DEF PutObject
<1> QED
  BY <1>1, <1>2, <1>3, <1>6, <1>7, <1>8, <1>11, <1>12 DEF PutResult

\* All objects of the asset are done.
LEMMA WrittenEffect ==
  ASSUME AssetRecords, NEW r \in Replicas, ObjectsWritten(r)
  PROVE  /\ UNCHANGED <<maps, objs, leader, settled, exits, pins>> /\ proc[r].pc = "readObject"
         /\ DOMAIN proc[r].loaded[Asset(r)] \subseteq proc[r].done
         /\ StepIs(r, "wait", proc[r].at, proc[r].hand, proc[r].done, proc[r].seen, proc[r].loaded,
                   Retries)
<1>1. PICK p \in ProcRecord : p = proc[r]
  BY DEF AssetRecords
<1>2. Retries \in 0..Retries
  BY RetriesAssumption
<1>3. PICK v \in ProcRecord : v = [p EXCEPT !.pc = "wait", !.polls = Retries]
  BY <1>2 DEF ProcRecord, ProcPCs
<1>4. /\ v.pc = "wait" /\ v.at = p.at /\ v.hand = p.hand /\ v.done = p.done
      /\ v.seen = p.seen /\ v.loaded = p.loaded /\ v.polls = Retries
  BY <1>3 DEF ProcRecord
<1>5. proc' = [proc EXCEPT ![r] = v]
  BY <1>1, <1>3 DEF ObjectsWritten, AssetRecords
<1>6. StepIs(r, v.pc, v.at, v.hand, v.done, v.seen, v.loaded, v.polls)
  BY <1>5, StepOf
<1> QED
  BY <1>1, <1>4, <1>6 DEF ObjectsWritten, Load

\* A DaemonSet is ready: the next one, or all assets are deployed.
LEMMA ReadyEffect ==
  ASSUME AssetRecords, NEW r \in Replicas, Ready(r)
  PROVE  /\ UNCHANGED <<maps, objs, leader, exits, pins>> /\ proc[r].pc = "wait"
         /\ \/ /\ proc[r].at < Len(Assets) /\ settled' = settled
               /\ StepIs(r, "readObject", proc[r].at + 1, NoObject, {}, NoObject, proc[r].loaded, 0)
            \/ /\ proc[r].at = Len(Assets) /\ settled' = TRUE
               /\ StepIs(r, "started", 1, NoObject, {}, NoObject, <<>>, 0)
<1>1. PICK d \in ProcRecord : d = NextAsset(proc[r], "readObject", "started")
  BY NextAssetIs, AssetIs DEF ProcIs, ProcPCs
<1>2. /\ UNCHANGED <<maps, objs, leader, exits, pins>> /\ proc[r].pc = "wait"
      /\ proc' = [proc EXCEPT ![r] = IF d.pc = "started" THEN [Down EXCEPT !.pc = "started"] ELSE d]
      /\ settled' = (settled \/ d.pc = "started")
  BY <1>1 DEF Ready
<1>3. \/ proc[r].at < Len(Assets) /\ ProcIs(d, "readObject", proc[r].at + 1, NoObject, {}, NoObject, proc[r].loaded, 0)
      \/ proc[r].at = Len(Assets) /\ ProcIs(d, "started", 1, NoObject, {}, NoObject, proc[r].loaded, 0)
  BY <1>1, NextAssetIs, AssetIs DEF ProcPCs
<1>4. CASE proc[r].at < Len(Assets) /\ ProcIs(d, "readObject", proc[r].at + 1, NoObject, {}, NoObject, proc[r].loaded, 0)
  <2>1. proc' = [proc EXCEPT ![r] = d] /\ settled' = settled
    BY <1>2, <1>4 DEF ProcIs, AssetRecords
  <2>2. StepIs(r, d.pc, d.at, d.hand, d.done, d.seen, d.loaded, d.polls)
    BY <2>1, StepOf
  <2> QED
    BY <1>2, <1>4, <2>1, <2>2 DEF ProcIs
<1>5. CASE proc[r].at = Len(Assets) /\ ProcIs(d, "started", 1, NoObject, {}, NoObject, proc[r].loaded, 0)
  <2>1. PICK v \in ProcRecord : v = [Down EXCEPT !.pc = "started"]
    BY DownIs DEF ProcIs
  <2>2. proc' = [proc EXCEPT ![r] = v] /\ settled' = TRUE
    BY <1>2, <1>5, <2>1 DEF ProcIs, AssetRecords
  <2>3. StepIs(r, v.pc, v.at, v.hand, v.done, v.seen, v.loaded, v.polls)
    BY <2>2, StepOf
  <2> QED
    BY <1>2, <1>5, <2>1, <2>2, <2>3, DownIs DEF ProcIs
<1> QED
  BY <1>3, <1>4, <1>5

\* One more poll, or the replica gives up.
LEMMA NotReadyEffect ==
  ASSUME AssetRecords, NEW r \in Replicas, NotReady(r)
  PROVE  /\ UNCHANGED <<maps, objs, leader, settled, exits, pins>> /\ proc[r].pc = "wait"
         /\ \/ StepIs(r, "down", 1, NoObject, {}, NoObject, <<>>, 0)
            \/ \E n : StepIs(r, "wait", proc[r].at, proc[r].hand, proc[r].done, proc[r].seen, proc[r].loaded, n)
<1>1. PICK p \in ProcRecord : p = proc[r]
  BY DEF AssetRecords
<1>2. UNCHANGED <<maps, objs, leader, settled, exits, pins>> /\ proc[r].pc = "wait"
  BY DEF NotReady
<1>3. CASE p.polls > 1
  <2>1. PICK n \in 0..Retries : n = p.polls - 1
    BY <1>3, RetriesAssumption DEF ProcRecord
  <2>2. PICK v \in ProcRecord : v = [p EXCEPT !.polls = n]
    BY DEF ProcRecord
  <2>3. v.pc = p.pc /\ v.at = p.at /\ v.hand = p.hand /\ v.done = p.done /\ v.seen = p.seen /\ v.loaded = p.loaded /\ v.polls = n
    BY <2>2 DEF ProcRecord
  <2>4. proc' = [proc EXCEPT ![r] = v]
    BY <1>1, <1>3, <2>1, <2>2 DEF NotReady, AssetRecords
  <2>5. StepIs(r, v.pc, v.at, v.hand, v.done, v.seen, v.loaded, v.polls)
    BY <2>4, StepOf
  <2> QED
    BY <1>1, <1>2, <2>3, <2>5
<1>4. CASE ~(p.polls > 1)
  BY <1>1, <1>2, <1>4, ExitIs DEF NotReady
<1> QED
  BY <1>3, <1>4

-----------------------------------------------------------------------------
(* Replicas that deploy: the invariant *)

\* An asset whose ConfigMap nobody writes again, but for a user; an object that
\* has what the ConfigMap says; an asset with all its objects.
MapOK(a) == maps[a] # NoObject /\ (maps[a].immutable \/ DerivedData(FileContent[a], maps[a].data))
ObjOK(a, o) == objs[o] # NoObject /\ DerivedContent(maps[a].data[o], objs[o].data)
SetOK(a) == \A o \in DOMAIN maps[a].data : ObjOK(a, o)

\* The assets that a replica with index at has behind it.
Passed(at) == {Assets[i] : i \in 1..(at - 1)}

\* What a replica that deploys has done, and that nobody undoes it.  A copy that
\* it would leave as it is shows an object that is already as it should be.
DeployInv(r) ==
  /\ proc[r].pc = "down" => proc[r].at = 1
  /\ proc[r].pc \in {"down", "readMap", "writeMap"} => proc[r].loaded = <<>>
  /\ proc[r].pc \in {"readMap", "writeMap"} => \A a \in Passed(proc[r].at) : MapOK(a)
  /\ proc[r].pc = "writeMap" /\ MapIsLeft(Asset(r), proc[r].seen) => MapOK(Asset(r))
  /\ proc[r].pc = "load" => Passed(proc[r].at) \subseteq DOMAIN proc[r].loaded
  /\ proc[r].pc \in {"load", "readObject", "writeObject", "wait"} =>
       /\ \A a \in AssetNames : MapOK(a)
       /\ \A a \in DOMAIN proc[r].loaded : proc[r].loaded[a] = maps[a].data
  /\ proc[r].pc \in {"readObject", "writeObject", "wait"} =>
       /\ AssetNames \subseteq DOMAIN proc[r].loaded
       /\ \A a \in Passed(proc[r].at) : SetOK(a)
       /\ proc[r].done \subseteq DOMAIN maps[Asset(r)].data
       /\ \A o \in proc[r].done : ObjOK(Asset(r), o)
  /\ proc[r].pc \in {"load", "down", "readMap", "writeMap"} => proc[r].done = {}
  /\ proc[r].pc = "writeObject" =>
       /\ proc[r].hand \in DOMAIN maps[Asset(r)].data
       /\ proc[r].seen # NoObject
            /\ DerivedContent(maps[Asset(r)].data[proc[r].hand], proc[r].seen.data)
          => ObjOK(Asset(r), proc[r].hand)
  /\ proc[r].pc = "wait" => SetOK(Asset(r))

AssetInv ==
  /\ AssetRecords
  /\ leader # NoReplica => proc[leader].pc = "started"
  /\ \A r \in Replicas : DeployInv(r)
  /\ settled => \A a \in AssetNames : MapOK(a) /\ SetOK(a)

\* What a step must not do to assets that are as they should be.
Keeps ==
  \A a \in AssetNames : MapOK(a) =>
    maps'[a] = maps[a] /\ \A o \in DOMAIN maps[a].data : ObjOK(a, o) => ObjOK(a, o)'

\* The assets behind a replica: none at first, one more, all at the end.
LEMMA PassedIs ==
  /\ Passed(1) = {}
  /\ \A i \in 1..Len(Assets) : Passed(i + 1) = Passed(i) \cup {Assets[i]} /\ Passed(i) \subseteq AssetNames
  /\ Passed(Len(Assets)) \cup {Assets[Len(Assets)]} = AssetNames
<1>1. Passed(1) = {}
  BY DEF Passed
<1>2. ASSUME NEW i \in 1..Len(Assets)
      PROVE  Passed(i + 1) = Passed(i) \cup {Assets[i]} /\ Passed(i) \subseteq AssetNames
  <2>1. i \in Nat /\ 1..((i + 1) - 1) = 1..(i - 1) \cup {i} /\ 1..(i - 1) \subseteq 1..Len(Assets)
    BY <1>2, AssetsAre
  <2> QED
    BY <2>1, AssetsAre DEF Passed
<1>3. Passed(Len(Assets)) \cup {Assets[Len(Assets)]} = AssetNames
  <2>1. 1..Len(Assets) = 1..(Len(Assets) - 1) \cup {Len(Assets)}
    BY AssetsAre
  <2> QED
    BY <2>1, AssetsAre DEF Passed
<1> QED
  BY <1>1, <1>2, <1>3

\* A step that keeps what is right does not disturb the replicas that it is not of.
LEMMA OthersKept ==
  ASSUME AssetRecords, NEW q \in Replicas, DeployInv(q), Keeps, proc'[q] = proc[q]
  PROVE  DeployInv(q)'
<1>1. PICK p \in ProcRecord : p = proc[q]
  BY DEF AssetRecords
<1>2. PICK x \in AssetNames : x = Assets[p.at] /\ x = Asset(q)
  BY <1>1, AssetIs
<1>3. Asset(q)' = x
  BY <1>1, <1>2 DEF Asset
<1>4. Passed(p.at) \subseteq AssetNames
  BY <1>1, AssetIs, PassedIs
<1>5. p.loaded \in Loads /\ DOMAIN p.loaded \subseteq AssetNames
  BY DEF ProcRecord, Loads
<1>6. \A a \in AssetNames : MapOK(a) => MapOK(a)' /\ maps'[a] = maps[a] /\ (SetOK(a) => SetOK(a)')
  BY DEF Keeps, MapOK, SetOK
<1>7. \A a \in AssetNames, o \in Objects :
        MapOK(a) /\ o \in DOMAIN maps[a].data /\ ObjOK(a, o) => ObjOK(a, o)'
  BY DEF Keeps
<1>8. p.done \subseteq Objects /\ (p.hand = NoObject \/ p.hand \in Objects)
  BY DEF ProcRecord
<1>9. /\ p.pc = "down" => p.at = 1
      /\ p.pc \in {"down", "readMap", "writeMap"} => p.loaded = <<>>
      /\ p.pc \in {"readMap", "writeMap"} => \A a \in Passed(p.at) : MapOK(a)'
      /\ p.pc = "writeMap" /\ MapIsLeft(x, p.seen) => MapOK(x)'
      /\ p.pc = "load" => Passed(p.at) \subseteq DOMAIN p.loaded
      /\ p.pc \in {"load", "down", "readMap", "writeMap"} => p.done = {}
  BY <1>1, <1>2, <1>4, <1>6 DEF DeployInv
<1>10. p.pc \in {"load", "readObject", "writeObject", "wait"} =>
        /\ \A a \in AssetNames : MapOK(a)'
        /\ \A a \in DOMAIN p.loaded : p.loaded[a] = maps'[a].data
  BY <1>1, <1>5, <1>6 DEF DeployInv
<1>11. p.pc \in {"readObject", "writeObject", "wait"} =>
        /\ AssetNames \subseteq DOMAIN p.loaded
        /\ \A a \in Passed(p.at) : SetOK(a)'
        /\ p.done \subseteq DOMAIN maps'[x].data
        /\ \A o \in p.done : ObjOK(x, o)'
  BY <1>1, <1>2, <1>4, <1>6, <1>7, <1>8 DEF DeployInv
<1>12. p.pc = "writeObject" =>
        /\ p.hand \in DOMAIN maps'[x].data
        /\ p.seen # NoObject /\ DerivedContent(maps'[x].data[p.hand], p.seen.data)
           => ObjOK(x, p.hand)'
  <2> SUFFICES ASSUME p.pc = "writeObject"
               PROVE  /\ p.hand \in DOMAIN maps'[x].data
                      /\ p.seen # NoObject /\ DerivedContent(maps'[x].data[p.hand], p.seen.data)
                         => ObjOK(x, p.hand)'
    OBVIOUS
  <2>1. MapOK(x) /\ maps'[x] = maps[x] /\ p.hand \in DOMAIN maps[x].data
    BY <1>1, <1>2, <1>6 DEF DeployInv
  <2>2. p.seen # NoObject /\ DerivedContent(maps[x].data[p.hand], p.seen.data) => ObjOK(x, p.hand)
    BY <1>1, <1>2 DEF DeployInv
  <2> QED
    BY <2>1, <2>2 DEF Keeps
<1>13. p.pc = "wait" => SetOK(x)'
  BY <1>1, <1>2, <1>6 DEF DeployInv
<1> QED
  BY <1>1, <1>3, <1>9, <1>10, <1>11, <1>12, <1>13 DEF DeployInv

\* What was whole stays whole, as long as the step keeps what is right.
LEMMA SettledKept ==
  ASSUME settled => \A a \in AssetNames : MapOK(a) /\ SetOK(a), settled' => settled, Keeps
  PROVE  (settled => \A a \in AssetNames : MapOK(a) /\ SetOK(a))'
BY DEF Keeps, MapOK, SetOK

\* A step of a replica that is not started keeps the leader's state.
LEMMA LeaderKept ==
  ASSUME AssetInv, NEW r \in Replicas, proc[r].pc # "started", leader' = leader,
         \A q \in Replicas \ {r} : proc'[q] = proc[q]
  PROVE  (leader # NoReplica => proc[leader].pc = "started")'
BY DEF AssetInv, AssetRecords

\* A replica that has exited knows nothing.
LEMMA DownInv ==
  ASSUME NEW r \in Replicas, StepIs(r, "down", 1, NoObject, {}, NoObject, <<>>, 0)
  PROVE  DeployInv(r)'
BY DEF StepIs, ProcIs, DeployInv

\* Nothing but the replicas' own variables change.
LEMMA KeepsAll == ASSUME UNCHANGED <<maps, objs>> PROVE Keeps
BY DEF Keeps, ObjOK

\* A step of one replica that keeps what is right and leaves that replica with a
\* true account of it.
LEMMA ReplicaKeeps ==
  ASSUME AssetInv, NEW r \in Replicas, proc[r].pc # "started", leader' = leader,
         \A q \in Replicas \ {r} : proc'[q] = proc[q], AssetRecords', Keeps, settled' => settled,
         DeployInv(r)'
  PROVE  AssetInv'
<1>1. \A q \in Replicas : DeployInv(q)'
  BY OthersKept DEF AssetInv
<1>2. (leader # NoReplica => proc[leader].pc = "started")'
  BY LeaderKept
<1>3. (settled => \A a \in AssetNames : MapOK(a) /\ SetOK(a))'
  BY SettledKept DEF AssetInv
<1> QED
  BY <1>1, <1>2, <1>3 DEF AssetInv

\* Every step of a replica keeps the invariant.
LEMMA ReplicaStepInv ==
  ASSUME AssetInv, NEW r \in Replicas, ReplicaStep(r)
  PROVE  AssetInv'
<1>1. AssetRecords /\ DeployInv(r)
  BY DEF AssetInv
<1>2. PICK p \in ProcRecord : p = proc[r]
  BY <1>1, AssetIs
<1>3. PICK x \in AssetNames : x = Asset(r) /\ x = Assets[p.at] /\ p.at \in 1..Len(Assets)
  BY <1>1, <1>2, AssetIs
<1>4. Passed(p.at + 1) = Passed(p.at) \cup {x} /\ (p.at = Len(Assets) => AssetNames = Passed(p.at) \cup {x})
  BY <1>3, PassedIs
<1>5. Passed(1) = {} /\ Passed(p.at) \subseteq AssetNames
  BY <1>3, PassedIs
<1>6. CASE OperatorStart(r)
  <2>1. UNCHANGED <<maps, objs, leader, settled, exits, pins>> /\ p.pc = "down"
        /\ StepIs(r, "readMap", p.at, p.hand, p.done, p.seen, p.loaded, p.polls)
    BY <1>1, <1>2, <1>6, StartEffect
  <2>2. AssetRecords'
    BY <1>1, <2>1 DEF AssetRecords, StepIs
  <2>3. DeployInv(r)'
    BY <1>1, <1>2, <1>5, <2>1 DEF DeployInv, StepIs, ProcIs
  <2> QED
    BY <1>2, <2>1, <2>2, <2>3, KeepsAll, ReplicaKeeps DEF StepIs
<1>7. CASE ReadMap(r)
  <2>1. /\ UNCHANGED <<maps, objs, leader, settled, exits, pins>> /\ p.pc = "readMap"
        /\ StepIs(r, "writeMap", p.at, p.hand, p.done, maps[x], p.loaded, p.polls)
    BY <1>1, <1>2, <1>3, <1>7, ReadEffect
  <2>2. AssetRecords'
    BY <1>1, <2>1 DEF AssetRecords, StepIs, Own
  <2>3. Asset(r)' = x
    BY <1>3, <2>1 DEF Asset, StepIs, ProcIs
  <2>4. MapIsLeft(x, maps[x]) => MapOK(x)
    BY DEF MapIsLeft, MapOK, LoadFromFile
  <2>5. \A a : MapOK(a)' = MapOK(a)
    BY <2>1 DEF MapOK
  <2>6. DeployInv(r)'
    BY <1>1, <1>2, <2>1, <2>3, <2>4, <2>5 DEF DeployInv, StepIs, ProcIs
  <2> QED
    BY <1>2, <2>1, <2>2, <2>6, KeepsAll, ReplicaKeeps DEF StepIs
<1>8. CASE WriteMap(r)
  <2>1. /\ UNCHANGED <<objs, leader, settled, exits, pins>> /\ p.pc = "writeMap"
        /\ p.loaded = <<>> /\ p.done = {}
    BY <1>1, <1>2, <1>8, WriteMapEffect DEF DeployInv
  <2>2. ASSUME AssetRecords', Keeps, MapOK(x)', Onward(r, "readMap", "load", p.loaded)
        PROVE  AssetInv'
    <3>1. \A a \in Passed(p.at) : MapOK(a)'
      BY <1>1, <1>2, <1>5, <2>1, <2>2 DEF DeployInv, Keeps, MapOK
    <3>2. DeployInv(r)' /\ \A q \in Replicas \ {r} : proc'[q] = proc[q]
      <4>1. CASE p.at < Len(Assets) /\ StepIs(r, "readMap", p.at + 1, NoObject, {}, NoObject, p.loaded, 0)
        BY <1>4, <2>1, <2>2, <3>1, <4>1 DEF DeployInv, StepIs, ProcIs
      <4>2. CASE p.at = Len(Assets) /\ StepIs(r, "load", 1, NoObject, {}, NoObject, p.loaded, 0)
        <5>1. \A a \in AssetNames : MapOK(a)'
          BY <1>4, <2>2, <3>1, <4>2
        <5>2. DOMAIN p.loaded = {}
          BY <2>1
        <5> QED
          BY <1>5, <4>2, <5>1, <5>2 DEF DeployInv, StepIs, ProcIs
      <4> QED
        BY <1>2, <2>2, <4>1, <4>2 DEF Onward
    <3> QED
      BY <1>2, <2>1, <2>2, <3>2, ReplicaKeeps
  <2>3. CASE MapIsLeft(x, p.seen) /\ maps' = maps /\ Onward(r, "readMap", "load", p.loaded)
    <3>1. MapOK(x)'
      BY <1>1, <1>2, <1>3, <2>1, <2>3 DEF DeployInv, MapOK
    <3>2. AssetRecords'
      BY <1>1, <1>2, <2>1, <2>3 DEF AssetRecords, Onward, StepIs, Own
    <3> QED
      BY <2>1, <2>2, <2>3, <3>1, <3>2, KeepsAll
  <2>4. CASE /\ ~MapIsLeft(x, p.seen) /\ maps[x] = p.seen
             /\ maps' = [maps EXCEPT ![x] = LoadFromFile(x)]
             /\ Onward(r, "readMap", "load", p.loaded)
    <3>1. PICK m \in ConfigMap : m = LoadFromFile(x) /\ m.data = FileContent[x]
      <4>1. PICK c \in Data : c = FileContent[x]
        BY ContentsAssumption
      <4>2. [data |-> c, immutable |-> FALSE] \in ConfigMap
        BY DEF ConfigMap
      <4> QED
        BY <4>1, <4>2 DEF LoadFromFile
    <3>2. m # NoObject /\ DOMAIN FileContent[x] \subseteq ObjectsOf[x]
      BY ContentsAssumption
    <3>3. maps'[x] = m /\ \A a \in AssetNames \ {x} : maps'[a] = maps[a]
      BY <1>1, <2>4, <3>1 DEF AssetRecords
    <3>4. MapOK(x)'
      BY <3>1, <3>2, <3>3 DEF MapOK, DerivedData
    <3>5. ~MapOK(x)
      BY <2>4 DEF MapOK, MapIsLeft, LoadFromFile
    <3>6. Keeps
      BY <2>1, <3>3, <3>5 DEF Keeps, ObjOK
    <3>7. Own(maps')
      BY <1>1, <3>1, <3>2, <3>3 DEF AssetRecords, Own
    <3>8. AssetRecords'
      BY <1>1, <1>2, <2>1, <2>4, <3>1, <3>7 DEF AssetRecords, Onward, StepIs, Own
    <3> QED
      BY <2>2, <2>4, <3>4, <3>6, <3>8
  <2>5. CASE maps' = maps /\ StepIs(r, "down", 1, NoObject, {}, NoObject, <<>>, 0)
    <3>1. AssetRecords'
      BY <1>1, <2>1, <2>5 DEF AssetRecords, StepIs
    <3> QED
      BY <1>2, <2>1, <2>5, <3>1, KeepsAll, DownInv, ReplicaKeeps DEF StepIs
  <2> QED
    BY <1>1, <1>2, <1>3, <1>8, <2>3, <2>4, <2>5, WriteMapEffect
<1>9. CASE LoadMap(r)
  <2>1. UNCHANGED <<maps, objs, leader, settled, exits, pins>> /\ p.pc = "load"
    BY <1>1, <1>2, <1>9, LoadMapEffect
  <2>2. CASE StepIs(r, "down", 1, NoObject, {}, NoObject, <<>>, 0)
    <3>1. AssetRecords'
      BY <1>1, <2>1, <2>2 DEF AssetRecords, StepIs
    <3> QED
      BY <1>2, <2>1, <2>2, <3>1, KeepsAll, DownInv, ReplicaKeeps DEF StepIs
  <2>3. ASSUME NEW l \in Loads, DOMAIN l = DOMAIN p.loaded \cup {x}, l[x] = maps[x].data,
               \A a \in DOMAIN l \ {x} : l[a] = p.loaded[a], Onward(r, "load", "readObject", l)
        PROVE  AssetInv'
    <3>1. AssetRecords'
      BY <1>1, <1>2, <2>1, <2>3 DEF AssetRecords, Onward, StepIs
    <3>2. \A a \in DOMAIN l : l[a] = maps'[a].data
      BY <1>1, <1>2, <2>1, <2>3 DEF DeployInv
    <3>3. \A a \in AssetNames : MapOK(a)'
      BY <1>1, <1>2, <2>1 DEF DeployInv, MapOK
    <3>4. Passed(p.at) \cup {x} \subseteq DOMAIN l
      BY <1>1, <1>2, <2>1, <2>3 DEF DeployInv
    <3>5. DeployInv(r)' /\ \A q \in Replicas \ {r} : proc'[q] = proc[q]
      <4>1. CASE p.at < Len(Assets) /\ StepIs(r, "load", p.at + 1, NoObject, {}, NoObject, l, 0)
        BY <1>4, <3>2, <3>3, <3>4, <4>1 DEF DeployInv, StepIs, ProcIs
      <4>2. CASE p.at = Len(Assets) /\ StepIs(r, "readObject", 1, NoObject, {}, NoObject, l, 0)
        BY <1>4, <1>5, <3>2, <3>3, <3>4, <4>2 DEF DeployInv, StepIs, ProcIs
      <4> QED
        BY <1>2, <2>3, <4>1, <4>2 DEF Onward
    <3> QED
      BY <1>2, <2>1, <3>1, <3>5, KeepsAll, ReplicaKeeps
  <2> QED
    BY <1>1, <1>2, <1>3, <1>9, <2>2, <2>3, LoadMapEffect
<1>10. CASE GetObject(r) \/ PutObject(r) \/ ObjectsWritten(r)
  <2>1. /\ p.pc \in {"readObject", "writeObject"} /\ x \in DOMAIN p.loaded
        /\ p.loaded[x] = maps[x].data
    BY <1>1, <1>2, <1>10 DEF GetObject, PutObject, ObjectsWritten, DeployInv
  <2>2. UNCHANGED <<maps, leader, settled, exits, pins>>
    BY <1>10 DEF GetObject, PutObject, ObjectsWritten
  <2>3. /\ AssetNames \subseteq DOMAIN p.loaded /\ p.done \subseteq DOMAIN maps[x].data
        /\ \A a \in AssetNames : MapOK(a) /\ MapOK(a)'
        /\ \A a \in Passed(p.at) : SetOK(a)
        /\ \A o \in p.done : ObjOK(x, o)
        /\ \A a \in DOMAIN p.loaded : p.loaded[a] = maps'[a].data
    BY <1>1, <1>2, <1>3, <2>1, <2>2 DEF DeployInv, MapOK
  \* A step to pc with the objects done in front of it.
  <2>4. ASSUME AssetRecords', Keeps, NEW pc \in {"readObject", "writeObject", "wait"}, NEW hand,
               NEW done, NEW seen, NEW polls,
               StepIs(r, pc, p.at, hand, done, seen, p.loaded, polls),
               done \subseteq DOMAIN maps[x].data, \A o \in done : ObjOK(x, o)',
               pc = "writeObject" =>
                 /\ hand \in DOMAIN maps[x].data
                 /\ seen # NoObject /\ DerivedContent(maps[x].data[hand], seen.data) => ObjOK(x, hand)',
               pc = "wait" => SetOK(x)'
        PROVE  AssetInv'
    <3>1. Asset(r)' = x
      BY <1>3, <2>4 DEF Asset, StepIs, ProcIs
    <3>2. \A a \in Passed(p.at) : SetOK(a)'
      BY <1>5, <2>2, <2>3, <2>4 DEF Keeps, SetOK
    <3>3. DeployInv(r)'
      BY <1>1, <1>2, <2>1, <2>2, <2>3, <2>4, <3>1, <3>2 DEF DeployInv, StepIs, ProcIs
    <3> QED
      BY <1>2, <2>1, <2>2, <2>4, <3>3, ReplicaKeeps DEF StepIs
  <2>5. CASE GetObject(r)
    <3>1. UNCHANGED objs
      BY <2>5 DEF GetObject
    <3>2. PICK o \in DOMAIN maps[x].data :
            StepIs(r, "writeObject", p.at, o, p.done, objs[o], p.loaded, p.polls)
      BY <1>1, <1>2, <1>3, <2>1, <2>5, GetEffect
    <3>3. AssetRecords'
      BY <1>1, <2>2, <3>1, <3>2 DEF AssetRecords, StepIs, Own
    <3>4. objs[o] # NoObject /\ DerivedContent(maps[x].data[o], objs[o].data) => ObjOK(x, o)'
      BY <2>2, <3>1 DEF ObjOK
    <3>5. \A q \in p.done : ObjOK(x, q)'
      BY <2>2, <2>3, <3>1 DEF ObjOK
    <3> QED
      BY <2>2, <2>3, <2>4, <3>1, <3>2, <3>3, <3>4, <3>5, KeepsAll
  <2>6. CASE PutObject(r)
    <3>1. p.pc = "writeObject"
      BY <1>2, <2>6 DEF PutObject
    <3>2. PICK h \in DOMAIN maps[x].data : h = p.hand
      BY <1>1, <1>2, <1>3, <3>1 DEF DeployInv
    <3>3. p.seen # NoObject /\ DerivedContent(maps[x].data[h], p.seen.data) => ObjOK(x, h)
      BY <1>1, <1>2, <1>3, <3>1, <3>2 DEF DeployInv
    <3>4. p.loaded \in Loads
      BY DEF ProcRecord
    <3>5. h \in Objects
      BY <2>1, <3>2, <3>4, LoadIs
    <3>6. p.done \cup {h} \subseteq DOMAIN maps[x].data
      BY <2>3, <3>2
    <3>7. ASSUME AssetRecords', Keeps, ObjOK(x, h)',
                 StepIs(r, "readObject", p.at, h, p.done \cup {h}, p.seen, p.loaded, p.polls)
          PROVE  AssetInv'
      <4>1. \A o \in p.done \cup {h} : ObjOK(x, o)'
        BY <2>3, <3>7 DEF Keeps
      <4> QED
        BY <2>4, <3>6, <3>7, <4>1
    <3>8. CASE /\ p.seen # NoObject /\ DerivedContent(p.loaded[x][h], p.seen.data) /\ objs' = objs
               /\ StepIs(r, "readObject", p.at, h, p.done \cup {h}, p.seen, p.loaded, p.polls)
      <4>1. ObjOK(x, h)'
        BY <2>1, <2>2, <3>3, <3>8 DEF ObjOK
      <4>2. AssetRecords'
        BY <1>1, <2>2, <3>8 DEF AssetRecords, StepIs, Own
      <4> QED
        BY <2>2, <3>7, <3>8, <4>1, <4>2, KeepsAll
    <3>9. ASSUME NEW o \in Object, o.data = p.loaded[x][h], objs' = [objs EXCEPT ![h] = o],
                 StepIs(r, "readObject", p.at, h, p.done \cup {h}, p.seen, p.loaded, p.polls)
          PROVE  AssetInv'
      <4>1. objs'[h] = o /\ \A q \in Objects \ {h} : objs'[q] = objs[q]
        BY <1>1, <3>5, <3>9 DEF AssetRecords
      <4>2. ObjOK(x, h)'
        BY <2>1, <2>2, <3>9, <4>1, ContentsAssumption DEF ObjOK, DerivedContent
      <4>3. ASSUME NEW a \in AssetNames, MapOK(a), NEW q \in DOMAIN maps[a].data, ObjOK(a, q)
            PROVE  ObjOK(a, q)'
        <5>1. CASE a = x /\ q = h
          BY <4>2, <5>1
        <5>2. CASE q # h
          <6>1. q \in Objects
            BY <1>1, <4>3, ObjectsAssumption DEF AssetRecords, Own, MapOK
          <6> QED
            BY <2>2, <4>1, <4>3, <5>2, <6>1 DEF ObjOK
        <5>3. CASE a # x /\ q = h
          <6>1. h \in ObjectsOf[a] /\ h \in ObjectsOf[x]
            BY <1>1, <2>3, <4>3, <5>3 DEF AssetRecords, Own, MapOK
          <6> QED
            BY <5>3, <6>1, ObjectsAssumption
        <5> QED
          BY <5>1, <5>2, <5>3
      <4>4. Keeps
        BY <2>2, <4>3 DEF Keeps
      <4>5. AssetRecords'
        BY <1>1, <2>2, <3>9 DEF AssetRecords, StepIs, Own
      <4> QED
        BY <3>7, <3>9, <4>2, <4>4, <4>5
    <3>10. CASE objs' = objs /\ StepIs(r, "down", 1, NoObject, {}, NoObject, <<>>, 0)
      <4>1. AssetRecords'
        BY <1>1, <2>2, <3>10 DEF AssetRecords, StepIs, Own
      <4> QED
        BY <1>2, <2>2, <3>1, <3>10, <4>1, KeepsAll, DownInv, ReplicaKeeps DEF StepIs
    <3>11. Asset(r) \in DOMAIN proc[r].loaded /\ h \in DOMAIN proc[r].loaded[Asset(r)] /\ proc[r].hand = h
      BY <1>2, <1>3, <2>1, <3>2
    <3>12. PutResult(r, h)
      BY <1>1, <2>6, <3>11, PutEffect
    <3>13. \/ /\ p.seen # NoObject /\ DerivedContent(p.loaded[x][h], p.seen.data) /\ objs' = objs
              /\ StepIs(r, "readObject", p.at, h, p.done \cup {h}, p.seen, p.loaded, p.polls)
           \/ /\ \E o \in Object : o.data = p.loaded[x][h] /\ objs' = [objs EXCEPT ![h] = o]
              /\ StepIs(r, "readObject", p.at, h, p.done \cup {h}, p.seen, p.loaded, p.polls)
           \/ objs' = objs /\ StepIs(r, "down", 1, NoObject, {}, NoObject, <<>>, 0)
      BY <1>2, <1>3, <3>12 DEF PutResult
    <3> QED
      BY <3>8, <3>9, <3>10, <3>13
  <2>7. CASE ObjectsWritten(r)
    <3>1. /\ UNCHANGED objs /\ DOMAIN maps[x].data \subseteq p.done
          /\ StepIs(r, "wait", p.at, p.hand, p.done, p.seen, p.loaded, Retries)
      BY <1>1, <1>2, <1>3, <2>1, <2>7, WrittenEffect
    <3>2. AssetRecords'
      BY <1>1, <2>2, <3>1 DEF AssetRecords, StepIs, Own
    <3>3. \A q \in p.done : ObjOK(x, q)'
      BY <2>2, <2>3, <3>1 DEF ObjOK
    <3>4. SetOK(x)'
      BY <2>2, <3>1, <3>3 DEF SetOK
    <3> QED
      BY <2>2, <2>3, <2>4, <3>1, <3>2, <3>3, <3>4, KeepsAll
  <2> QED
    BY <1>10, <2>5, <2>6, <2>7
<1>11. CASE Ready(r)
  <2>1. UNCHANGED <<maps, objs, leader, exits, pins>> /\ p.pc = "wait"
    BY <1>1, <1>2, <1>11, ReadyEffect
  <2>2. \A a \in AssetNames : MapOK(a) /\ MapOK(a)' /\ SetOK(a)' = SetOK(a)
    BY <1>1, <1>2, <2>1 DEF DeployInv, MapOK, SetOK, ObjOK
  <2>3. \A a \in Passed(p.at) \cup {x} : SetOK(a)
    BY <1>1, <1>2, <1>3, <2>1 DEF DeployInv
  <2>4. AssetRecords'
    BY <1>1, <1>11, <2>1, ReadyEffect DEF AssetRecords, StepIs, Own
  <2>5. CASE /\ p.at < Len(Assets) /\ settled' = settled
             /\ StepIs(r, "readObject", p.at + 1, NoObject, {}, NoObject, p.loaded, 0)
    <3>1. \A a \in Passed(p.at + 1) : SetOK(a)'
      BY <1>3, <1>4, <1>5, <2>2, <2>3
    <3>2. DeployInv(r)'
      BY <1>1, <1>2, <2>1, <2>2, <2>5, <3>1 DEF DeployInv, StepIs, ProcIs
    <3> QED
      BY <1>2, <2>1, <2>4, <2>5, <3>2, KeepsAll, ReplicaKeeps DEF StepIs
  <2>6. CASE p.at = Len(Assets) /\ settled' = TRUE /\ StepIs(r, "started", 1, NoObject, {}, NoObject, <<>>, 0)
    <3>1. \A a \in AssetNames : MapOK(a)' /\ SetOK(a)'
      BY <1>4, <2>2, <2>3, <2>6
    <3>2. \A q \in Replicas : DeployInv(q)'
      <4>1. DeployInv(r)'
        BY <2>6 DEF DeployInv, StepIs, ProcIs
      <4> QED
        BY <1>1, <2>1, <2>6, <4>1, KeepsAll, OthersKept DEF StepIs, AssetInv
    <3>3. (leader # NoReplica => proc[leader].pc = "started")'
      BY <1>2, <2>1, <2>6, LeaderKept DEF StepIs
    <3> QED
      BY <2>4, <3>1, <3>2, <3>3 DEF AssetInv
  <2> QED
    BY <1>1, <1>2, <1>11, <2>5, <2>6, ReadyEffect
<1>12. CASE NotReady(r)
  <2>1. UNCHANGED <<maps, objs, leader, settled, exits, pins>> /\ p.pc = "wait"
    BY <1>1, <1>2, <1>12, NotReadyEffect
  <2>2. AssetRecords'
    BY <1>1, <1>12, <2>1, NotReadyEffect DEF AssetRecords, StepIs, Own
  <2>3. CASE StepIs(r, "down", 1, NoObject, {}, NoObject, <<>>, 0)
    BY <1>2, <2>1, <2>2, <2>3, KeepsAll, DownInv, ReplicaKeeps DEF StepIs
  <2>4. ASSUME NEW n, StepIs(r, "wait", p.at, p.hand, p.done, p.seen, p.loaded, n) PROVE AssetInv'
    <3>1. Asset(r)' = x
      BY <1>3, <2>4 DEF Asset, StepIs, ProcIs
    <3>2. \A a : MapOK(a)' = MapOK(a) /\ SetOK(a)' = SetOK(a) /\ \A o : ObjOK(a, o)' = ObjOK(a, o)
      BY <2>1 DEF MapOK, SetOK, ObjOK
    <3>3. DeployInv(r)'
      BY <1>1, <1>2, <1>3, <2>1, <2>4, <3>1, <3>2 DEF DeployInv, StepIs, ProcIs
    <3> QED
      BY <1>2, <2>1, <2>2, <2>4, <3>3, KeepsAll, ReplicaKeeps DEF StepIs
  <2> QED
    BY <1>1, <1>2, <1>12, <2>3, <2>4, NotReadyEffect
<1> QED
  BY <1>6, <1>7, <1>8, <1>9, <1>10, <1>11, <1>12 DEF ReplicaStep

\* A replica ends for a reason of its own; pods change; a user writes; a leader.
LEMMA AssetOtherSteps ==
  ASSUME AssetInv,
         \/ \E r \in Replicas : Elect(r) \/ ReplicaExits(r)
         \/ \E o \in Objects : PodsChange(o)
         \/ \E a \in AssetNames, c \in Data : PinMap(a, c)
         \/ UNCHANGED assetVars
  PROVE  AssetInv'
<1>1. AssetRecords
  BY DEF AssetInv
<1>2. ASSUME NEW r \in Replicas, Elect(r) PROVE AssetInv'
  <2>1. leader' = r /\ proc[r].pc = "started" /\ UNCHANGED <<maps, objs, proc, settled, exits, pins>>
    BY <1>2 DEF Elect
  <2>2. AssetRecords'
    BY <1>1, <2>1 DEF AssetRecords
  <2>3. \A q \in Replicas : DeployInv(q)'
    BY <1>1, <2>1, KeepsAll, OthersKept DEF AssetInv
  <2>4. (settled => \A a \in AssetNames : MapOK(a) /\ SetOK(a))'
    BY <2>1, KeepsAll, SettledKept DEF AssetInv
  <2> QED
    BY <2>1, <2>2, <2>3, <2>4 DEF AssetInv
<1>3. ASSUME NEW r \in Replicas, ReplicaExits(r) PROVE AssetInv'
  <2>1. /\ exits > 0 /\ exits' = exits - 1 /\ Exit(r) /\ leader' = IF leader = r THEN NoReplica ELSE leader
        /\ UNCHANGED <<maps, objs, settled, pins>>
    BY <1>3 DEF ReplicaExits
  <2>2. StepIs(r, "down", 1, NoObject, {}, NoObject, <<>>, 0)
    BY <1>1, <2>1, ExitIs
  <2>3. exits' \in Nat
    BY <1>1, <2>1 DEF AssetRecords
  <2>4. AssetRecords'
    BY <1>1, <2>1, <2>2, <2>3 DEF AssetRecords, StepIs
  <2>5. \A q \in Replicas : DeployInv(q)'
    BY <1>1, <2>1, <2>2, KeepsAll, OthersKept, DownInv DEF AssetInv, StepIs
  <2>6. (leader # NoReplica => proc[leader].pc = "started")'
    BY <1>1, <2>1, <2>2, ReplicasAssumption DEF AssetInv, AssetRecords, StepIs
  <2>7. (settled => \A a \in AssetNames : MapOK(a) /\ SetOK(a))'
    BY <2>1, KeepsAll, SettledKept DEF AssetInv
  <2> QED
    BY <2>4, <2>5, <2>6, <2>7 DEF AssetInv
<1>4. ASSUME NEW w \in Objects, PodsChange(w) PROVE AssetInv'
  <2>1. /\ objs[w] # NoObject /\ objs[w] \in Object
        /\ objs' = [objs EXCEPT ![w].unavailable = ~objs[w].unavailable]
        /\ UNCHANGED <<maps, proc, leader, settled, exits, pins>>
    BY <1>1, <1>4 DEF PodsChange, AssetRecords
  <2>2. PICK b \in BOOLEAN : b = ~objs[w].unavailable
    BY <2>1 DEF Object
  <2>3. PICK o \in Object : o = [objs[w] EXCEPT !.unavailable = b]
    BY <2>1 DEF Object
  <2>4. o.data = objs[w].data
    BY <2>1, <2>3 DEF Object
  <2>5. objs' = [objs EXCEPT ![w] = o]
    BY <1>1, <2>1, <2>2, <2>3 DEF AssetRecords
  <2>6. AssetRecords'
    BY <1>1, <2>1, <2>5 DEF AssetRecords, Own
  <2>7. Keeps
    <3>1. objs'[w] = o /\ \A q \in Objects \ {w} : objs'[q] = objs[q]
      BY <1>1, <2>5 DEF AssetRecords
    <3>2. \A a \in AssetNames : MapOK(a) => DOMAIN maps[a].data \subseteq Objects
      BY <1>1, ObjectsAssumption DEF AssetRecords, Own, MapOK
    <3> QED
      BY <2>1, <2>4, <3>1, <3>2, ContentsAssumption DEF Keeps, ObjOK
  <2>8. \A q \in Replicas : DeployInv(q)'
    BY <1>1, <2>1, <2>7, OthersKept DEF AssetInv
  <2>9. (settled => \A c \in AssetNames : MapOK(c) /\ SetOK(c))'
    BY <2>1, <2>7, SettledKept DEF AssetInv
  <2> QED
    BY <2>1, <2>6, <2>8, <2>9 DEF AssetInv
<1>5. ASSUME NEW a \in AssetNames, NEW c \in Data, PinMap(a, c) PROVE AssetInv'
  <2>1. /\ pins > 0 /\ pins' = pins - 1 /\ settled' = FALSE /\ UNCHANGED <<objs, proc, leader, exits>>
        /\ maps' = [maps EXCEPT ![a] = [data |-> c, immutable |-> TRUE]]
        /\ \A r \in Replicas : proc[r].pc \in {"down", "started"}
        /\ DOMAIN c \subseteq ObjectsOf[a]
    BY <1>5 DEF PinMap, Deploying
  <2>2. PICK m \in ConfigMap : m = [data |-> c, immutable |-> TRUE] /\ m.data = c
    <3>1. [data |-> c, immutable |-> TRUE] \in ConfigMap
      BY DEF ConfigMap
    <3> QED
      BY <3>1
  <2>3. pins' \in Nat
    BY <1>1, <2>1 DEF AssetRecords
  <2>4. AssetRecords'
    <3>1. maps'[a] = m /\ \A q \in AssetNames \ {a} : maps'[q] = maps[q]
      BY <1>1, <2>1, <2>2 DEF AssetRecords
    <3>2. Own(maps')
      BY <1>1, <2>1, <2>2, <3>1 DEF AssetRecords, Own
    <3> QED
      BY <1>1, <2>1, <2>2, <2>3, <3>2 DEF AssetRecords, Own
  <2>5. \A q \in Replicas : DeployInv(q)'
    BY <2>1 DEF AssetInv, DeployInv
  <2> QED
    BY <2>1, <2>4, <2>5 DEF AssetInv
<1>6. CASE UNCHANGED assetVars
  <2>1. UNCHANGED <<maps, objs, proc, leader, settled, exits, pins>>
    BY <1>6 DEF assetVars
  <2>2. \A q \in Replicas : DeployInv(q)'
    BY <1>1, <2>1, KeepsAll, OthersKept DEF AssetInv
  <2>3. (settled => \A a \in AssetNames : MapOK(a) /\ SetOK(a))'
    BY <2>1, KeepsAll, SettledKept DEF AssetInv
  <2>4. AssetRecords'
    BY <1>1, <2>1 DEF AssetRecords
  <2> QED
    BY <2>1, <2>2, <2>3, <2>4 DEF AssetInv
<1> QED
  BY <1>2, <1>3, <1>4, <1>5, <1>6

\* The invariant holds however the operator begins.
LEMMA AssetInvInit == ASSUME OperatorInit PROVE AssetInv
<1>1. PICK b \in Starts : AssetInit(b.assets)
  BY DEF OperatorInit
<1>2. PICK s \in AssetStart : s = b.assets /\ s \in AssetStarts
  BY StartsAssumption, AssetStartsAssumption
<1>3. /\ maps = s.maps /\ objs = s.objs /\ leader = s.leader /\ exits = s.exits /\ pins = s.pins
      /\ proc = [r \in Replicas |-> IF s.leader = NoReplica THEN Down ELSE [Down EXCEPT !.pc = "started"]]
      /\ settled = (s.leader # NoReplica)
  BY <1>1, <1>2 DEF AssetInit
<1>4. PICK u \in ProcRecord, v \in ProcRecord : u = Down /\ v = [Down EXCEPT !.pc = "started"]
  BY DownIs DEF ProcIs
<1>5. proc = [r \in Replicas |-> IF s.leader = NoReplica THEN u ELSE v]
  BY <1>3, <1>4
<1>6. AssetRecords
  BY <1>2, <1>3, <1>5, AssetStartsAssumption DEF AssetRecords, AssetStart
<1>7. u.pc = "down" /\ u.at = 1 /\ u.loaded = <<>> /\ u.done = {} /\ v.pc = "started"
  BY <1>4, DownIs DEF ProcIs
<1>8. \A r \in Replicas : DeployInv(r)
  BY <1>5, <1>7 DEF DeployInv
<1>9. leader # NoReplica => proc[leader].pc = "started"
  BY <1>3, <1>5, <1>6, <1>7 DEF AssetRecords
<1>10. settled => \A a \in AssetNames : MapOK(a) /\ SetOK(a)
  <2>1. settled => Whole(s.maps, s.objs)
    BY <1>2, <1>3, LeaderAssumption
  <2> QED
    BY <1>3, <2>1 DEF Whole, MapOK, SetOK, ObjOK
<1> QED
  BY <1>6, <1>8, <1>9, <1>10 DEF AssetInv

\* However many replicas deploy at once, exit on conflicts, fail halfway and begin
\* again: once one of them has deployed all assets, every ConfigMap has all that
\* its file says unless it is immutable, and every object all that its ConfigMap
\* says, until a user writes a ConfigMap.
THEOREM DeploysWhole == OperatorSpec => []DeployedIsWhole
<1>1. OperatorInit => AssetInv
  BY AssetInvInit
<1>2. AssetInv /\ [OperatorNext]_operatorVars => AssetInv'
  <2> SUFFICES ASSUME AssetInv, [OperatorNext]_operatorVars PROVE AssetInv'
    OBVIOUS
  <2>1. \/ \E r \in Replicas : ReplicaStep(r) \/ Elect(r) \/ ReplicaExits(r)
        \/ \E o \in Objects : PodsChange(o)
        \/ \E a \in AssetNames, c \in Data : PinMap(a, c)
        \/ UNCHANGED assetVars
    BY AssetsAssumption, ObjectsAssumption
    DEF OperatorNext, operatorVars, DeployStep, TakeOver, Stop, Controller, ControllerTrouble,
        InformerResync, Kubernetes, DaemonSetPods, OthersWrite
  <2> QED
    BY <2>1, ReplicaStepInv, AssetOtherSteps
<1>3. AssetInv => DeployedIsWhole
  <2> SUFFICES ASSUME AssetInv PROVE DeployedIsWhole
    OBVIOUS
  <2>1. ASSUME NEW r \in Replicas
        PROVE  /\ proc[r].pc \in ProcPCs /\ proc[r].at \in DOMAIN Assets /\ proc[r].polls \in 0..Retries
               /\ DOMAIN proc[r].loaded \subseteq AssetNames
               /\ proc[r].pc \in {"readObject", "writeObject", "wait"} =>
                    Asset(r) \in DOMAIN proc[r].loaded /\ proc[r].done \subseteq Load(r)
               /\ proc[r].pc = "writeObject" => proc[r].hand \in Load(r)
    <3>1. AssetRecords /\ DeployInv(r)
      BY DEF AssetInv
    <3>2. proc[r].pc \in ProcPCs /\ proc[r].at \in DOMAIN Assets /\ proc[r].polls \in 0..Retries
      BY <3>1 DEF AssetRecords, ProcRecord
    <3>3. DOMAIN proc[r].loaded \subseteq AssetNames
      BY <3>1 DEF AssetRecords, ProcRecord, Loads
    <3>4. proc[r].pc \in {"readObject", "writeObject", "wait"} =>
            Asset(r) \in DOMAIN proc[r].loaded /\ proc[r].loaded[Asset(r)] = maps[Asset(r)].data
      BY <3>1, AssetIs DEF DeployInv
    <3>5. proc[r].pc \in {"readObject", "writeObject", "wait"} => proc[r].done \subseteq Load(r)
      BY <3>1, <3>4 DEF DeployInv, Load
    <3>6. proc[r].pc = "writeObject" => proc[r].hand \in Load(r)
      BY <3>1, <3>4 DEF DeployInv, Load
    <3> QED
      BY <3>2, <3>3, <3>4, <3>5, <3>6
  <2>2. AssetTypeOK
    BY <2>1 DEF AssetTypeOK, AssetInv, AssetRecords, ProcPCs
  <2>3. settled => Whole(maps, objs)
    BY DEF AssetInv, Whole, MapOK, SetOK, ObjOK
  <2> QED
    BY <2>2, <2>3 DEF DeployedIsWhole
<1> QED
  BY <1>1, <1>2, <1>3, PTL DEF OperatorSpec

-----------------------------------------------------------------------------
(* The node agents: records *)

NodeLists == UNION {[N -> Capacity] : N \in SUBSET Nodes}

RecRecord ==
  [pc : {"idle", "list", "nodes"}, cr : AgentSpec \cup {None}, orphan : BOOLEAN, nodes : NodeLists,
   deleted : BOOLEAN]

\* The variables of Reconcile, by their fields.
RecIs(r, pc, spec, orphan, nodes, deleted) ==
  /\ r \in RecRecord /\ r.pc = pc /\ r.cr = spec /\ r.orphan = orphan /\ r.nodes = nodes
  /\ r.deleted = deleted

OldRecord == [pool : Pools \cup {None}, nad : Nads \cup {None}]

AgentRecords ==
  /\ cr \in AgentSpec \cup {None} /\ owned \in BOOLEAN
  /\ cap \in [Nodes -> Capacity \cup {None}]
  /\ podOf \in [Nodes -> Pod \cup {None}]
  /\ queue \in BOOLEAN /\ later \in BOOLEAN
  /\ rec \in RecRecord
  /\ old \in OldRecord
  /\ tmpl \in Capacity
  /\ missed \in BOOLEAN /\ failed \in BOOLEAN /\ edits \in Nat /\ faults \in Nat

\* Reconcile works on an object with an annotation, and remembers one.
AgentSteps ==
  /\ rec.pc # "idle" => rec.cr \in AgentSpec /\ rec.cr.nad # None
  /\ rec.pc # "nodes" => rec.nodes = <<>>
  /\ old = NoOld \/ (old.pool # None /\ old.nad # None)

\* A pod has VFs of the pool that it was made for.
PodsHaveVFs ==
  \A n \in Nodes : podOf[n] # None =>
    podOf[n].count = podOf[n].limits[podOf[n].for] /\ podOf[n].count # 0

MadeFor(n, pool, nad) == podOf[n].for = pool /\ podOf[n].nad = nad

\* The pods were made for what the last Reconcile read or, where this one has been
\* already, for what this one has read.  (Nodes that are gone are not looked at;
\* one that comes back to a pod of something else is missed.)
MadeInv ==
  ~failed /\ ~missed =>
    \A n \in Nodes : podOf[n] # None /\ ~podOf[n].dying =>
      IF rec.pc = "nodes" /\ n \notin DOMAIN rec.nodes
        THEN cap[n] # None => MadeFor(n, rec.cr.pool, rec.cr.nad)
        ELSE old # NoOld /\ (cap[n] # None \/ n \in DOMAIN rec.nodes) => MadeFor(n, old.pool, old.nad)

\* The pod of a node is what the object asks for, or on its way out.
Fits(n) ==
  IF podOf[n] = None THEN cap[n][cr.pool] = 0
  ELSE \/ podOf[n].dying
       \/ /\ podOf[n].limits[cr.pool] = cap[n][cr.pool] /\ cap[n][cr.pool] # 0
          /\ podOf[n].nad = cr.nad

\* With no request waiting, what Reconcile has read is what there is, and the
\* nodes that it is through with are as they should be.
FitInv ==
  ~failed /\ ~missed /\ ~queue /\ Wanted =>
    /\ rec.pc = "idle" => /\ old.pool = cr.pool /\ old.nad = cr.nad
                          /\ \A n \in Nodes : cap[n] # None => Fits(n)
    /\ rec.pc # "idle" => rec.cr = cr
    /\ rec.pc = "nodes" =>
         \A n \in Nodes : cap[n] # None =>
           IF n \in DOMAIN rec.nodes THEN rec.nodes[n][cr.pool] = cap[n][cr.pool]
           ELSE rec.deleted \/ Fits(n)

AgentInv == AgentRecords /\ AgentSteps /\ PodsHaveVFs /\ MadeInv /\ FitInv

-----------------------------------------------------------------------------
(* The node agents: what the steps do *)

\* Reconcile without a request.
LEMMA IdleIs == RecIs(Idle, "idle", None, FALSE, <<>>, FALSE)
<1>1. <<>> \in NodeLists
  <2>1. <<>> \in [{} -> Capacity] /\ {} \in SUBSET Nodes
    OBVIOUS
  <2> QED
    BY <2>1 DEF NodeLists
<1> QED
  BY <1>1 DEF RecIs, RecRecord, Idle

\* The listed nodes, with their VFs.
LEMMA NodeListIs ==
  ASSUME NEW f \in NodeLists
  PROVE  DOMAIN f \subseteq Nodes /\ \A n \in DOMAIN f : f[n] \in Capacity
BY DEF NodeLists

\* Reconcile is through with a node.
NodeDone(n, deleted) ==
  /\ rec' \in RecRecord /\ rec'.pc = "nodes" /\ rec'.cr = rec.cr
  /\ DOMAIN rec'.nodes = DOMAIN rec.nodes \ {n}
  /\ \A m \in DOMAIN rec'.nodes : rec'.nodes[m] = rec.nodes[m]
  /\ (rec'.deleted <=> rec.deleted \/ deleted)

\* The node is taken off the list.
LEMMA NextNodeIs ==
  ASSUME AgentRecords, rec.pc = "nodes", NEW n \in Nodes, NEW d \in BOOLEAN, NextNode(n, d)
  PROVE  NodeDone(n, d)
<1>1. PICK r \in RecRecord : r = rec
  BY DEF AgentRecords
<1>2. PICK N \in SUBSET Nodes : r.nodes \in [N -> Capacity]
  BY DEF RecRecord, NodeLists
<1>3. Drop(r.nodes, n) \in [N \ {n} -> Capacity] /\ N \ {n} \in SUBSET Nodes
      /\ DOMAIN Drop(r.nodes, n) = DOMAIN r.nodes \ {n}
      /\ \A m \in DOMAIN Drop(r.nodes, n) : Drop(r.nodes, n)[m] = r.nodes[m]
  BY <1>2 DEF Drop
<1>4. PICK l \in NodeLists : l = Drop(r.nodes, n)
  BY <1>3 DEF NodeLists
<1>5. PICK b \in BOOLEAN : b = (r.deleted \/ d)
  BY DEF RecRecord
<1>6. rec' = [r EXCEPT !.nodes = l, !.deleted = b]
  BY <1>1, <1>4, <1>5 DEF NextNode
<1>7. rec' \in RecRecord /\ rec'.pc = r.pc /\ rec'.cr = r.cr /\ rec'.nodes = l /\ rec'.deleted = b
  BY <1>6 DEF RecRecord
<1> QED
  BY <1>1, <1>3, <1>4, <1>5, <1>7 DEF NodeDone

\* A pod is as it was, but for an owner that is gone or a deletion that begins.
SamePod(m) ==
  /\ (podOf'[m] = None) <=> (podOf[m] = None)
  /\ podOf[m] # None =>
       /\ podOf'[m].for = podOf[m].for /\ podOf'[m].nad = podOf[m].nad
       /\ podOf'[m].limits = podOf[m].limits /\ podOf'[m].count = podOf[m].count
       /\ podOf[m].dying => podOf'[m].dying

\* A pod that is being deleted.
LEMMA DyingIs ==
  ASSUME AgentRecords, NEW n \in Nodes, podOf[n] # None, podOf' = [podOf EXCEPT ![n].dying = TRUE]
  PROVE  /\ podOf' \in [Nodes -> Pod \cup {None}] /\ \A m \in Nodes : SamePod(m)
         /\ podOf'[n] # None /\ podOf'[n].dying
<1>1. PICK q \in Pod : q = podOf[n]
  BY DEF AgentRecords
<1>2. PICK v \in Pod : v = [q EXCEPT !.dying = TRUE]
  BY DEF Pod
<1>3. /\ v.for = q.for /\ v.nad = q.nad /\ v.limits = q.limits /\ v.count = q.count
      /\ v.dying = TRUE
  BY <1>2 DEF Pod
<1>4. podOf' = [podOf EXCEPT ![n] = v]
  BY <1>1, <1>2 DEF AgentRecords
<1>5. /\ podOf' \in [Nodes -> Pod \cup {None}] /\ podOf'[n] = v
      /\ \A m \in Nodes \ {n} : podOf'[m] = podOf[m]
  BY <1>4 DEF AgentRecords
<1>6. v # None /\ podOf[n] # None
  BY PodsAssumption
<1> QED
  BY <1>1, <1>3, <1>5, <1>6 DEF SamePod

\* A failure, that may be only logged.
LEMMA FaultIs ==
  ASSUME AgentRecords, NEW b \in BOOLEAN, Fault(b)
  PROVE  /\ faults' \in Nat /\ failed' \in BOOLEAN /\ UNCHANGED <<missed, edits>>
         /\ (failed' <=> failed \/ b)
<1>1. faults \in Nat /\ faults > 0 /\ faults' = faults - 1
  BY DEF AgentRecords, Fault
<1>2. faults' \in Nat
  BY <1>1
<1>3. failed' = (failed \/ b) /\ UNCHANGED <<missed, edits>> /\ failed \in BOOLEAN
  BY DEF AgentRecords, Fault
<1> QED
  BY <1>2, <1>3

\* A change that somebody makes.
LEMMA EditIs ==
  ASSUME AgentRecords, Edit
  PROVE  edits' \in Nat /\ UNCHANGED <<failed, faults>>
<1>1. edits \in Nat /\ edits > 0 /\ edits' = edits - 1 /\ UNCHANGED <<failed, faults>>
  BY DEF AgentRecords, Edit
<1> QED
  BY <1>1

\* Pods keep their VFs.
LEMMA VFsKept ==
  ASSUME PodsHaveVFs, \A m \in Nodes : SamePod(m)
  PROVE  PodsHaveVFs'
BY DEF PodsHaveVFs, SamePod

\* Nothing that MadeInv is about changes, but nodes that go, or come without pods.
LEMMA MadeKept ==
  ASSUME MadeInv, \A m \in Nodes : SamePod(m), ~failed' /\ ~missed' => ~failed /\ ~missed,
         old' = old, rec'.pc = rec.pc, rec'.cr = rec.cr, rec'.nodes = rec.nodes,
         \A m \in Nodes : cap'[m] # None => cap[m] # None \/ podOf[m] = None
  PROVE  MadeInv'
BY DEF MadeInv, SamePod, MadeFor

\* Nothing that FitInv is about changes, but nodes that go, or pods that begin to.
LEMMA FitKept ==
  ASSUME FitInv, \A m \in Nodes : SamePod(m), ~failed' /\ ~missed' => ~failed /\ ~missed,
         ~queue' => ~queue, cr' = cr, old' = old, rec'.pc = rec.pc, rec'.cr = rec.cr,
         rec'.nodes = rec.nodes, rec'.deleted = rec.deleted,
         \A m \in Nodes : cap'[m] # None => cap'[m] = cap[m]
  PROVE  FitInv'
<1>1. \A m \in Nodes : Fits(m) /\ cap'[m] # None => Fits(m)'
  BY DEF Fits, SamePod
<1>2. Wanted' = Wanted
  BY DEF Wanted
<1> QED
  BY <1>1, <1>2 DEF FitInv

\* Pods that are left alone.
LEMMA PodsUnchanged == ASSUME UNCHANGED podOf PROVE \A m \in Nodes : SamePod(m)
BY DEF SamePod

-----------------------------------------------------------------------------
(* The node agents: steps of Reconcile *)

\* The object is read; the request that brought this is gone.
LEMMA AgentGet == ASSUME AgentInv, ReconcileGet PROVE AgentInv'
<1>1. AgentRecords /\ AgentSteps /\ PodsHaveVFs /\ MadeInv /\ rec.pc = "idle"
  BY DEF AgentInv, ReconcileGet
<1>2. UNCHANGED <<cr, cap, podOf, old, tmpl, missed, failed, edits, faults>>
  BY DEF ReconcileGet, bounds
<1>3. owned' \in BOOLEAN /\ queue' \in BOOLEAN /\ later' \in BOOLEAN
  <2>1. owned' = (cr # None) /\ queue' = (cr # None /\ ~owned) /\ later' = (later \/ (cr # None /\ cr.nad = None))
    BY DEF ReconcileGet, setInstanceOwner
  <2> QED
    BY <2>1
<1>4. \/ cr # None /\ cr.nad # None /\ RecIs(rec', "list", cr, FALSE, <<>>, FALSE)
      \/ ~Wanted /\ RecIs(rec', "idle", None, FALSE, <<>>, FALSE)
  <2>1. CASE cr # None /\ cr.nad # None
    <3>1. PICK s \in AgentSpec : s = cr
      BY <1>1, <2>1 DEF AgentRecords
    <3>2. rec' = [Idle EXCEPT !.pc = "list", !.cr = s]
      BY <2>1, <3>1 DEF ReconcileGet
    <3>3. RecIs(rec', "list", s, FALSE, <<>>, FALSE)
      BY <3>2, IdleIs DEF RecIs, RecRecord
    <3> QED
      BY <2>1, <3>1, <3>3
  <2>2. CASE ~(cr # None /\ cr.nad # None)
    BY <2>2, IdleIs DEF ReconcileGet, Wanted
  <2> QED
    BY <2>1, <2>2
<1>5. AgentRecords'
  BY <1>1, <1>2, <1>3, <1>4 DEF AgentRecords, RecIs
<1>6. AgentSteps'
  BY <1>1, <1>2, <1>4 DEF AgentRecords, AgentSteps, RecIs
<1>7. PodsHaveVFs'
  BY <1>1, <1>2, VFsKept, PodsUnchanged
<1>8. MadeInv'
  BY <1>1, <1>2, <1>4 DEF MadeInv, MadeFor, RecIs, AgentSteps
<1>9. FitInv'
  BY <1>2, <1>4 DEF FitInv, Wanted, RecIs
<1> QED
  BY <1>5, <1>6, <1>7, <1>8, <1>9 DEF AgentInv

\* The nodes are read.
LEMMA AgentList == ASSUME AgentInv, ListNodes PROVE AgentInv'
<1>1. AgentRecords /\ AgentSteps /\ PodsHaveVFs /\ MadeInv /\ FitInv /\ rec.pc = "list"
  BY DEF AgentInv, ListNodes
<1>2. UNCHANGED <<cr, owned, cap, podOf, queue, later, old, tmpl, missed, failed, edits, faults>>
  BY DEF ListNodes, outside, bounds
<1>3. PICK r \in RecRecord : r = rec
  BY <1>1 DEF AgentRecords
<1>4. PICK l \in NodeLists : l = [n \in There(cap) |-> cap[n]]
  <2> DEFINE f == [n \in There(cap) |-> cap[n]]
  <2>1. There(cap) \in SUBSET Nodes /\ f \in [There(cap) -> Capacity]
    BY <1>1 DEF AgentRecords, There
  <2>2. f \in NodeLists
    BY <2>1 DEF NodeLists
  <2> QED
    BY <2>2
<1>5. rec' = [r EXCEPT !.pc = "nodes", !.nodes = l]
  BY <1>3, <1>4 DEF ListNodes
<1>6. RecIs(rec', "nodes", r.cr, r.orphan, l, r.deleted)
  BY <1>5 DEF RecIs, RecRecord
<1>7. DOMAIN l = There(cap) /\ \A n \in There(cap) : l[n] = cap[n]
  BY <1>4
<1>8. \A n \in Nodes : n \in DOMAIN l <=> cap[n] # None
  BY <1>1, <1>7 DEF There, AgentRecords
<1>9. AgentRecords'
  BY <1>1, <1>2, <1>6 DEF AgentRecords, RecIs
<1>10. AgentSteps'
  BY <1>1, <1>2, <1>3, <1>6 DEF AgentSteps, RecIs
<1>11. PodsHaveVFs'
  BY <1>1, <1>2, VFsKept, PodsUnchanged
<1>12. MadeInv'
  BY <1>1, <1>2, <1>6, <1>8 DEF MadeInv, MadeFor, RecIs
<1>13. FitInv'
  <2>1. \A n \in Nodes : cap[n] # None => n \in DOMAIN l /\ l[n] = cap[n]
    BY <1>7, <1>8
  <2> QED
    BY <1>1, <1>2, <1>3, <1>6, <2>1 DEF FitInv, Wanted, RecIs
<1> QED
  BY <1>9, <1>10, <1>11, <1>12, <1>13 DEF AgentInv

\* They cannot be read: the request comes back.
LEMMA AgentReadFails == ASSUME AgentInv, ReadFails PROVE AgentInv'
<1>1. AgentRecords /\ AgentSteps /\ PodsHaveVFs /\ MadeInv /\ rec.pc = "list"
  BY DEF AgentInv, ReadFails
<1>2. /\ UNCHANGED <<cr, owned, cap, podOf, later, old, tmpl>> /\ queue' = TRUE
      /\ RecIs(rec', "idle", None, FALSE, <<>>, FALSE)
  BY IdleIs DEF ReadFails, outside
<1>3. Fault(FALSE)
  BY DEF ReadFails
<1>4. faults' \in Nat /\ failed' \in BOOLEAN /\ UNCHANGED <<missed, edits>> /\ (failed' <=> failed)
  BY <1>1, <1>3, FaultIs
<1>5. AgentRecords' /\ AgentSteps'
  BY <1>1, <1>2, <1>4 DEF AgentRecords, AgentSteps, RecIs
<1>6. PodsHaveVFs'
  BY <1>1, <1>2, VFsKept, PodsUnchanged
<1>7. MadeInv'
  BY <1>1, <1>2, <1>4 DEF MadeInv, MadeFor, RecIs, AgentSteps
<1>8. FitInv'
  BY <1>2 DEF FitInv
<1> QED
  BY <1>5, <1>6, <1>7, <1>8 DEF AgentInv

\* The VFs of a listed node.
LEMMA ListedNode ==
  ASSUME AgentInv, rec.pc = "nodes", NEW n \in DOMAIN rec.nodes
  PROVE  /\ n \in Nodes /\ rec.nodes[n] \in Capacity /\ rec.cr \in AgentSpec /\ rec.cr.pool \in Pools
         /\ rec.cr.nad \in Nads /\ getNodeResources(n) \in Quantity
         /\ getNodeResources(n) = rec.nodes[n][rec.cr.pool]
<1>1. n \in Nodes /\ rec.nodes[n] \in Capacity
  BY NodeListIs DEF AgentInv, AgentRecords, RecRecord
<1>2. rec.cr \in AgentSpec /\ rec.cr.pool \in Pools /\ rec.cr.nad \in Nads
  BY DEF AgentInv, AgentSteps, AgentSpec
<1> QED
  BY <1>1, <1>2 DEF Capacity, getNodeResources

\* A node without a pod gets one, if it has VFs of the pool.
LEMMA AgentCreate == ASSUME AgentInv, NEW n \in Nodes, CreatePod(n) PROVE AgentInv'
<1>1. /\ AgentRecords /\ AgentSteps /\ PodsHaveVFs /\ MadeInv /\ FitInv
      /\ rec.pc = "nodes" /\ n \in DOMAIN rec.nodes /\ podOf[n] = None
  BY DEF AgentInv, CreatePod
<1>2. UNCHANGED <<cr, owned, cap, queue, later, old, missed, failed, edits, faults>>
  BY DEF CreatePod, outside, bounds
<1>3. NodeDone(n, FALSE)
  BY <1>1, NextNodeIs DEF CreatePod
<1>4. PICK pool \in Pools, nad \in Nads, qty \in Quantity :
        pool = rec.cr.pool /\ nad = rec.cr.nad /\ qty = getNodeResources(n) /\ qty = rec.nodes[n][pool]
  BY <1>1, ListedNode
<1>5. PICK limits \in Capacity : limits = [tmpl EXCEPT ![pool] = qty] /\ limits[pool] = qty
  <2>1. tmpl \in [Pools -> Quantity]
    BY <1>1 DEF AgentRecords, Capacity
  <2>2. [tmpl EXCEPT ![pool] = qty] \in [Pools -> Quantity] /\ [tmpl EXCEPT ![pool] = qty][pool] = qty
    BY <2>1
  <2> QED
    BY <2>2 DEF Capacity
<1>6. PICK q \in Pod : /\ q = NewPod(limits, n) /\ q.limits = limits /\ q.nad = nad /\ q.count = qty
                       /\ q.for = pool /\ q.dying = FALSE
  <2>1. PICK o \in BOOLEAN : o = rec.orphan
    BY <1>1 DEF AgentRecords, RecRecord
  <2>2. NewPod(limits, n) = [limits |-> limits, nad |-> nad, count |-> qty, for |-> pool, orphan |-> o,
                             dying |-> FALSE]
    BY <1>4, <2>1 DEF NewPod
  <2>3. PICK q \in Pod : q = [limits |-> limits, nad |-> nad, count |-> qty, for |-> pool, orphan |-> o,
                              dying |-> FALSE]
    BY DEF Pod
  <2>4. q.limits = limits /\ q.nad = nad /\ q.count = qty /\ q.for = pool /\ q.dying = FALSE
    BY <2>3
  <2> QED
    BY <2>2, <2>3, <2>4
<1>7. \/ qty = 0 /\ UNCHANGED <<tmpl, podOf>>
      \/ qty # 0 /\ tmpl' = limits /\ podOf' = [podOf EXCEPT ![n] = q]
  BY <1>4, <1>5, <1>6 DEF CreatePod
<1>8. /\ \A m \in Nodes \ {n} : podOf'[m] = podOf[m]
      /\ IF qty = 0 THEN podOf'[n] = None ELSE podOf'[n] = q
      /\ podOf' \in [Nodes -> Pod \cup {None}] /\ tmpl' \in Capacity
  BY <1>1, <1>7 DEF AgentRecords
<1>9. AgentRecords'
  BY <1>1, <1>2, <1>3, <1>8 DEF AgentRecords, NodeDone
<1>10. AgentSteps'
  BY <1>1, <1>2, <1>3 DEF AgentSteps, NodeDone
<1>11. PodsHaveVFs'
  <2>1. q.count = q.limits[q.for] /\ q.count = qty
    BY <1>5, <1>6
  <2>2. CASE qty = 0
    BY <1>1, <1>8, <2>2 DEF PodsHaveVFs
  <2>3. CASE qty # 0
    BY <1>1, <1>8, <2>1, <2>3 DEF PodsHaveVFs
  <2> QED
    BY <2>2, <2>3
<1>12. q # None
  BY PodsAssumption
<1>13. MadeInv'
  <2>1. ASSUME NEW m \in Nodes \ {n} PROVE MadeFor(m, rec.cr.pool, rec.cr.nad)' = MadeFor(m, rec.cr.pool, rec.cr.nad)
                                  /\ MadeFor(m, old.pool, old.nad)' = MadeFor(m, old.pool, old.nad)
    BY <1>2, <1>3, <1>8 DEF MadeFor, NodeDone
  <2>2. podOf'[n] # None => MadeFor(n, rec.cr.pool, rec.cr.nad)'
    BY <1>3, <1>4, <1>6, <1>8 DEF MadeFor, NodeDone
  <2> QED
    BY <1>1, <1>2, <1>3, <1>8, <2>1, <2>2 DEF MadeInv, NodeDone
<1>14. FitInv'
  <2>1. \A m \in Nodes \ {n} : Fits(m)' = Fits(m)
    BY <1>2, <1>8 DEF Fits
  <2>2. rec.cr = cr /\ cap[n] # None /\ rec.nodes[n][cr.pool] = cap[n][cr.pool] => Fits(n)'
    <3> SUFFICES ASSUME rec.cr = cr, cap[n] # None, rec.nodes[n][cr.pool] = cap[n][cr.pool]
                 PROVE  Fits(n)'
      OBVIOUS
    <3>1. cr'.pool = pool /\ cr'.nad = nad /\ cap'[n][pool] = qty
      BY <1>2, <1>4
    <3>2. CASE qty = 0
      BY <1>8, <3>1, <3>2 DEF Fits
    <3>3. CASE qty # 0
      <4>1. q.limits[pool] = qty /\ q.nad = nad
        BY <1>5, <1>6
      <4>2. podOf'[n] = q
        BY <1>8, <3>3
      <4> QED
        BY <1>12, <3>1, <3>3, <4>1, <4>2 DEF Fits
    <3> QED
      BY <3>2, <3>3
  <2>3. Wanted' = Wanted
    BY <1>2 DEF Wanted
  <2> QED
    BY <1>1, <1>2, <1>3, <2>1, <2>2, <2>3 DEF FitInv, NodeDone
<1> QED
  BY <1>9, <1>10, <1>11, <1>13, <1>14 DEF AgentInv

\* A failure that is only logged.
LEMMA AgentLogged ==
  ASSUME AgentInv, NEW n \in Nodes, CreateFails(n) \/ GetPodFails(n) \/ DeleteFails(n)
  PROVE  AgentInv'
<1>1. /\ AgentRecords /\ AgentSteps /\ PodsHaveVFs
      /\ rec.pc = "nodes" /\ n \in DOMAIN rec.nodes
  BY DEF AgentInv, CreateFails, GetPodFails, DeleteFails
<1>2. UNCHANGED <<cr, owned, cap, podOf, queue, later, old>> /\ Fault(TRUE)
  BY DEF CreateFails, GetPodFails, DeleteFails, outside
<1>3. \E d \in BOOLEAN : NodeDone(n, d)
  BY <1>1, NextNodeIs DEF CreateFails, GetPodFails, DeleteFails
<1>4. faults' \in Nat /\ failed' = TRUE /\ UNCHANGED <<missed, edits>>
  BY <1>1, <1>2, FaultIs
<1>5. tmpl' \in Capacity
  <2>1. PICK pool \in Pools, qty \in Quantity : pool = rec.cr.pool /\ qty = getNodeResources(n)
    BY <1>1, ListedNode
  <2>2. tmpl' = tmpl \/ tmpl' = [tmpl EXCEPT ![pool] = qty]
    BY <2>1 DEF CreateFails, GetPodFails, DeleteFails
  <2> QED
    BY <1>1, <2>2 DEF AgentRecords, Capacity
<1>6. AgentRecords'
  BY <1>1, <1>2, <1>3, <1>4, <1>5 DEF AgentRecords, NodeDone
<1>7. AgentSteps'
  BY <1>1, <1>2, <1>3 DEF AgentSteps, NodeDone
<1>8. PodsHaveVFs'
  BY <1>1, <1>2, VFsKept, PodsUnchanged
<1>9. MadeInv' /\ FitInv'
  BY <1>4 DEF MadeInv, FitInv
<1> QED
  BY <1>6, <1>7, <1>8, <1>9 DEF AgentInv

\* A pod that is looked at and is not outdated was made for what this Reconcile has
\* read, or is being deleted, or this is the first Reconcile of a process.
LEMMA KeptPods ==
  ASSUME AgentInv, ~failed, ~missed, rec.pc = "nodes", NEW n \in DOMAIN rec.nodes, podOf[n] # None,
         ~podOf[n].dying, ~Outdated(n), old # NoOld
  PROVE  MadeForThis(n)
<1>1. n \in Nodes
  BY ListedNode
<1>2. MadeFor(n, old.pool, old.nad)
  BY <1>1 DEF AgentInv, MadeInv
<1>3. old.pool # None
  BY DEF AgentInv, AgentSteps
<1>4. podOf[n].limits[podOf[n].for] # 0
  BY <1>1 DEF AgentInv, PodsHaveVFs
<1>5. old.pool = rec.cr.pool /\ old.nad = rec.cr.nad /\ getNodeResources(n) = getPodResources(n)
  BY <1>2, <1>3, <1>4 DEF MadeFor, Outdated
<1> QED
  BY <1>2, <1>5 DEF MadeFor, MadeForThis

\* A pod is kept.
LEMMA AgentKeep == ASSUME AgentInv, NEW n \in Nodes, KeepPod(n) PROVE AgentInv'
<1>1. /\ AgentRecords /\ AgentSteps /\ PodsHaveVFs /\ MadeInv /\ FitInv
      /\ rec.pc = "nodes" /\ n \in DOMAIN rec.nodes /\ podOf[n] # None /\ ~Outdated(n)
  BY DEF AgentInv, KeepPod
<1>2. UNCHANGED <<cr, owned, cap, podOf, queue, later, old, tmpl, failed, edits, faults>>
  BY DEF KeepPod, outside
<1>3. NodeDone(n, FALSE)
  BY <1>1, NextNodeIs DEF KeepPod
<1>4. missed' \in BOOLEAN /\ (missed' <=> missed \/ (old = NoOld /\ ~MadeForThis(n)))
  <2>1. missed' = (missed \/ (old = NoOld /\ ~MadeForThis(n))) /\ missed \in BOOLEAN
    BY <1>1 DEF KeepPod, AgentRecords
  <2> QED
    BY <2>1
<1>5. ~failed' /\ ~missed' /\ ~podOf[n].dying => MadeForThis(n)
  BY <1>1, <1>2, <1>4, KeptPods
<1>6. AgentRecords'
  BY <1>1, <1>2, <1>3, <1>4 DEF AgentRecords, NodeDone
<1>7. AgentSteps'
  BY <1>1, <1>2, <1>3 DEF AgentSteps, NodeDone
<1>8. PodsHaveVFs'
  BY <1>1, <1>2, VFsKept, PodsUnchanged
<1>9. MadeInv'
  <2>1. \A m \in Nodes : /\ MadeFor(m, rec.cr.pool, rec.cr.nad)' = MadeFor(m, rec.cr.pool, rec.cr.nad)
                         /\ MadeFor(m, old.pool, old.nad)' = MadeFor(m, old.pool, old.nad)
    BY <1>2, <1>3 DEF MadeFor, NodeDone
  <2>2. MadeForThis(n) => MadeFor(n, rec.cr.pool, rec.cr.nad)
    BY DEF MadeForThis, MadeFor
  <2> QED
    BY <1>1, <1>2, <1>3, <1>4, <1>5, <2>1, <2>2 DEF MadeInv, NodeDone
<1>10. FitInv'
  <2>1. \A m \in Nodes : Fits(m)' = Fits(m)
    BY <1>2 DEF Fits
  <2>2. podOf[n].limits[podOf[n].for] # 0
    BY <1>1 DEF PodsHaveVFs
  <2>3. MadeForThis(n) /\ rec.cr = cr /\ rec.nodes[n][cr.pool] = cap[n][cr.pool] => Fits(n)
    BY <1>1, <2>2 DEF MadeForThis, Fits, getPodResources, getNodeResources
  <2>4. podOf[n].dying => Fits(n)
    BY <1>1 DEF Fits
  <2>5. Wanted' = Wanted
    BY <1>2 DEF Wanted
  <2> QED
    BY <1>1, <1>2, <1>3, <1>4, <1>5, <2>1, <2>3, <2>4, <2>5 DEF FitInv, NodeDone
<1> QED
  BY <1>6, <1>7, <1>8, <1>9, <1>10 DEF AgentInv

\* A pod is deleted; the request will come back.
LEMMA AgentDelete == ASSUME AgentInv, NEW n \in Nodes, DeletePod(n) PROVE AgentInv'
<1>1. /\ AgentRecords /\ AgentSteps /\ PodsHaveVFs /\ MadeInv /\ FitInv
      /\ rec.pc = "nodes" /\ n \in DOMAIN rec.nodes /\ podOf[n] # None
  BY DEF AgentInv, DeletePod
<1>2. UNCHANGED <<cr, owned, cap, queue, later, old, tmpl, missed, failed, edits, faults>>
  BY DEF DeletePod, outside, bounds
<1>3. NodeDone(n, TRUE)
  BY <1>1, NextNodeIs DEF DeletePod
<1>4. /\ podOf' \in [Nodes -> Pod \cup {None}] /\ \A m \in Nodes : SamePod(m)
      /\ podOf'[n] # None /\ podOf'[n].dying
  BY <1>1, DyingIs DEF DeletePod
<1>5. AgentRecords'
  BY <1>1, <1>2, <1>3, <1>4 DEF AgentRecords, NodeDone
<1>6. AgentSteps'
  BY <1>1, <1>2, <1>3 DEF AgentSteps, NodeDone
<1>7. PodsHaveVFs'
  BY <1>1, <1>4, VFsKept
<1>8. MadeInv'
  BY <1>1, <1>2, <1>3, <1>4 DEF MadeInv, MadeFor, NodeDone, SamePod
<1>9. FitInv'
  <2>1. rec'.deleted /\ rec'.pc = "nodes" /\ rec'.cr = rec.cr
    BY <1>3 DEF NodeDone
  <2>2. Wanted' = Wanted
    BY <1>2 DEF Wanted
  <2> QED
    BY <1>1, <1>2, <1>3, <2>1, <2>2 DEF FitInv, NodeDone
<1> QED
  BY <1>5, <1>6, <1>7, <1>8, <1>9 DEF AgentInv

\* All nodes are done.
LEMMA AgentEnd == ASSUME AgentInv, ReconcileEnds PROVE AgentInv'
<1>1. /\ AgentRecords /\ AgentSteps /\ PodsHaveVFs /\ MadeInv /\ FitInv
      /\ rec.pc = "nodes" /\ DOMAIN rec.nodes = {}
  BY DEF AgentInv, ReconcileEnds
<1>2. /\ UNCHANGED <<cr, owned, cap, podOf, later, tmpl, missed, failed, edits, faults>>
      /\ RecIs(rec', "idle", None, FALSE, <<>>, FALSE)
  BY IdleIs DEF ReconcileEnds, outside, bounds
<1>3. queue' \in BOOLEAN /\ (queue' <=> queue \/ rec.deleted)
  <2>1. queue' = (queue \/ rec.deleted) /\ queue \in BOOLEAN /\ rec.deleted \in BOOLEAN
    BY <1>1 DEF ReconcileEnds, AgentRecords, RecRecord
  <2> QED
    BY <2>1
<1>4. rec.cr \in AgentSpec /\ rec.cr.pool \in Pools /\ rec.cr.nad \in Nads
  BY <1>1 DEF AgentSteps, AgentSpec
<1>5. /\ old' \in OldRecord /\ old'.pool = rec.cr.pool /\ old'.nad = rec.cr.nad
  BY <1>4 DEF ReconcileEnds, OldRecord
<1>6. AgentRecords'
  BY <1>1, <1>2, <1>3, <1>5 DEF AgentRecords, RecIs
<1>7. AgentSteps'
  BY <1>2, <1>4, <1>5, NamesAssumption DEF AgentSteps, RecIs
<1>8. PodsHaveVFs'
  BY <1>1, <1>2, VFsKept, PodsUnchanged
<1>9. MadeInv'
  BY <1>1, <1>2, <1>5 DEF MadeInv, MadeFor, RecIs
<1>10. FitInv'
  <2>1. \A m \in Nodes : Fits(m)' = Fits(m)
    BY <1>2 DEF Fits
  <2>2. Wanted' = Wanted
    BY <1>2 DEF Wanted
  <2> QED
    BY <1>1, <1>2, <1>3, <1>5, <2>1, <2>2 DEF FitInv, RecIs
<1> QED
  BY <1>6, <1>7, <1>8, <1>9, <1>10 DEF AgentInv

\* A request comes.
LEMMA AgentRequest == ASSUME AgentInv, RequeueFires \/ Resync PROVE AgentInv'
<1>1. /\ queue' = TRUE /\ later' \in BOOLEAN
      /\ UNCHANGED <<cr, owned, cap, podOf, rec, old, tmpl, missed, failed, edits, faults>>
  BY DEF RequeueFires, Resync, outside, bounds, AgentInv, AgentRecords
<1>2. AgentRecords' /\ AgentSteps'
  BY <1>1 DEF AgentInv, AgentRecords, AgentSteps
<1>3. PodsHaveVFs' /\ MadeInv'
  BY <1>1, VFsKept, MadeKept, PodsUnchanged DEF AgentInv
<1>4. FitInv'
  BY <1>1 DEF FitInv
<1> QED
  BY <1>2, <1>3, <1>4 DEF AgentInv

-----------------------------------------------------------------------------
(* The node agents: everybody else *)

\* The object is written: a request comes, and pods may lose their owner.
LEMMA AgentWritten == ASSUME AgentInv, NEW s \in Specs \cup {None}, WriteObject(s) PROVE AgentInv'
<1>1. AgentRecords /\ AgentSteps /\ PodsHaveVFs /\ MadeInv
  BY DEF AgentInv
<1>2. /\ cr' = s /\ queue' = TRUE /\ UNCHANGED <<cap, later, old, tmpl, missed>> /\ Edit
      /\ owned' = (owned /\ s # None)
  BY DEF WriteObject
<1>3. edits' \in Nat /\ UNCHANGED <<failed, faults>>
  BY <1>1, <1>2, EditIs
<1>4. cr' \in AgentSpec \cup {None} /\ owned' \in BOOLEAN
  <2>1. cr' \in AgentSpec \cup {None}
    BY <1>2, SpecsAssumption
  <2>2. owned' \in BOOLEAN
    BY <1>2
  <2> QED
    BY <2>1, <2>2
<1>5. podOf' \in [Nodes -> Pod \cup {None}] /\ \A m \in Nodes : SamePod(m)
  <2> DEFINE f == [n \in Nodes |-> IF podOf[n] # None /\ s = None
                                   THEN [podOf[n] EXCEPT !.orphan = TRUE] ELSE podOf[n]]
  <2>1. ASSUME NEW m \in Nodes, podOf[m] # None
        PROVE  /\ [podOf[m] EXCEPT !.orphan = TRUE] \in Pod
               /\ [podOf[m] EXCEPT !.orphan = TRUE].for = podOf[m].for
               /\ [podOf[m] EXCEPT !.orphan = TRUE].nad = podOf[m].nad
               /\ [podOf[m] EXCEPT !.orphan = TRUE].limits = podOf[m].limits
               /\ [podOf[m] EXCEPT !.orphan = TRUE].count = podOf[m].count
               /\ [podOf[m] EXCEPT !.orphan = TRUE].dying = podOf[m].dying
    <3>1. PICK q \in Pod : q = podOf[m]
      BY <1>1, <2>1 DEF AgentRecords
    <3> QED
      BY <3>1 DEF Pod
  <2>2. \A m \in Nodes : f[m] \in Pod \cup {None}
    BY <1>1, <2>1 DEF AgentRecords
  <2>3. podOf' = f
    BY DEF WriteObject
  <2>4. \A m \in Nodes : podOf'[m] = podOf[m] \/ (podOf[m] # None /\ podOf'[m] = [podOf[m] EXCEPT !.orphan = TRUE])
    BY <2>3
  <2>5. ASSUME NEW m \in Nodes PROVE SamePod(m)
    <3>1. CASE podOf'[m] = podOf[m]
      BY <3>1 DEF SamePod
    <3>2. CASE podOf[m] # None /\ podOf'[m] = [podOf[m] EXCEPT !.orphan = TRUE]
      <4>1. PICK v \in Pod : v = [podOf[m] EXCEPT !.orphan = TRUE]
        BY <2>1, <3>2
      <4>2. /\ v.for = podOf[m].for /\ v.nad = podOf[m].nad /\ v.limits = podOf[m].limits
            /\ v.count = podOf[m].count /\ v.dying = podOf[m].dying
        BY <2>1, <3>2, <4>1
      <4>3. podOf'[m] = v /\ v # None
        BY <3>2, <4>1, PodsAssumption
      <4> QED
        BY <3>2, <4>2, <4>3 DEF SamePod
    <3> QED
      BY <2>4, <3>1, <3>2
  <2> QED
    BY <2>2, <2>3, <2>5
<1>6. /\ rec' \in RecRecord /\ rec'.pc = rec.pc /\ rec'.cr = rec.cr /\ rec'.nodes = rec.nodes
      /\ rec'.deleted = rec.deleted
  <2>1. PICK r \in RecRecord : r = rec
    BY <1>1 DEF AgentRecords
  <2>2. PICK b \in BOOLEAN : b = (r.orphan \/ (rec # Idle /\ s = None))
    OBVIOUS
  <2>3. rec' = [r EXCEPT !.orphan = b]
    BY <2>1, <2>2 DEF WriteObject
  <2>4. /\ rec' \in RecRecord /\ rec'.pc = r.pc /\ rec'.cr = r.cr /\ rec'.nodes = r.nodes
        /\ rec'.deleted = r.deleted
    BY <2>3 DEF RecRecord
  <2> QED
    BY <2>1, <2>4
<1>7. AgentRecords' /\ AgentSteps'
  BY <1>1, <1>2, <1>3, <1>4, <1>5, <1>6 DEF AgentRecords, AgentSteps
<1>8. PodsHaveVFs' /\ MadeInv'
  BY <1>1, <1>2, <1>3, <1>5, <1>6, VFsKept, MadeKept
<1>9. FitInv'
  BY <1>2 DEF FitInv
<1> QED
  BY <1>7, <1>8, <1>9 DEF AgentInv

\* The VFs of a node change: a request comes, or nothing of interest changed, or
\* the change is missed.
LEMMA AgentNodeChanged == ASSUME AgentInv, NEW n \in Nodes, NEW c \in Capacities, ChangeNode(n, c) PROVE AgentInv'
<1>1. AgentRecords /\ AgentSteps /\ PodsHaveVFs /\ MadeInv /\ FitInv /\ c \in Capacity
  BY CapacitiesAssumption DEF AgentInv
<1>2. /\ Edit /\ cap[n] # None /\ c # None /\ cap' = [cap EXCEPT ![n] = c]
      /\ UNCHANGED <<cr, owned, podOf, later, rec, old, tmpl>>
  BY DEF ChangeNode
<1>3. edits' \in Nat /\ UNCHANGED <<failed, faults>>
  BY <1>1, <1>2, EditIs
<1>4. PICK counts \in BOOLEAN : counts <=> NodeUpdateCounts(n, c)
  BY DEF NodeUpdateCounts
<1>5. queue' \in BOOLEAN /\ (queue' <=> queue \/ (cr # None /\ counts))
  <2>1. queue' = (queue \/ (cr # None /\ NodeUpdateCounts(n, c))) /\ queue \in BOOLEAN
    BY <1>1 DEF ChangeNode, AgentRecords
  <2> QED
    BY <1>4, <2>1
<1>6. /\ missed' \in BOOLEAN
      /\ missed' <=> missed \/ (~counts /\ rec.pc = "nodes" /\ c[rec.cr.pool] # cap[n][rec.cr.pool])
  <2>1. /\ missed' = (missed \/
                (~NodeUpdateCounts(n, c) /\ rec.pc = "nodes" /\ c[rec.cr.pool] # cap[n][rec.cr.pool]))
        /\ missed \in BOOLEAN
    BY <1>1 DEF ChangeNode, AgentRecords
  <2> QED
    BY <1>4, <2>1
<1>7. /\ cap' \in [Nodes -> Capacity \cup {None}] /\ cap'[n] = c
      /\ \A m \in Nodes \ {n} : cap'[m] = cap[m]
  BY <1>1, <1>2 DEF AgentRecords
<1>8. AgentRecords' /\ AgentSteps'
  BY <1>1, <1>2, <1>3, <1>5, <1>6, <1>7 DEF AgentRecords, AgentSteps
<1>9. PodsHaveVFs' /\ MadeInv'
  <2>1. \A m \in Nodes : cap'[m] # None => cap[m] # None \/ podOf[m] = None
    BY <1>2, <1>7
  <2>2. ~failed' /\ ~missed' => ~failed /\ ~missed
    BY <1>3, <1>6
  <2> QED
    BY <1>1, <1>2, <2>1, <2>2, VFsKept, MadeKept, PodsUnchanged
<1>10. FitInv'
  <2>1. SUFFICES ASSUME ~failed', ~missed', ~queue', Wanted' PROVE
          /\ rec.pc = "idle" => /\ old.pool = cr.pool /\ old.nad = cr.nad
                                /\ \A m \in Nodes : cap'[m] # None => Fits(m)'
          /\ rec.pc # "idle" => rec.cr = cr
          /\ rec.pc = "nodes" =>
               \A m \in Nodes : cap'[m] # None =>
                 IF m \in DOMAIN rec.nodes THEN rec.nodes[m][cr.pool] = cap'[m][cr.pool]
                 ELSE rec.deleted \/ Fits(m)'
    BY <1>2 DEF FitInv
  <2>2. ~failed /\ ~missed /\ ~queue /\ Wanted /\ ~counts /\ cr # None
    BY <1>2, <1>3, <1>5, <1>6, <2>1 DEF Wanted
  <2>3. rec.pc \in {"idle", "nodes"} => c[cr.pool] = cap[n][cr.pool]
    <3>1. rec.pc = "idle" => old.pool = cr.pool /\ old.pool # None
      BY <1>1, <2>2, NamesAssumption DEF FitInv, AgentRecords, AgentSpec
    <3>2. rec.pc = "nodes" => rec.cr = cr /\ c[rec.cr.pool] = cap[n][rec.cr.pool]
      BY <1>1, <1>6, <2>1, <2>2 DEF FitInv
    <3> QED
      BY <1>4, <2>2, <3>1, <3>2 DEF NodeUpdateCounts
  <2>4. \A m \in Nodes : rec.pc \in {"idle", "nodes"} /\ cap'[m] # None =>
          cap[m] # None /\ cap'[m][cr.pool] = cap[m][cr.pool] /\ (Fits(m) => Fits(m)')
    BY <1>2, <1>7, <2>3 DEF Fits
  <2> QED
    BY <1>1, <2>2, <2>4 DEF FitInv
<1> QED
  BY <1>8, <1>9, <1>10 DEF AgentInv

\* A node comes or goes.
LEMMA AgentNodes ==
  ASSUME AgentInv, NEW n \in Nodes, RemoveNode(n) \/ \E c \in Capacities : AddNode(n, c)
  PROVE  AgentInv'
<1>1. AgentRecords /\ AgentSteps /\ PodsHaveVFs /\ MadeInv /\ FitInv
  BY DEF AgentInv
<1>2. Edit /\ UNCHANGED <<cr, owned, podOf, later, rec, old, tmpl>>
  BY DEF RemoveNode, AddNode, memory
<1>3. edits' \in Nat /\ UNCHANGED <<failed, faults>>
  BY <1>1, <1>2, EditIs
<1>4. CASE RemoveNode(n)
  <2>1. cap' = [cap EXCEPT ![n] = None] /\ queue' = queue /\ missed' = missed
    BY <1>4 DEF RemoveNode, memory
  <2>2. cap' \in [Nodes -> Capacity \cup {None}] /\ \A m \in Nodes : cap'[m] # None => cap'[m] = cap[m]
    BY <1>1, <2>1 DEF AgentRecords
  <2>3. AgentRecords' /\ AgentSteps'
    BY <1>1, <1>2, <1>3, <2>1, <2>2 DEF AgentRecords, AgentSteps
  <2>4. PodsHaveVFs' /\ MadeInv' /\ FitInv'
    BY <1>1, <1>2, <1>3, <2>1, <2>2, VFsKept, MadeKept, FitKept, PodsUnchanged
  <2> QED
    BY <2>3, <2>4 DEF AgentInv
<1>5. ASSUME NEW c \in Capacities, AddNode(n, c) PROVE AgentInv'
  <2>1. /\ cap' = [cap EXCEPT ![n] = c] /\ queue' = (queue \/ cr # None)
        /\ missed' = (missed \/ ComesBackOld(n)) /\ c \in Capacity
    BY <1>5, CapacitiesAssumption DEF AddNode
  <2>2. /\ cap' \in [Nodes -> Capacity \cup {None}] /\ missed' \in BOOLEAN
        /\ \A m \in Nodes : m # n => cap'[m] = cap[m]
    BY <1>1, <2>1 DEF AgentRecords, ComesBackOld
  <2>3. queue' \in BOOLEAN /\ (cr # None => queue')
    BY <1>1, <2>1 DEF AgentRecords
  <2>4. AgentRecords' /\ AgentSteps'
    BY <1>1, <1>2, <1>3, <2>2, <2>3 DEF AgentRecords, AgentSteps
  <2>5. PodsHaveVFs'
    BY <1>1, <1>2, VFsKept, PodsUnchanged
  <2>6. MadeInv'
    <3>1. podOf' = podOf /\ rec' = rec /\ old' = old /\ failed' = failed
      BY <1>2, <1>3
    <3> SUFFICES ASSUME ~failed, ~missed', NEW m \in Nodes, podOf[m] # None, ~podOf[m].dying
                 PROVE  IF rec.pc = "nodes" /\ m \notin DOMAIN rec.nodes
                          THEN cap'[m] # None => MadeFor(m, rec.cr.pool, rec.cr.nad)
                          ELSE old # NoOld /\ (cap'[m] # None \/ m \in DOMAIN rec.nodes)
                               => MadeFor(m, old.pool, old.nad)
      BY <3>1 DEF MadeInv, MadeFor
    <3>2. ~missed /\ ~ComesBackOld(n)
      BY <2>1
    <3>3. CASE m = n
      <4>1. rec.pc # "nodes" /\ MadeFor(n, old.pool, old.nad)
        BY <3>2, <3>3 DEF ComesBackOld, MadeFor
      <4> QED
        BY <3>3, <4>1
    <3>4. CASE m # n
      <4>1. cap'[m] = cap[m]
        BY <2>2, <3>4
      <4> QED
        BY <1>1, <3>2, <4>1 DEF MadeInv
    <3> QED
      BY <3>3, <3>4
  <2>7. FitInv'
    BY <1>2, <2>3 DEF FitInv, Wanted
  <2> QED
    BY <2>4, <2>5, <2>6, <2>7 DEF AgentInv
<1> QED
  BY <1>4, <1>5

\* A pod is on its way out, or gone.
LEMMA AgentPods ==
  ASSUME AgentInv, NEW n \in Nodes, KillPod(n) \/ CollectPod(n) \/ PodGone(n)
  PROVE  AgentInv'
<1>1. AgentRecords /\ AgentSteps /\ PodsHaveVFs /\ MadeInv /\ FitInv
  BY DEF AgentInv
<1>2. CASE KillPod(n) \/ CollectPod(n)
  <2>1. /\ podOf[n] # None /\ podOf' = [podOf EXCEPT ![n].dying = TRUE]
        /\ UNCHANGED <<cr, owned, cap, queue, later, rec, old, tmpl, missed>>
    BY <1>2 DEF KillPod, CollectPod, outside, memory, bounds
  <2>2. edits' \in Nat /\ UNCHANGED <<failed, faults>>
    BY <1>1, <1>2, EditIs DEF KillPod, CollectPod, bounds, AgentRecords
  <2>3. podOf' \in [Nodes -> Pod \cup {None}] /\ \A m \in Nodes : SamePod(m)
    BY <1>1, <2>1, DyingIs
  <2>4. AgentRecords' /\ AgentSteps'
    BY <1>1, <2>1, <2>2, <2>3 DEF AgentRecords, AgentSteps
  <2>5. PodsHaveVFs' /\ MadeInv' /\ FitInv'
    BY <1>1, <2>1, <2>2, <2>3, VFsKept, MadeKept, FitKept
  <2> QED
    BY <2>4, <2>5 DEF AgentInv
<1>3. CASE PodGone(n)
  <2>1. /\ podOf' = [podOf EXCEPT ![n] = None] /\ queue' = TRUE
        /\ UNCHANGED <<cr, owned, cap, later, rec, old, tmpl, missed, failed, edits, faults>>
    BY <1>3 DEF PodGone, outside, bounds
  <2>2. /\ podOf' \in [Nodes -> Pod \cup {None}] /\ podOf'[n] = None
        /\ \A m \in Nodes \ {n} : podOf'[m] = podOf[m]
    BY <1>1, <2>1 DEF AgentRecords
  <2>3. AgentRecords' /\ AgentSteps'
    BY <1>1, <2>1, <2>2 DEF AgentRecords, AgentSteps
  <2>4. PodsHaveVFs' /\ MadeInv'
    BY <1>1, <2>1, <2>2 DEF PodsHaveVFs, MadeInv, MadeFor
  <2>5. FitInv'
    BY <2>1 DEF FitInv
  <2> QED
    BY <2>3, <2>4, <2>5 DEF AgentInv
<1> QED
  BY <1>2, <1>3

\* A replica ends; if it led, the controller's memory is that of a new process.
LEMMA AgentStop == ASSUME AgentInv, NEW r \in Replicas, Stop(r) PROVE AgentInv'
<1>1. AgentRecords /\ AgentSteps /\ PodsHaveVFs /\ MadeInv /\ FitInv
  BY DEF AgentInv
<1>2. UNCHANGED <<cr, owned, cap, podOf, missed, failed, edits, faults>>
  BY DEF Stop, outside, bounds
<1>3. CASE leader = r
  <2>1. /\ queue' = (cr # None) /\ later' = FALSE /\ old' = NoOld /\ tmpl' = NoLimits
        /\ RecIs(rec', "idle", None, FALSE, <<>>, FALSE)
    BY <1>3, IdleIs DEF Stop
  <2>2. old' \in OldRecord /\ tmpl' \in Capacity /\ queue' \in BOOLEAN
    BY <2>1, VFsAssumption DEF NoOld, OldRecord, NoLimits, Capacity, Quantity
  <2>3. AgentRecords'
    BY <1>1, <1>2, <2>1, <2>2 DEF AgentRecords, RecIs
  <2>4. AgentSteps'
    BY <2>1 DEF AgentSteps, RecIs
  <2>5. PodsHaveVFs'
    BY <1>1, <1>2, VFsKept, PodsUnchanged
  <2>6. MadeInv'
    BY <2>1 DEF MadeInv, RecIs
  <2>7. FitInv'
    BY <1>2, <2>1 DEF FitInv, Wanted
  <2> QED
    BY <2>3, <2>4, <2>5, <2>6, <2>7 DEF AgentInv
<1>4. CASE leader # r
  <2>1. UNCHANGED <<queue, later, rec, old, tmpl>>
    BY <1>4 DEF Stop, memory
  <2>2. AgentRecords' /\ AgentSteps'
    BY <1>1, <1>2, <2>1 DEF AgentRecords, AgentSteps
  <2>3. PodsHaveVFs' /\ MadeInv' /\ FitInv'
    BY <1>1, <1>2, <2>1, VFsKept, MadeKept, FitKept, PodsUnchanged
  <2> QED
    BY <2>2, <2>3 DEF AgentInv
<1> QED
  BY <1>3, <1>4

\* A step of others.
LEMMA AgentStutters == ASSUME AgentInv, UNCHANGED agentVars PROVE AgentInv'
<1>1. UNCHANGED <<cr, owned, cap, podOf, queue, later, rec, old, tmpl, missed, failed, edits, faults>>
  BY DEF agentVars, outside, memory, bounds
<1>2. AgentRecords' /\ AgentSteps'
  BY <1>1 DEF AgentInv, AgentRecords, AgentSteps
<1>3. PodsHaveVFs' /\ MadeInv' /\ FitInv'
  BY <1>1, VFsKept, MadeKept, FitKept, PodsUnchanged DEF AgentInv
<1> QED
  BY <1>2, <1>3 DEF AgentInv

\* The invariant holds at first: there is no object and there are no pods.
LEMMA AgentInvInit == ASSUME OperatorInit PROVE AgentInv
<1>1. PICK b \in Starts : AgentInit(b.edits, b.faults)
  BY DEF OperatorInit
<1>2. b.edits \in Nat /\ b.faults \in Nat
  BY StartsAssumption
<1>3. /\ cr = None /\ owned = FALSE /\ cap \in InitNodes /\ podOf = [n \in Nodes |-> None]
      /\ queue = FALSE /\ later = FALSE /\ rec = Idle /\ old = NoOld /\ tmpl = NoLimits
      /\ missed = FALSE /\ failed = FALSE /\ edits \in Nat /\ faults \in Nat
  BY <1>1, <1>2 DEF AgentInit
<1>4. RecIs(rec, "idle", None, FALSE, <<>>, FALSE)
  BY <1>3, IdleIs
<1>5. cap \in [Nodes -> Capacity \cup {None}]
  BY <1>3, InitAssumption, CapacitiesAssumption
<1>6. old \in OldRecord /\ tmpl \in Capacity
  BY <1>3, VFsAssumption DEF NoOld, OldRecord, NoLimits, Capacity, Quantity
<1>7. podOf \in [Nodes -> Pod \cup {None}] /\ \A n \in Nodes : podOf[n] = None
  BY <1>3
<1>8. AgentRecords
  BY <1>3, <1>4, <1>5, <1>6, <1>7 DEF AgentRecords, RecIs
<1>9. AgentSteps
  BY <1>3, <1>4 DEF AgentSteps, RecIs
<1>10. PodsHaveVFs /\ MadeInv
  BY <1>7 DEF PodsHaveVFs, MadeInv
<1>11. FitInv
  BY <1>3 DEF FitInv, Wanted
<1> QED
  BY <1>8, <1>9, <1>10, <1>11 DEF AgentInv

\* Every step of the operator and of everybody else keeps it.
LEMMA AgentInvStep == ASSUME AgentInv, [OperatorNext]_operatorVars PROVE AgentInv'
<1>1. CASE UNCHANGED agentVars
  BY <1>1, AgentStutters
<1>2. ASSUME NEW r \in Replicas, Stop(r) PROVE AgentInv'
  BY <1>2, AgentStop
<1>3. CASE ReconcileStep
  BY <1>3, AgentGet, AgentList, AgentEnd, AgentRequest, AgentCreate, AgentKeep, AgentDelete
  DEF ReconcileStep
<1>4. CASE ReconcileTrouble
  BY <1>4, AgentReadFails, AgentLogged DEF ReconcileTrouble
<1>5. CASE Resync
  BY <1>5, AgentRequest
<1>6. CASE ClusterStep
  BY <1>6, AgentPods DEF ClusterStep
<1>7. CASE Users
  BY <1>7, AgentWritten, AgentNodeChanged, AgentNodes, AgentPods DEF Users
<1> QED
  BY <1>1, <1>2, <1>3, <1>4, <1>5, <1>6, <1>7
  DEF OperatorNext, operatorVars, DeployStep, TakeOver, Controller, ControllerTrouble, InformerResync,
      Kubernetes, DaemonSetPods, OthersWrite

-----------------------------------------------------------------------------
(* The node agents: the properties *)

\* With nothing failed and nothing missed, a controller at rest means that every
\* node has the pod that the object asks for, however the object, the nodes, the
\* pods and the leader changed in between.
THEOREM RestsCurrent == OperatorSpec => []RestMeansCurrent
<1>1. OperatorInit => AgentInv
  BY AgentInvInit
<1>2. AgentInv /\ [OperatorNext]_operatorVars => AgentInv'
  BY AgentInvStep
<1>3. AgentInv => RestMeansCurrent
  <2> SUFFICES ASSUME AgentInv PROVE RestMeansCurrent
    OBVIOUS
  <2>1. AgentRecords /\ AgentSteps /\ PodsHaveVFs /\ FitInv
    BY DEF AgentInv
  <2>2. /\ rec.pc \in {"idle", "list", "nodes"} /\ rec.cr \in AgentSpec \cup {None}
        /\ rec.nodes \in NodeLists
    BY <2>1 DEF AgentRecords, RecRecord
  <2>3. DOMAIN rec.nodes \subseteq Nodes /\ \A n \in DOMAIN rec.nodes : rec.nodes[n] \in Capacity
    BY <2>2, NodeListIs
  <2>4. AgentTypeOK
    BY <2>1, <2>2, <2>3 DEF AgentTypeOK, AgentRecords, OldRecord, PodsHaveVFs
  <2>5. ASSUME AtRest, NEW n \in There(cap)
        PROVE  ResourcesFit(n) /\ (podOf[n] # None => podOf[n].nad = cr.nad)
    <3>1. n \in Nodes /\ cap[n] # None /\ (podOf[n] # None => ~podOf[n].dying)
      BY <2>1, <2>5 DEF AtRest, There, AgentRecords
    <3>2. rec.pc = "idle"
      BY <2>5, IdleIs DEF AtRest, RecIs
    <3>3. Fits(n)
      BY <2>1, <2>5, <3>1, <3>2 DEF AtRest, FitInv
    <3> QED
      BY <3>1, <3>3 DEF Fits, ResourcesFit
  <2> QED
    BY <2>4, <2>5 DEF RestMeansCurrent
<1> QED
  BY <1>1, <1>2, <1>3, PTL DEF OperatorSpec

\* A pod that is deleted for a change of the object was made for what the last
\* Reconcile had read, one that is deleted for its VFs has not those of the node:
\* with nothing failed and nothing missed, no pod that fits is taken down.
THEOREM DeletesWithReason == OperatorSpec => NoNeedlessDeletion
<1>1. OperatorInit => AgentInv
  BY AgentInvInit
<1>2. AgentInv /\ [OperatorNext]_operatorVars => AgentInv'
  BY AgentInvStep
<1>3. AgentInv => (~failed /\ ~missed => \A n \in Nodes : DeletePod(n) /\ ~podOf[n].dying => ~MadeForThis(n))
  <2> SUFFICES ASSUME AgentInv, ~failed, ~missed, NEW n \in Nodes, DeletePod(n), ~podOf[n].dying
               PROVE  ~MadeForThis(n)
    OBVIOUS
  <2>1. rec.pc = "nodes" /\ n \in DOMAIN rec.nodes /\ podOf[n] # None /\ Outdated(n)
    BY DEF DeletePod
  <2>2. old # NoOld => podOf[n].for = old.pool /\ podOf[n].nad = old.nad
    BY <2>1 DEF AgentInv, MadeInv, MadeFor
  <2>3. CASE old.pool # rec.cr.pool \/ old.nad # rec.cr.nad
    <3>1. old # NoOld
      BY <2>1, <2>3 DEF Outdated, NoOld
    <3> QED
      BY <2>2, <2>3, <3>1 DEF MadeForThis
  <2>4. CASE ~(old.pool # rec.cr.pool \/ old.nad # rec.cr.nad)
    BY <2>1, <2>4 DEF Outdated, MadeForThis
  <2> QED
    BY <2>3, <2>4
<1> QED
  BY <1>1, <1>2, <1>3, PTL DEF OperatorSpec, NoNeedlessDeletion
===================================================================================
