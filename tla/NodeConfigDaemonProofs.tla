------------------------- MODULE NodeConfigDaemonProofs -------------------------
(***************************************************************************)
(* Theorems about NodeConfigDaemon: the daemons use DrainHelper as it is   *)
(* specified, so what is proved of the helper holds of them; and what they *)
(* do with the updates inside.                                             *)
(***************************************************************************)
EXTENDS NodeConfigDaemon, DrainHelperProofs

-----------------------------------------------------------------------------
(* The daemons are users of DrainHelper *)

\* What a step of Reconcile is for the helper.
LEMMA ReconcileIsHelperStep ==
  ASSUME NEW n \in Nodes, ReconcileStep(n)
  PROVE  [Next]_vars
<1>1. ASSUME NEW m \in Nodes, ReconcileNotFound(n, m) \/ ReconcileGet(n, m)
      PROVE  UNCHANGED vars
  BY <1>1 DEF ReconcileNotFound, ReconcileGet
<1>2. CASE \/ FinishFails(n) \/ Begin(n) \/ PrepareFails(n)
           \/ ConfigureNodeReturn(n) \/ ConfigureNodeRejected(n) \/ Report(n)
  <2>1. UNCHANGED vars
    BY <1>2 DEF FinishFails, Begin, PrepareFails, ConfigureNodeReturn,
                ConfigureNodeRejected, Report
  <2> QED
    BY <2>1
<1>3. CASE Finish(n)
  <2>1. Uncordon(n)
    BY <1>3 DEF Finish
  <2> QED
    BY <2>1 DEF Next
<1>4. CASE Prepare(n)
  <2>1. (~nc[n].skip) \in BOOLEAN
    OBVIOUS
  <2>2. RunStart(n, ~nc[n].skip) \/ RunRejected(n, ~nc[n].skip)
    BY <1>4 DEF Prepare
  <2>3. \E d \in BOOLEAN : RunStart(n, d) \/ RunRejected(n, d)
    BY <2>1, <2>2
  <2> QED
    BY <2>3 DEF Next
<1> QED
  BY <1>1, <1>2, <1>3, <1>4 DEF ReconcileStep

\* What a step of drainFunc is for the helper.
LEMMA FunctionIsHelperStep ==
  ASSUME NEW n \in Nodes, NEW s \in Slots, FunctionStep(n, s)
  PROVE  [Next]_vars
<1>1. ASSUME NEW d \in Devices, UpdateDevice(n, s, d) \/ UpdateDeviceFails(n, s, d)
      PROVE  UNCHANGED vars
  BY <1>1 DEF UpdateDevice, UpdateDeviceFails
<1>2. CASE MarkReboot(n, s)
  BY <1>2 DEF MarkReboot
<1>3. CASE UpdatesEnd(n, s) \/ rebootNode(n, s) \/ rebootNodeFails(n, s)
  <2>1. \E b \in BOOLEAN : WorkEnd(n, s, b)
    BY <1>3 DEF UpdatesEnd, rebootNode, rebootNodeFails
  <2> QED
    BY <2>1 DEF Next
<1> QED
  BY <1>1, <1>2, <1>3 DEF FunctionStep

\* What the rest of the system does is, for the helper, the end of a process or
\* nothing.
LEMMA EnvironmentIsHelperStep ==
  ASSUME NEW n \in Nodes, EnvironmentStep(n)
  PROVE  [Next]_vars
<1>1. CASE Reboot(n) \/ Crash(n)
  <2>1. ProcessEnd(n)
    BY <1>1 DEF Reboot, Crash, ProcessGone
  <2> QED
    BY <2>1 DEF Next
<1>2. ASSUME NEW m \in Nodes, RequeueFires(n, m)
      PROVE  UNCHANGED vars
  BY <1>2 DEF RequeueFires
<1>3. ASSUME NEW c \in Cfgs, NEW skip \in Skips, UpdateSpec(n, c, skip)
      PROVE  UNCHANGED vars
  BY <1>3 DEF UpdateSpec
<1>4. CASE Start(n) \/ Delete(n)
  <2>1. UNCHANGED vars
    BY <1>4 DEF Start, Delete
  <2> QED
    BY <2>1
<1> QED
  BY <1>1, <1>2, <1>3, <1>4 DEF EnvironmentStep

\* The daemons take only the steps DrainHelper allows its users.
THEOREM UsesHelper == DaemonSpec => Spec
<1>1. DaemonInit => Init
  BY DEF DaemonInit
<1>2. [DaemonNext]_daemonVars => [Next]_vars
  <2> SUFFICES ASSUME [DaemonNext]_daemonVars PROVE [Next]_vars
    OBVIOUS
  <2>1. CASE UNCHANGED daemonVars
    BY <2>1 DEF daemonVars
  <2>2. ASSUME NEW n \in Nodes, StartLeading(n)
        PROVE  [Next]_vars
    BY <2>2 DEF StartLeading, Next
  <2>3. ASSUME NEW n \in Nodes, HelperStep(n)
        PROVE  [Next]_vars
    <3>1. \/ ElectorStep(n) \/ FaultStep(n)
          \/ \E s \in Slots : WorkerStep(n, s)
      BY <2>3 DEF HelperStep
    <3> QED
      BY <3>1 DEF Next
  <2> QED
    BY <2>1, <2>2, <2>3, ReconcileIsHelperStep, FunctionIsHelperStep,
       EnvironmentIsHelperStep DEF DaemonNext
<1> QED
  BY <1>1, <1>2, PTL DEF DaemonSpec, Spec

-----------------------------------------------------------------------------
(* Flashing *)

\* hw is a function on the nodes, whatever its values.
HwFunction == hw = [n \in Nodes |-> hw[n]]

\* Only drainFunc writes to the devices, and only to those of its own node.
LEMMA OnlyWorkersFlash ==
  ASSUME HwFunction, [DaemonNext]_daemonVars
  PROVE  /\ HwFunction'
         /\ \A m \in Nodes : hw'[m] # hw[m] => \E s \in Slots : Active(m, s)
<1>1. ASSUME UNCHANGED hw
      PROVE  /\ HwFunction'
             /\ \A m \in Nodes : hw'[m] # hw[m] => \E s \in Slots : Active(m, s)
  BY <1>1 DEF HwFunction
<1>2. ASSUME NEW n \in Nodes, NEW s \in Slots, NEW d \in Devices,
             UpdateDevice(n, s, d) \/ UpdateDeviceFails(n, s, d)
      PROVE  /\ HwFunction'
             /\ \A m \in Nodes : hw'[m] # hw[m] => \E r \in Slots : Active(m, r)
  <2>1. Active(n, s)
    BY <1>2 DEF UpdateDevice, UpdateDeviceFails, Working, Active
  <2>2. \/ UNCHANGED hw
        \/ \E e : hw' = [hw EXCEPT ![n][d] = e]
        \/ \E v : hw' = [hw EXCEPT ![n][d].fw = v]
    <3>1. CASE UpdateDevice(n, s, d)
      BY <3>1, Zenon DEF UpdateDevice
    <3>2. CASE UpdateDeviceFails(n, s, d)
      <4>1. \/ UNCHANGED hw
            \/ hw' = [hw EXCEPT ![n][d].fw = IF act[n][s].nc.cfg[d].fw = None
                                               THEN @ ELSE act[n][s].nc.cfg[d].fw]
        BY <3>2, Zenon DEF UpdateDeviceFails
      <4> QED
        BY <4>1, Zenon
    <3> QED
      BY <1>2, <3>1, <3>2
  <2>3. HwFunction' /\ \A m \in Nodes : m # n => hw'[m] = hw[m]
    BY <2>2 DEF HwFunction
  <2> QED
    BY <2>1, <2>3
<1>3. ASSUME NEW n \in Nodes, ReconcileStep(n)
      PROVE  UNCHANGED hw
  BY <1>3 DEF ReconcileStep, ReconcileNotFound, ReconcileGet, Finish, FinishFails, Begin,
              PrepareFails, Prepare, ConfigureNodeReturn,
              ConfigureNodeRejected, Report
<1>4. ASSUME NEW n \in Nodes, NEW s \in Slots,
             \/ UpdatesEnd(n, s) \/ MarkReboot(n, s)
             \/ rebootNode(n, s) \/ rebootNodeFails(n, s)
      PROVE  UNCHANGED hw
  BY <1>4 DEF UpdatesEnd, MarkReboot, rebootNode, rebootNodeFails, daemonOnly
<1>5. ASSUME NEW n \in Nodes, StartLeading(n) \/ HelperStep(n)
      PROVE  UNCHANGED hw
  BY <1>5 DEF StartLeading, HelperStep, daemonOnly
<1>6. ASSUME NEW n \in Nodes, EnvironmentStep(n)
      PROVE  UNCHANGED hw
  BY <1>6 DEF EnvironmentStep, RequeueFires, Start, Reboot, Crash, UpdateSpec, Delete
<1>7. CASE UNCHANGED daemonVars
  BY <1>1, <1>7 DEF daemonVars, daemonOnly
<1> QED
  BY <1>1, <1>2, <1>3, <1>4, <1>5, <1>6, <1>7 DEF DaemonNext, FunctionStep

\* The devices of a node are written only while the node is the leader, or
\* after its lead was broken: with a release that works, lost leases, refused
\* electors and crashes, no two nodes are flashed at the same time otherwise.
THEOREM FlashedByLeader == DaemonSpec => FlashOnlyByLeader
<1>1. DaemonInit => HwFunction
  BY DEF DaemonInit, HwFunction
<1>2. HwFunction /\ [DaemonNext]_daemonVars => HwFunction'
  BY OnlyWorkersFlash
<1>3. HwFunction /\ DrainOnlyWhileLeader /\ [DaemonNext]_daemonVars
        => [\A n \in Nodes : hw'[n] # hw[n] => lease = n \/ n \in broken]_daemonVars
  BY OnlyWorkersFlash DEF DrainOnlyWhileLeader
<1>4. DaemonSpec => []DrainOnlyWhileLeader
  BY UsesHelper, LeaderOnly, PTL
<1> QED
  BY <1>1, <1>2, <1>3, <1>4, PTL DEF DaemonSpec, FlashOnlyByLeader

\* The daemons implement the maintenance windows.
THEOREM DaemonsImplementWindow == DaemonSpec => WindowSpec
BY UsesHelper, ImplementsWindow, PTL

-----------------------------------------------------------------------------
(***************************************************************************)
(* The updates: one that is not finished is taken up again, a node reboots *)
(* only out of service, and a condition Succeeded tells the truth.         *)
(*                                                                         *)
(* All three are about one node at a time: with its own requests only, a   *)
(* daemon touches nothing of another node but the lease.                   *)
(***************************************************************************)

ActRecord == [nc : Copy, todo : SUBSET Devices, reboot : BOOLEAN, err : BOOLEAN, marked : BOOLEAN]
RepRecord == [reason : Reasons \cup {None}, later : BOOLEAN]
PCs == {"off", "idle", "finish", "begin", "prepare", "run", "rejected", "report"}

\* There is no other daemon.
Alone == \A m, n \in Nodes : m = n

\* No worker outlives the Run that started it.
NoLeftover(n) == \A s \in Slots : Active(n, s) => run[n] = "renew" /\ cur[n] = s

\* The daemon of n has no request and no copy of another node's object.
Own(n) ==
  /\ queue[n] \subseteq {n} /\ later[n] \subseteq {n}
  /\ nc[n].m = n /\ \A s \in Slots : act[n][s].nc.m = n

\* Run is called by configureNode, and only by it.
RunInv(n) ==
  /\ run[n] # "idle" => pc[n] \in {"run", "rejected"}
  /\ pc[n] = "rejected" => run[n] \in {"mitigate", "idle"}
  /\ pc[n] = "run" /\ run[n] \in {"mitigate", "idle"} => runErr[n] = worker[n][cur[n]].err

-----------------------------------------------------------------------------
(* The invariants *)

Unfinished == {"InProgress", "Failed", "PostUpdateReboot"}

\* An update that ends with Failed comes back, and one that ends with a reboot
\* has ordered it.
PendingInv(n) ==
  /\ pc[n] = "report" => \/ rep[n].reason = "Failed" /\ rep[n].later
                         \/ rep[n].reason \in {"Succeeded", "NotRequested"}
  /\ \A s \in Slots :
       act[n][s].reboot /\ ~act[n][s].err /\ worker[n][s].pc # "work" => rebooting[n]
  /\ enc[n].exists /\ enc[n].reason \in Unfinished =>
       pc[n] # "idle" \/ n \in queue[n] \cup later[n] \/ rebooting[n]

\* What Reconcile and its worker know of drainSkip is what the object says; after
\* the reboot was ordered no worker is left and nobody starts one.
RebootInv(n) ==
  /\ ~enc[n].exists => enc[n].skip = FALSE
  /\ pc[n] \in {"begin", "prepare", "run"} => nc[n].skip = enc[n].skip
  /\ pc[n] = "run" /\ run[n] # "idle" => drain[n] = ~enc[n].skip
  /\ \A s \in Slots : Active(n, s) => worker[n][s].drain = ~enc[n].skip
  /\ rebooting[n] =>
       /\ \A s \in Slots : ~Active(n, s)
       /\ run[n] # "acquire" /\ pc[n] \in {"off", "idle", "run", "report"}
       /\ cordoned[n] \/ enc[n].skip

\* The copy says what the object says.
Current(c, n) == c.gen = enc[n].gen /\ c.cfg = enc[n].cfg

\* What the spec asks for is stored in and for the devices.
StoredAll(n) ==
  \A d \in Devices :
    /\ enc[n].cfg[d].fw # None => hw[n][d].fw = enc[n].cfg[d].fw
    /\ enc[n].cfg[d].ddp # None => hw[n][d].ddp = enc[n].cfg[d].ddp

\* Device d has what the spec asks for, and what does not run yet needs the reboot.
Done(n, d, reboot) ==
  /\ enc[n].cfg[d].fw # None =>
       hw[n][d].fw = enc[n].cfg[d].fw /\ (live[n][d].fw = enc[n].cfg[d].fw \/ reboot)
  /\ enc[n].cfg[d].ddp # None => hw[n][d].ddp = enc[n].cfg[d].ddp /\ reboot

\* Between the election and the end of configureNode: a device that is no longer in
\* the queue is done; drainFunc ends without error only when all are; the condition
\* says PostUpdateReboot when, and only when, everything is stored and the reboot is due.
WorkInv(n) ==
  LET a == act[n][cur[n]]
      w == worker[n][cur[n]]
  IN /\ Current(a.nc, n)
     /\ \A d \in Devices \ a.todo : Done(n, d, a.reboot)
     /\ w.pc \in {"ungetnode", "uncordon", "done"} /\ ~w.err /\ ~a.err => a.todo = {}
     /\ w.pc \in {"getnode", "cordon", "drain", "work"} => ~w.err
     /\ a.marked => a.todo = {} /\ a.reboot
     /\ a.marked <=> enc[n].reason = "PostUpdateReboot"
     /\ rebooting[n] => a.reboot /\ ~a.err /\ ~w.err

\* A Reconcile works on the current spec, and its place says what the condition
\* is; PostUpdateReboot means that everything is stored and lives after the
\* reboot; Succeeded, about to be written or written, tells the truth.
TruthInv(n) ==
  /\ ~enc[n].exists => enc[n].reason = None
  /\ enc[n].obs <= enc[n].gen
  /\ pc[n] \notin {"off", "idle"} => enc[n].exists /\ Current(nc[n], n)
  /\ pc[n] = "begin" => enc[n].reason # "PostUpdateReboot"
  /\ pc[n] \in {"prepare", "rejected"} => enc[n].reason = "InProgress"
  /\ pc[n] = "run" => enc[n].reason \in {"InProgress", "PostUpdateReboot"}
  /\ pc[n] = "run" /\ run[n] = "acquire" => enc[n].reason = "InProgress"
  /\ pc[n] = "run" /\ run[n] # "acquire" => WorkInv(n)
  /\ pc[n] = "finish" => enc[n].reason = "PostUpdateReboot"
  /\ rebooting[n] => pc[n] \in {"off", "idle", "run"} /\ enc[n].reason = "PostUpdateReboot"
  /\ enc[n].reason = "PostUpdateReboot" => StoredAll(n)
  /\ enc[n].reason = "PostUpdateReboot" /\ pc[n] \in {"off", "idle", "finish"} =>
       rebooting[n] \/ live[n] = hw[n]
  /\ pc[n] = "report" /\ rep[n].reason = "Succeeded" =>
       Applied(n) /\ (enc[n].reason = "PostUpdateReboot" => live[n] = hw[n])
  /\ enc[n].reason = "Succeeded" /\ enc[n].obs = enc[n].gen => Applied(n)

-----------------------------------------------------------------------------
(* Records *)

\* The empty records that the daemon starts from.
LEMMA EmptyRecords ==
  ASSUME NEW n \in Nodes
  PROVE  /\ NoCfg \in [Devices -> DeviceCfg]
         /\ NoCopy(n) \in Copy /\ NoCopy(n).m = n
         /\ NoAct(n) \in ActRecord /\ NoAct(n).nc.m = n /\ ~NoAct(n).reboot
         /\ NoRep \in RepRecord
         /\ \A b \in BOOLEAN : /\ EmptyObject(b) \in Object /\ EmptyObject(b).exists = b
                               /\ EmptyObject(b).gen = 1 /\ EmptyObject(b).obs = 0
                               /\ EmptyObject(b).reason = None /\ EmptyObject(b).skip = FALSE
<1>1. NoCfg \in [Devices -> DeviceCfg]
  BY DEF NoCfg, DeviceCfg
<1>2. NoCopy(n) \in Copy /\ NoCopy(n).m = n
  BY <1>1 DEF NoCopy, Copy
<1>3. NoAct(n) \in ActRecord /\ NoAct(n).nc.m = n /\ ~NoAct(n).reboot
  BY <1>2 DEF NoAct, ActRecord
<1>4. NoRep \in RepRecord
  BY DEF NoRep, RepRecord
<1>5. ASSUME NEW b \in BOOLEAN
      PROVE  /\ EmptyObject(b) \in Object /\ EmptyObject(b).exists = b
             /\ EmptyObject(b).gen = 1 /\ EmptyObject(b).obs = 0
             /\ EmptyObject(b).reason = None /\ EmptyObject(b).skip = FALSE
  BY <1>1 DEF EmptyObject, Object
<1> QED
  BY <1>1, <1>2, <1>3, <1>4, <1>5

\* DaemonTypeOK, in terms of these records.
DaemonRecords ==
  /\ TypeOK
  /\ enc \in [Nodes -> Object]
  /\ queue \in [Nodes -> SUBSET Nodes] /\ later \in [Nodes -> SUBSET Nodes]
  /\ pc \in [Nodes -> PCs]
  /\ nc \in [Nodes -> Copy]
  /\ rep \in [Nodes -> RepRecord]
  /\ act \in [Nodes -> [Slots -> ActRecord]]
  /\ hw \in [Nodes -> [Devices -> Stored]] /\ live \in [Nodes -> [Devices -> Stored]]
  /\ rebooting \in [Nodes -> BOOLEAN]
  /\ budget \in Nat

\* It is the same.
LEMMA RecordsAreTypes == DaemonRecords <=> DaemonTypeOK
BY DEF DaemonRecords, DaemonTypeOK, PCs, RepRecord, ActRecord

\* What a copy of the object says.
LEMMA ReadIs ==
  ASSUME DaemonRecords, NEW m \in Nodes
  PROVE  /\ Read(m) \in Copy /\ Read(m).m = m
         /\ Read(m).gen = enc[m].gen /\ Read(m).cfg = enc[m].cfg /\ Read(m).skip = enc[m].skip
<1>1. PICK o \in Object : o = enc[m]
  BY DEF DaemonRecords
<1> QED
  BY <1>1 DEF Read, Copy, Object

\* ... and one that is read again.
LEMMA RereadIs ==
  ASSUME DaemonRecords, NEW c \in Copy
  PROVE  /\ Reread(c) \in Copy /\ Reread(c).m = c.m
         /\ IF enc[c.m].exists
              THEN /\ Reread(c).gen = enc[c.m].gen /\ Reread(c).cfg = enc[c.m].cfg
                   /\ Reread(c).skip = enc[c.m].skip
              ELSE Reread(c) = c
<1>1. c.m \in Nodes
  BY DEF Copy
<1> QED
  BY <1>1, ReadIs DEF Reread

\* The spec of the object of m is left alone.
SpecKept(m) ==
  /\ enc'[m].exists = enc[m].exists /\ enc'[m].gen = enc[m].gen
  /\ enc'[m].cfg = enc[m].cfg /\ enc'[m].skip = enc[m].skip

\* The condition is written to the object, if there is one.
LEMMA ConditionIs ==
  ASSUME DaemonRecords, NEW c \in Copy, NEW r \in Reasons \cup {None}, updateCondition(c, r)
  PROVE  /\ enc' \in [Nodes -> Object]
         /\ \A m \in Nodes : m # c.m => enc'[m] = enc[m]
         /\ SpecKept(c.m)
         /\ IF enc[c.m].exists THEN enc'[c.m].reason = r /\ enc'[c.m].obs = c.gen
            ELSE enc'[c.m] = enc[c.m]
<1>1. c.m \in Nodes /\ c.gen \in Nat
  BY DEF Copy
<1>2. CASE enc[c.m].exists
  <2>1. PICK o \in Object : o = enc[c.m]
    BY <1>1 DEF DaemonRecords
  <2>2. PICK v \in Object : v = [o EXCEPT !.reason = r, !.obs = c.gen]
    BY <1>1 DEF Object
  <2>3. /\ v.exists = o.exists /\ v.gen = o.gen /\ v.cfg = o.cfg /\ v.skip = o.skip
        /\ v.reason = r /\ v.obs = c.gen
    BY <1>1, <2>2 DEF Object
  <2>4. enc' = [enc EXCEPT ![c.m] = v]
    BY <1>1, <1>2, <2>1, <2>2 DEF updateCondition, DaemonRecords
  <2> QED
    BY <1>1, <1>2, <2>1, <2>3, <2>4 DEF DaemonRecords, SpecKept
<1>3. CASE ~enc[c.m].exists
  BY <1>3 DEF updateCondition, DaemonRecords, SpecKept
<1> QED
  BY <1>2, <1>3

\* The object is created, if there is none.
LEMMA CreateIs ==
  ASSUME DaemonRecords, NEW n \in Nodes, CreateEmptyNodeConfigIfNeeded(n)
  PROVE  /\ enc' \in [Nodes -> Object]
         /\ \A m \in Nodes : m # n => enc'[m] = enc[m]
         /\ enc'[n] = IF enc[n].exists THEN enc[n] ELSE EmptyObject(TRUE)
BY EmptyRecords DEF CreateEmptyNodeConfigIfNeeded, DaemonRecords

\* Reconcile returns, or goes on to report.
LEMMA ReturnIs ==
  ASSUME DaemonRecords, NEW n \in Nodes, return(n)
  PROVE  /\ pc' \in [Nodes -> PCs] /\ nc' \in [Nodes -> Copy] /\ rep' \in [Nodes -> RepRecord]
         /\ pc'[n] = "idle" /\ nc'[n] = NoCopy(n)
         /\ \A m \in Nodes \ {n} : pc'[m] = pc[m] /\ nc'[m] = nc[m] /\ rep'[m] = rep[m]
BY EmptyRecords DEF DaemonRecords, return, goto, PCs

\* It goes on to report.
LEMMA ReportIs ==
  ASSUME DaemonRecords, NEW n \in Nodes, NEW r \in Reasons, NEW b \in BOOLEAN, report(n, r, b)
  PROVE  /\ pc' \in [Nodes -> PCs] /\ rep' \in [Nodes -> RepRecord]
         /\ pc'[n] = "report" /\ rep'[n].reason = r /\ rep'[n].later = b
         /\ \A m \in Nodes \ {n} : pc'[m] = pc[m] /\ rep'[m] = rep[m]
<1>1. PICK v \in RepRecord : v = [reason |-> r, later |-> b]
  BY DEF RepRecord
<1>2. v.reason = r /\ v.later = b
  BY <1>1
<1> QED
  BY <1>1, <1>2 DEF DaemonRecords, report, goto, PCs

\* It goes anywhere else.
LEMMA GotoIs ==
  ASSUME DaemonRecords, NEW n \in Nodes, NEW l \in PCs, goto(n, l)
  PROVE  pc' \in [Nodes -> PCs] /\ pc'[n] = l /\ \A m \in Nodes \ {n} : pc'[m] = pc[m]
BY DEF DaemonRecords, goto

\* A failure takes one from the budget.
LEMMA DaemonFaultIs == ASSUME DaemonRecords, NEW k, Fault(k) PROVE budget' \in Nat /\ k \in Faults
<1>1. budget \in Nat /\ budget > 0 /\ budget' = budget - 1 /\ k \in Faults
  BY DEF Fault, DaemonRecords
<1> QED
  BY <1>1

\* One entry of act is written.
LEMMA ActIs ==
  ASSUME DaemonRecords, NEW n \in Nodes, NEW s \in Slots, NEW v \in ActRecord,
         act' = [act EXCEPT ![n][s] = v]
  PROVE  /\ act' \in [Nodes -> [Slots -> ActRecord]] /\ act'[n][s] = v
         /\ \A r \in Slots : r # s => act'[n][r] = act[n][r]
         /\ \A m \in Nodes \ {n} : act'[m] = act[m]
BY DEF DaemonRecords

-----------------------------------------------------------------------------
(* Types *)

\* The steps of Reconcile keep the types.
LEMMA ReconcileTypes == ASSUME DaemonRecords, NEW n \in Nodes, ReconcileStep(n) PROVE DaemonRecords'
<1>0. TypeOK'
  BY ReconcileIsHelperStep, TypeStep DEF DaemonRecords
<1>1. ASSUME NEW m \in Nodes, ReconcileNotFound(n, m) PROVE DaemonRecords'
  <2>1. enc' \in [Nodes -> Object] /\ queue' \in [Nodes -> SUBSET Nodes]
    BY <1>1, CreateIs DEF ReconcileNotFound, DaemonRecords
  <2> QED
    BY <1>0, <1>1, <2>1 DEF ReconcileNotFound, DaemonRecords
<1>2. ASSUME NEW m \in Nodes, ReconcileGet(n, m) PROVE DaemonRecords'
  <2>1. nc' \in [Nodes -> Copy] /\ queue' \in [Nodes -> SUBSET Nodes]
    BY <1>2, ReadIs DEF ReconcileGet, Dequeue, DaemonRecords
  <2>2. \/ (goto(n, "finish") \/ goto(n, "begin")) /\ UNCHANGED rep
        \/ report(n, "NotRequested", FALSE)
    BY <1>2 DEF ReconcileGet
  <2>3. pc' \in [Nodes -> PCs] /\ rep' \in [Nodes -> RepRecord]
    BY <2>2, GotoIs, ReportIs DEF DaemonRecords, PCs, Reasons
  <2> QED
    BY <1>0, <1>2, <2>1, <2>3 DEF ReconcileGet, DaemonRecords
<1>3. CASE Finish(n)
  <2>1. report(n, "Succeeded", FALSE)
    BY <1>3 DEF Finish
  <2>2. pc' \in [Nodes -> PCs] /\ rep' \in [Nodes -> RepRecord]
    BY <2>1, ReportIs DEF Reasons
  <2> QED
    BY <1>0, <1>3, <2>2 DEF Finish, DaemonRecords
<1>4. CASE FinishFails(n)
  <2>1. budget' \in Nat /\ return(n)
    BY <1>4, DaemonFaultIs DEF FinishFails
  <2>2. pc' \in [Nodes -> PCs] /\ nc' \in [Nodes -> Copy] /\ rep' \in [Nodes -> RepRecord]
    BY <2>1, ReturnIs
  <2>3. nc[n].m \in Nodes
    BY DEF DaemonRecords, Copy
  <2>4. later' \in [Nodes -> SUBSET Nodes]
    BY <1>4, <2>3 DEF FinishFails, DaemonRecords
  <2> QED
    BY <1>0, <1>4, <2>1, <2>2, <2>4 DEF FinishFails, DaemonRecords
<1>5. CASE Begin(n)
  <2>1. nc[n] \in Copy /\ Reread(nc[n]) \in Copy
    BY RereadIs DEF DaemonRecords
  <2>2. nc' \in [Nodes -> Copy]
    BY <1>5, <2>1 DEF Begin, DaemonRecords
  <2>3. enc' \in [Nodes -> Object] /\ budget' \in Nat
    BY <1>5, <2>1, ConditionIs, DaemonFaultIs
    DEF Begin, updateConditionLost, NoFault, Reasons, DaemonRecords
  <2>4. pc' \in [Nodes -> PCs]
    BY <1>5, GotoIs DEF Begin, PCs
  <2> QED
    BY <1>0, <1>5, <2>2, <2>3, <2>4 DEF Begin, DaemonRecords
<1>6. CASE PrepareFails(n)
  <2>1. budget' \in Nat /\ report(n, "Failed", TRUE)
    BY <1>6, DaemonFaultIs DEF PrepareFails
  <2>2. pc' \in [Nodes -> PCs] /\ rep' \in [Nodes -> RepRecord]
    BY <2>1, ReportIs DEF Reasons
  <2> QED
    BY <1>0, <1>6, <2>1, <2>2 DEF PrepareFails, DaemonRecords
<1>7. CASE Prepare(n)
  <2>1. pc' \in [Nodes -> PCs]
    BY <1>7, GotoIs DEF Prepare, PCs
  <2> QED
    BY <1>0, <1>7, <2>1 DEF Prepare, DaemonRecords
<1>8. CASE ConfigureNodeReturn(n)
  <2>1. cur[n] \in Slots /\ act[n][cur[n]] \in ActRecord
    BY DEF DaemonRecords, TypeOK
  <2>2. act[n][cur[n]].nc \in Copy /\ act[n][cur[n]].err \in BOOLEAN
    BY <2>1 DEF ActRecord
  <2>3. (runErr[n] \/ act[n][cur[n]].err) \in BOOLEAN
    OBVIOUS
  <2>4. act' \in [Nodes -> [Slots -> ActRecord]]
    BY <1>8, <2>1, EmptyRecords DEF ConfigureNodeReturn, DaemonRecords
  <2>5. pc' \in [Nodes -> PCs] /\ rep' \in [Nodes -> RepRecord] /\ nc' \in [Nodes -> Copy]
    <3>1. CASE return(n)
      BY <3>1, ReturnIs
    <3>2. CASE /\ report(n, IF runErr[n] \/ act[n][cur[n]].err THEN "Failed" ELSE "Succeeded",
                           runErr[n] \/ act[n][cur[n]].err)
               /\ nc' = [nc EXCEPT ![n] = act[n][cur[n]].nc]
      <4>1. PICK r \in Reasons : r = IF runErr[n] \/ act[n][cur[n]].err THEN "Failed" ELSE "Succeeded"
        BY DEF Reasons
      <4>2. PICK b \in BOOLEAN : b = (runErr[n] \/ act[n][cur[n]].err)
        BY <2>3
      <4>3. report(n, r, b)
        BY <3>2, <4>1, <4>2
      <4>4. pc' \in [Nodes -> PCs] /\ rep' \in [Nodes -> RepRecord]
        BY <4>3, ReportIs
      <4> QED
        BY <2>2, <3>2, <4>4 DEF DaemonRecords
    <3> QED
      BY <1>8, <3>1, <3>2 DEF ConfigureNodeReturn
  <2> QED
    BY <1>0, <1>8, <2>4, <2>5 DEF ConfigureNodeReturn, DaemonRecords
<1>9. CASE ConfigureNodeRejected(n)
  <2>1. report(n, "Failed", TRUE)
    BY <1>9 DEF ConfigureNodeRejected
  <2>2. pc' \in [Nodes -> PCs] /\ rep' \in [Nodes -> RepRecord]
    BY <2>1, ReportIs DEF Reasons
  <2> QED
    BY <1>0, <1>9, <2>2 DEF ConfigureNodeRejected, DaemonRecords
<1>10. CASE Report(n)
  <2>1. nc[n] \in Copy /\ nc[n].m \in Nodes /\ rep[n].reason \in Reasons \cup {None}
    BY DEF DaemonRecords, Copy, RepRecord
  <2>2. enc' \in [Nodes -> Object] /\ budget' \in Nat
    BY <1>10, <2>1, ConditionIs, DaemonFaultIs DEF Report, updateConditionLost, NoFault, DaemonRecords
  <2>3. pc' \in [Nodes -> PCs] /\ nc' \in [Nodes -> Copy] /\ rep' \in [Nodes -> RepRecord]
    BY <1>10, ReturnIs DEF Report
  <2>4. later' \in [Nodes -> SUBSET Nodes]
    BY <1>10, <2>1 DEF Report, DaemonRecords
  <2> QED
    BY <1>0, <1>10, <2>2, <2>3, <2>4 DEF Report, DaemonRecords
<1> QED
  BY <1>1, <1>2, <1>3, <1>4, <1>5, <1>6, <1>7, <1>8, <1>9, <1>10 DEF ReconcileStep

-----------------------------------------------------------------------------
(* What drainFunc does *)

\* The entry of act for worker s of n: all but todo, reboot, err and marked stays.
ActSteps(n, s, todo, reboot, err, marked) ==
  /\ act' \in [Nodes -> [Slots -> ActRecord]]
  /\ act'[n][s].todo = todo /\ act'[n][s].reboot = reboot /\ act'[n][s].err = err
  /\ act'[n][s].marked = marked
  /\ \A r \in Slots : r # s => act'[n][r] = act[n][r]
  /\ \A m \in Nodes \ {n} : act'[m] = act[m]

\* The fields of an entry of act.
LEMMA ActFields ==
  ASSUME NEW a \in ActRecord
  PROVE  /\ a.nc \in Copy /\ a.todo \in SUBSET Devices /\ a.reboot \in BOOLEAN
         /\ a.err \in BOOLEAN /\ a.marked \in BOOLEAN
         /\ \A d \in Devices : a.nc.cfg[d] \in DeviceCfg
<1>1. /\ a.nc \in Copy /\ a.todo \in SUBSET Devices /\ a.reboot \in BOOLEAN
      /\ a.err \in BOOLEAN /\ a.marked \in BOOLEAN
  BY DEF ActRecord
<1>2. a.nc.cfg \in [Devices -> DeviceCfg]
  BY <1>1 DEF Copy
<1> QED
  BY <1>1, <1>2

\* One device is updated: what the copy asks for is stored in it, and runs in it
\* or needs a reboot.
LEMMA UpdateDeviceIs ==
  ASSUME DaemonRecords, NEW n \in Nodes, NEW s \in Slots, NEW d \in Devices, UpdateDevice(n, s, d)
  PROVE  LET want == act[n][s].nc.cfg[d]
         IN /\ worker[n][s].pc = "work" /\ ~act[n][s].err /\ d \in act[n][s].todo
            /\ \E b \in BOOLEAN :
                 /\ ActSteps(n, s, act[n][s].todo \ {d}, b, act[n][s].err, act[n][s].marked)
                 /\ act[n][s].reboot \/ want.ddp # None => b
                 /\ want.fw # None => live'[n][d].fw = want.fw \/ b
            /\ act'[n][s].nc = act[n][s].nc
            /\ hw' \in [Nodes -> [Devices -> Stored]] /\ live' \in [Nodes -> [Devices -> Stored]]
            /\ want.fw # None => hw'[n][d].fw = want.fw
            /\ want.ddp # None => hw'[n][d].ddp = want.ddp
            /\ \A e \in Devices \ {d} : hw'[n][e] = hw[n][e] /\ live'[n][e] = live[n][e]
            /\ \A m \in Nodes \ {n} : hw'[m] = hw[m] /\ live'[m] = live[m]
            /\ UNCHANGED <<vars, enc, queue, later, pc, nc, rep, rebooting, budget>>
<1> DEFINE want == act[n][s].nc.cfg[d]
           fw == IF want.fw = None THEN hw[n][d].fw ELSE want.fw
           ddp == IF want.ddp = None THEN hw[n][d].ddp ELSE want.ddp
<1>1. PICK a \in ActRecord : a = act[n][s]
  BY DEF DaemonRecords
<1>2. want \in DeviceCfg
  BY <1>1, ActFields
<1>3. hw[n][d] \in Stored /\ live[n][d] \in Stored
  BY DEF DaemonRecords
<1>4. fw \in Versions /\ ddp \in Versions
  BY <1>2, <1>3 DEF DeviceCfg, Stored
<1>5. /\ worker[n][s].pc = "work" /\ ~act[n][s].err /\ d \in act[n][s].todo
      /\ hw' = [hw EXCEPT ![n][d] = [fw |-> fw, ddp |-> ddp]]
      /\ UNCHANGED <<vars, enc, queue, later, pc, nc, rep, rebooting, budget>>
  BY DEF UpdateDevice, Working
<1>6. PICK res \in FWResult :
        LET fwReboot == want.fw # None /\ handleFWUpdate(res)
        IN /\ act' = [act EXCEPT ![n][s].todo = @ \ {d}, ![n][s].reboot = @ \/ fwReboot \/ want.ddp # None]
           /\ live' = [live EXCEPT ![n][d].fw = IF want.fw # None /\ ~fwReboot THEN fw ELSE @]
  BY DEF UpdateDevice
<1>7. PICK b \in BOOLEAN : b = (a.reboot \/ (want.fw # None /\ handleFWUpdate(res)) \/ want.ddp # None)
  OBVIOUS
<1>8. PICK v \in ActRecord : v = [a EXCEPT !.todo = a.todo \ {d}, !.reboot = b]
  <2>1. a.todo \ {d} \in SUBSET Devices
    BY ActFields
  <2> QED
    BY <2>1 DEF ActRecord
<1>9. v.todo = a.todo \ {d} /\ v.reboot = b /\ v.err = a.err /\ v.marked = a.marked /\ v.nc = a.nc
  BY <1>8 DEF ActRecord
<1>10. act' = [act EXCEPT ![n][s] = v]
  BY <1>1, <1>6, <1>7, <1>8 DEF DaemonRecords
<1>11. ActSteps(n, s, a.todo \ {d}, b, a.err, a.marked) /\ act'[n][s].nc = a.nc
  BY <1>9, <1>10, ActIs DEF ActSteps
<1>12. PICK h \in Stored : h = [fw |-> fw, ddp |-> ddp]
  BY <1>4 DEF Stored
<1>13. h.fw = fw /\ h.ddp = ddp
  BY <1>12
<1>14. hw' = [hw EXCEPT ![n][d] = h]
  BY <1>5, <1>12
<1>15. /\ hw' \in [Nodes -> [Devices -> Stored]] /\ hw'[n][d] = h
       /\ \A e \in Devices \ {d} : hw'[n][e] = hw[n][e]
       /\ \A m \in Nodes \ {n} : hw'[m] = hw[m]
  BY <1>14 DEF DaemonRecords
<1>16. PICK l \in Stored : l = live[n][d]
  BY <1>3
<1>17. PICK x \in Versions : x = IF want.fw # None /\ ~(want.fw # None /\ handleFWUpdate(res)) THEN fw ELSE l.fw
  BY <1>4 DEF Stored
<1>18. PICK k \in Stored : k = [l EXCEPT !.fw = x]
  BY DEF Stored
<1>19. k.fw = x
  BY <1>18 DEF Stored
<1>20. live' = [live EXCEPT ![n][d] = k]
  BY <1>6, <1>16, <1>17, <1>18 DEF DaemonRecords
<1>21. /\ live' \in [Nodes -> [Devices -> Stored]] /\ live'[n][d] = k
       /\ \A e \in Devices \ {d} : live'[n][e] = live[n][e]
       /\ \A m \in Nodes \ {n} : live'[m] = live[m]
  BY <1>20 DEF DaemonRecords
<1>22. want.fw # None => live'[n][d].fw = want.fw \/ b
  BY <1>7, <1>17, <1>19, <1>21
<1>23. a.reboot \/ want.ddp # None => b
  BY <1>7
<1> QED
  BY <1>1, <1>5, <1>11, <1>13, <1>15, <1>21, <1>22, <1>23

\* An update fails.
LEMMA UpdateFailsIs ==
  ASSUME DaemonRecords, NEW n \in Nodes, NEW s \in Slots, NEW d \in Devices, UpdateDeviceFails(n, s, d)
  PROVE  /\ worker[n][s].pc = "work" /\ ~act[n][s].err
         /\ ActSteps(n, s, act[n][s].todo, act[n][s].reboot, TRUE, act[n][s].marked)
         /\ act'[n][s].nc = act[n][s].nc /\ d \in act[n][s].todo
         /\ hw' \in [Nodes -> [Devices -> Stored]]
         /\ \A e \in Devices \ {d} : hw'[n][e] = hw[n][e]
         /\ \A m \in Nodes \ {n} : hw'[m] = hw[m]
         /\ UNCHANGED <<vars, enc, queue, later, pc, nc, rep, live, rebooting>> /\ budget' \in Nat
<1>1. PICK a \in ActRecord : a = act[n][s]
  BY DEF DaemonRecords
<1>2. PICK v \in ActRecord : v = [a EXCEPT !.err = TRUE]
  BY DEF ActRecord
<1>3. v.todo = a.todo /\ v.reboot = a.reboot /\ v.err = TRUE /\ v.marked = a.marked /\ v.nc = a.nc
  BY <1>2 DEF ActRecord
<1>4. act' = [act EXCEPT ![n][s] = v]
  BY <1>1, <1>2 DEF UpdateDeviceFails, DaemonRecords
<1>5. /\ ActSteps(n, s, act[n][s].todo, act[n][s].reboot, TRUE, act[n][s].marked)
      /\ act'[n][s].nc = act[n][s].nc
  BY <1>1, <1>3, <1>4, ActIs DEF ActSteps
<1>6. act[n][s].nc.cfg[d] \in DeviceCfg
  BY <1>1, ActFields
<1>7. PICK h \in Stored : h = hw[n][d]
  BY DEF DaemonRecords
<1>8. ASSUME hw' = [hw EXCEPT ![n][d].fw = IF act[n][s].nc.cfg[d].fw = None THEN @ ELSE act[n][s].nc.cfg[d].fw]
      PROVE  \E k \in Stored : hw' = [hw EXCEPT ![n][d] = k]
  <2>1. PICK x \in Versions : x = IF act[n][s].nc.cfg[d].fw = None THEN h.fw ELSE act[n][s].nc.cfg[d].fw
    BY <1>6 DEF DeviceCfg, Stored
  <2>2. PICK k \in Stored : k = [h EXCEPT !.fw = x]
    BY DEF Stored
  <2>3. hw' = [hw EXCEPT ![n][d] = k]
    BY <1>7, <1>8, <2>1, <2>2 DEF DaemonRecords
  <2> QED
    BY <2>3
<1>9. UNCHANGED hw \/ \E k \in Stored : hw' = [hw EXCEPT ![n][d] = k]
  BY <1>8 DEF UpdateDeviceFails
<1>10. /\ hw' \in [Nodes -> [Devices -> Stored]]
       /\ \A e \in Devices \ {d} : hw'[n][e] = hw[n][e]
       /\ \A m \in Nodes \ {n} : hw'[m] = hw[m]
  <2>1. CASE UNCHANGED hw
    BY <2>1 DEF DaemonRecords
  <2>2. ASSUME NEW k \in Stored, hw' = [hw EXCEPT ![n][d] = k]
        PROVE  /\ hw' \in [Nodes -> [Devices -> Stored]]
               /\ \A e \in Devices \ {d} : hw'[n][e] = hw[n][e]
               /\ \A m \in Nodes \ {n} : hw'[m] = hw[m]
    BY <2>2 DEF DaemonRecords
  <2> QED
    BY <1>9, <2>1, <2>2
<1>11. /\ worker[n][s].pc = "work" /\ ~act[n][s].err /\ d \in act[n][s].todo
       /\ UNCHANGED <<vars, enc, queue, later, pc, nc, rep, live, rebooting>> /\ Fault("update")
  BY DEF UpdateDeviceFails, Working
<1> QED
  BY <1>5, <1>10, <1>11, DaemonFaultIs

\* The condition PostUpdateReboot is written, or lost.
LEMMA MarkRebootIs ==
  ASSUME DaemonRecords, NEW n \in Nodes, NEW s \in Slots, MarkReboot(n, s)
  PROVE  /\ worker[n][s].pc = "work" /\ ~act[n][s].err /\ ~act[n][s].marked
         /\ act[n][s].todo = {} /\ act[n][s].reboot
         /\ ActSteps(n, s, act[n][s].todo, act[n][s].reboot, act[n][s].err, TRUE)
         /\ act'[n][s].nc \in {act[n][s].nc, Reread(act[n][s].nc)}
         /\ \/ /\ updateCondition(act[n][s].nc, "PostUpdateReboot")
               /\ act'[n][s].nc = Reread(act[n][s].nc)
            \/ UNCHANGED enc /\ "status" \in Faults
         /\ enc' \in [Nodes -> Object] /\ budget' \in Nat
         /\ UNCHANGED <<vars, queue, later, pc, nc, rep, hw, live, rebooting>>
<1>1. PICK a \in ActRecord : a = act[n][s]
  BY DEF DaemonRecords
<1>2. a.nc \in Copy /\ Reread(a.nc) \in Copy
  BY ActFields, RereadIs
<1>3. ASSUME NEW c \in Copy, act' = [act EXCEPT ![n][s].marked = TRUE, ![n][s].nc = c]
      PROVE  ActSteps(n, s, act[n][s].todo, act[n][s].reboot, act[n][s].err, TRUE) /\ act'[n][s].nc = c
  <2>1. PICK v \in ActRecord : v = [a EXCEPT !.marked = TRUE, !.nc = c]
    BY DEF ActRecord
  <2>2. v.todo = a.todo /\ v.reboot = a.reboot /\ v.err = a.err /\ v.marked = TRUE /\ v.nc = c
    BY <2>1 DEF ActRecord
  <2>3. act' = [act EXCEPT ![n][s] = v]
    BY <1>1, <1>3, <2>1 DEF DaemonRecords
  <2> QED
    BY <1>1, <2>2, <2>3, ActIs DEF ActSteps
<1>4. /\ worker[n][s].pc = "work" /\ ~act[n][s].err /\ ~act[n][s].marked
      /\ act[n][s].todo = {} /\ act[n][s].reboot
      /\ UNCHANGED <<vars, queue, later, pc, nc, rep, hw, live, rebooting>>
  BY DEF MarkReboot, Working
<1>5. CASE /\ updateCondition(act[n][s].nc, "PostUpdateReboot") /\ NoFault
           /\ act' = [act EXCEPT ![n][s].marked = TRUE, ![n][s].nc = Reread(@)]
  <2>1. act' = [act EXCEPT ![n][s].marked = TRUE, ![n][s].nc = Reread(a.nc)]
    BY <1>1, <1>5 DEF DaemonRecords
  <2>2. /\ ActSteps(n, s, act[n][s].todo, act[n][s].reboot, act[n][s].err, TRUE)
        /\ act'[n][s].nc = Reread(a.nc)
    BY <1>2, <1>3, <2>1
  <2>3. enc' \in [Nodes -> Object] /\ budget' \in Nat
    BY <1>1, <1>2, <1>5, ConditionIs DEF NoFault, Reasons, DaemonRecords
  <2> QED
    BY <1>1, <1>4, <1>5, <2>2, <2>3
<1>6. CASE /\ updateConditionLost
           /\ \E c \in {act[n][s].nc, Reread(act[n][s].nc)} :
                act' = [act EXCEPT ![n][s].marked = TRUE, ![n][s].nc = c]
  <2>1. UNCHANGED enc /\ "status" \in Faults /\ budget' \in Nat
    BY <1>6, DaemonFaultIs DEF updateConditionLost
  <2>2. PICK c \in {act[n][s].nc, Reread(act[n][s].nc)} :
          act' = [act EXCEPT ![n][s].marked = TRUE, ![n][s].nc = c]
    BY <1>6
  <2>3. ActSteps(n, s, act[n][s].todo, act[n][s].reboot, act[n][s].err, TRUE) /\ act'[n][s].nc = c
    BY <1>1, <1>2, <1>3, <2>2
  <2> QED
    BY <1>4, <2>1, <2>3 DEF DaemonRecords
<1> QED
  BY <1>5, <1>6 DEF MarkReboot

\* The reboot cannot be ordered.
LEMMA RebootFailsIs ==
  ASSUME DaemonRecords, NEW n \in Nodes, NEW s \in Slots, rebootNodeFails(n, s)
  PROVE  /\ worker[n][s].pc = "work" /\ ~act[n][s].err /\ act[n][s].marked
         /\ ActSteps(n, s, act[n][s].todo, act[n][s].reboot, TRUE, act[n][s].marked)
         /\ act'[n][s].nc = act[n][s].nc
         /\ WorkEnd(n, s, FALSE) /\ budget' \in Nat
         /\ UNCHANGED <<enc, queue, later, pc, nc, rep, hw, live, rebooting>>
<1>1. PICK a \in ActRecord : a = act[n][s]
  BY DEF DaemonRecords
<1>2. PICK v \in ActRecord : v = [a EXCEPT !.err = TRUE]
  BY DEF ActRecord
<1>3. v.todo = a.todo /\ v.reboot = a.reboot /\ v.err = TRUE /\ v.marked = a.marked /\ v.nc = a.nc
  BY <1>2 DEF ActRecord
<1>4. act' = [act EXCEPT ![n][s] = v]
  BY <1>1, <1>2 DEF rebootNodeFails, DaemonRecords
<1>5. /\ ActSteps(n, s, act[n][s].todo, act[n][s].reboot, TRUE, act[n][s].marked)
      /\ act'[n][s].nc = act[n][s].nc
  BY <1>1, <1>3, <1>4, ActIs DEF ActSteps
<1> QED
  BY <1>5, DaemonFaultIs DEF rebootNodeFails, Working

\* The worker starts with the copy that Reconcile has.
LEMMA StartLeadingIs ==
  ASSUME DaemonRecords, NEW n \in Nodes, StartLeading(n)
  PROVE  /\ Acquire(n)
         /\ UNCHANGED <<enc, queue, later, pc, nc, rep, hw, live, rebooting, budget>>
         /\ cur'[n] \in Slots
         /\ ActSteps(n, cur'[n], {d \in Devices : nc[n].cfg[d].fw # None \/ nc[n].cfg[d].ddp # None},
                     FALSE, FALSE, FALSE)
         /\ act'[n][cur'[n]].nc = nc[n]
<1>1. /\ Acquire(n)
      /\ UNCHANGED <<enc, queue, later, pc, nc, rep, hw, live, rebooting, budget>>
  BY DEF StartLeading
<1>2. Next
  BY <1>1 DEF Next
<1>3. TypeOK'
  BY <1>2, TypeStep DEF DaemonRecords
<1>4. PICK s \in Slots : s = cur'[n]
  BY <1>3 DEF TypeOK
<1>5. PICK todo \in SUBSET Devices :
        todo = {d \in Devices : nc[n].cfg[d].fw # None \/ nc[n].cfg[d].ddp # None}
  OBVIOUS
<1>6. nc[n] \in Copy
  BY DEF DaemonRecords
<1>7. PICK v \in ActRecord :
        v = [nc |-> nc[n], reboot |-> FALSE, err |-> FALSE, marked |-> FALSE, todo |-> todo]
  BY <1>6 DEF ActRecord
<1>8. v.nc = nc[n] /\ v.reboot = FALSE /\ v.err = FALSE /\ v.marked = FALSE /\ v.todo = todo
  BY <1>7
<1>9. act' = [act EXCEPT ![n][s] = v]
  BY <1>4, <1>5, <1>7 DEF StartLeading
<1>10. ActSteps(n, s, todo, FALSE, FALSE, FALSE) /\ act'[n][s].nc = nc[n]
  BY <1>8, <1>9, ActIs DEF ActSteps
<1> QED
  BY <1>1, <1>4, <1>5, <1>10

\* The process ends, and what it had in memory is gone.
LEMMA ProcessGoneIs ==
  ASSUME DaemonRecords, NEW n \in Nodes, ProcessGone(n)
  PROVE  /\ pc' \in [Nodes -> PCs] /\ queue' \in [Nodes -> SUBSET Nodes] /\ later' \in [Nodes -> SUBSET Nodes]
         /\ nc' \in [Nodes -> Copy] /\ rep' \in [Nodes -> RepRecord]
         /\ act' \in [Nodes -> [Slots -> ActRecord]]
         /\ pc'[n] = "off" /\ queue'[n] = {} /\ later'[n] = {} /\ nc'[n] = NoCopy(n)
         /\ \A s \in Slots : act'[n][s] = NoAct(n)
         /\ \A m \in Nodes \ {n} : /\ pc'[m] = pc[m] /\ queue'[m] = queue[m] /\ later'[m] = later[m]
                                   /\ nc'[m] = nc[m] /\ rep'[m] = rep[m] /\ act'[m] = act[m]
         /\ ProcessEnd(n)
<1>1. PICK v \in [Slots -> ActRecord] : v = [s \in Slots |-> NoAct(n)]
  BY EmptyRecords
<1>2. /\ act' \in [Nodes -> [Slots -> ActRecord]] /\ \A s \in Slots : act'[n][s] = NoAct(n)
      /\ \A m \in Nodes \ {n} : act'[m] = act[m]
  BY <1>1 DEF ProcessGone, DaemonRecords
<1>3. /\ pc' \in [Nodes -> PCs] /\ queue' \in [Nodes -> SUBSET Nodes] /\ later' \in [Nodes -> SUBSET Nodes]
      /\ nc' \in [Nodes -> Copy] /\ rep' \in [Nodes -> RepRecord]
  BY EmptyRecords DEF ProcessGone, goto, DaemonRecords, PCs
<1>4. /\ pc'[n] = "off" /\ queue'[n] = {} /\ later'[n] = {} /\ nc'[n] = NoCopy(n)
      /\ \A m \in Nodes \ {n} : /\ pc'[m] = pc[m] /\ queue'[m] = queue[m] /\ later'[m] = later[m]
                                /\ nc'[m] = nc[m] /\ rep'[m] = rep[m]
  BY DEF ProcessGone, goto, DaemonRecords
<1> QED
  BY <1>2, <1>3, <1>4 DEF ProcessGone

\* The spec is written.
LEMMA UpdateSpecIs ==
  ASSUME DaemonRecords, NEW n \in Nodes, NEW c \in Cfgs, NEW skip \in Skips, UpdateSpec(n, c, skip)
  PROVE  /\ enc' \in [Nodes -> Object]
         /\ enc'[n].exists /\ enc'[n].gen = enc[n].gen + 1 /\ enc'[n].reason = enc[n].reason
         /\ enc'[n].obs = enc[n].obs
         /\ \A m \in Nodes \ {n} : enc'[m] = enc[m] /\ queue'[m] = queue[m]
         /\ queue' \in [Nodes -> SUBSET Nodes] /\ queue'[n] \in {queue[n], queue[n] \cup {n}}
<1>1. c \in [Devices -> DeviceCfg] /\ skip \in BOOLEAN /\ enc[n].exists
  BY CfgsAssumption, SkipsAssumption DEF UpdateSpec
<1>2. PICK o \in Object : o = enc[n]
  BY DEF DaemonRecords
<1>3. o.gen + 1 \in Nat
  BY DEF Object
<1>4. PICK v \in Object : v = [o EXCEPT !.cfg = c, !.skip = skip, !.gen = o.gen + 1]
  BY <1>1, <1>3 DEF Object
<1>5. v.exists = o.exists /\ v.gen = o.gen + 1 /\ v.reason = o.reason /\ v.obs = o.obs
  BY <1>4 DEF Object
<1>6. enc' = [enc EXCEPT ![n] = v]
  BY <1>2, <1>4 DEF UpdateSpec, DaemonRecords
<1>7. /\ enc' \in [Nodes -> Object] /\ enc'[n] = v
      /\ \A m \in Nodes \ {n} : enc'[m] = enc[m]
  BY <1>6 DEF DaemonRecords
<1>8. /\ \A m \in Nodes \ {n} : queue'[m] = queue[m]
      /\ queue' \in [Nodes -> SUBSET Nodes] /\ queue'[n] \in {queue[n], queue[n] \cup {n}}
  BY DEF UpdateSpec, DaemonRecords
<1> QED
  BY <1>1, <1>2, <1>5, <1>7, <1>8

-----------------------------------------------------------------------------
(* Types: all other steps *)

\* The steps of drainFunc keep the types.
LEMMA FunctionTypes ==
  ASSUME DaemonRecords, NEW n \in Nodes, NEW s \in Slots, FunctionStep(n, s)
  PROVE  DaemonRecords'
<1>0. TypeOK'
  BY FunctionIsHelperStep, TypeStep DEF DaemonRecords
<1>1. ASSUME NEW d \in Devices, UpdateDevice(n, s, d) PROVE DaemonRecords'
  <2>1. act' \in [Nodes -> [Slots -> ActRecord]]
    BY <1>1, UpdateDeviceIs DEF ActSteps
  <2>2. /\ hw' \in [Nodes -> [Devices -> Stored]] /\ live' \in [Nodes -> [Devices -> Stored]]
        /\ UNCHANGED <<enc, queue, later, pc, nc, rep, rebooting, budget>>
    BY <1>1, UpdateDeviceIs
  <2> QED
    BY <1>0, <2>1, <2>2 DEF DaemonRecords
<1>2. ASSUME NEW d \in Devices, UpdateDeviceFails(n, s, d) PROVE DaemonRecords'
  <2>1. act' \in [Nodes -> [Slots -> ActRecord]]
    BY <1>2, UpdateFailsIs DEF ActSteps
  <2>2. /\ hw' \in [Nodes -> [Devices -> Stored]] /\ budget' \in Nat
        /\ UNCHANGED <<enc, queue, later, pc, nc, rep, live, rebooting>>
    BY <1>2, UpdateFailsIs
  <2> QED
    BY <1>0, <2>1, <2>2 DEF DaemonRecords
<1>3. CASE UpdatesEnd(n, s)
  BY <1>0, <1>3 DEF UpdatesEnd, daemonOnly, DaemonRecords
<1>4. CASE MarkReboot(n, s)
  <2>1. /\ act' \in [Nodes -> [Slots -> ActRecord]] /\ enc' \in [Nodes -> Object] /\ budget' \in Nat
        /\ UNCHANGED <<queue, later, pc, nc, rep, hw, live, rebooting>>
    BY <1>4, MarkRebootIs DEF ActSteps
  <2> QED
    BY <1>0, <2>1 DEF DaemonRecords
<1>5. CASE rebootNode(n, s)
  BY <1>0, <1>5 DEF rebootNode, DaemonRecords
<1>6. CASE rebootNodeFails(n, s)
  <2>1. /\ act' \in [Nodes -> [Slots -> ActRecord]] /\ budget' \in Nat
        /\ UNCHANGED <<enc, queue, later, pc, nc, rep, hw, live, rebooting>>
    BY <1>6, RebootFailsIs DEF ActSteps
  <2> QED
    BY <1>0, <2>1 DEF DaemonRecords
<1> QED
  BY <1>1, <1>2, <1>3, <1>4, <1>5, <1>6 DEF FunctionStep

\* The rest of the system keeps the types.
LEMMA EnvironmentTypes ==
  ASSUME DaemonRecords, NEW n \in Nodes, EnvironmentStep(n)
  PROVE  DaemonRecords'
<1>0. TypeOK'
  BY EnvironmentIsHelperStep, TypeStep DEF DaemonRecords
<1>1. ASSUME NEW m \in Nodes, RequeueFires(n, m) PROVE DaemonRecords'
  BY <1>0, <1>1 DEF RequeueFires, DaemonRecords
<1>2. CASE Start(n)
  <2>1. enc' \in [Nodes -> Object] /\ pc' \in [Nodes -> PCs]
    BY <1>2, CreateIs, GotoIs DEF Start, PCs
  <2> QED
    BY <1>0, <1>2, <2>1 DEF Start, DaemonRecords
<1>3. CASE Reboot(n)
  <2>1. /\ pc' \in [Nodes -> PCs] /\ queue' \in [Nodes -> SUBSET Nodes] /\ later' \in [Nodes -> SUBSET Nodes]
        /\ nc' \in [Nodes -> Copy] /\ rep' \in [Nodes -> RepRecord]
        /\ act' \in [Nodes -> [Slots -> ActRecord]]
    BY <1>3, ProcessGoneIs DEF Reboot
  <2>2. live' \in [Nodes -> [Devices -> Stored]] /\ rebooting' \in [Nodes -> BOOLEAN]
    BY <1>3 DEF Reboot, DaemonRecords
  <2> QED
    BY <1>0, <1>3, <2>1, <2>2 DEF Reboot, DaemonRecords
<1>4. CASE Crash(n)
  <2>1. /\ pc' \in [Nodes -> PCs] /\ queue' \in [Nodes -> SUBSET Nodes] /\ later' \in [Nodes -> SUBSET Nodes]
        /\ nc' \in [Nodes -> Copy] /\ rep' \in [Nodes -> RepRecord]
        /\ act' \in [Nodes -> [Slots -> ActRecord]]
    BY <1>4, ProcessGoneIs DEF Crash
  <2>2. budget' \in Nat
    BY <1>4, DaemonFaultIs DEF Crash
  <2> QED
    BY <1>0, <1>4, <2>1, <2>2 DEF Crash, DaemonRecords
<1>5. ASSUME NEW c \in Cfgs, NEW skip \in Skips, UpdateSpec(n, c, skip) PROVE DaemonRecords'
  <2>1. enc' \in [Nodes -> Object] /\ queue' \in [Nodes -> SUBSET Nodes]
    BY <1>5, UpdateSpecIs
  <2> QED
    BY <1>0, <1>5, <2>1 DEF UpdateSpec, DaemonRecords
<1>6. CASE Delete(n)
  <2>1. enc' \in [Nodes -> Object]
    BY <1>6, EmptyRecords DEF Delete, DaemonRecords
  <2>2. queue' \in [Nodes -> SUBSET Nodes]
    BY <1>6 DEF Delete, DaemonRecords
  <2> QED
    BY <1>0, <1>6, <2>1, <2>2 DEF Delete, DaemonRecords
<1> QED
  BY <1>1, <1>2, <1>3, <1>4, <1>5, <1>6 DEF EnvironmentStep

\* Every step of the daemons is one that DrainHelper allows.
LEMMA DaemonIsHelperStep == ASSUME [DaemonNext]_daemonVars PROVE [Next]_vars
<1>1. CASE UNCHANGED daemonVars
  BY <1>1 DEF daemonVars
<1>2. ASSUME NEW n \in Nodes, StartLeading(n) PROVE [Next]_vars
  BY <1>2 DEF StartLeading, Next
<1>3. ASSUME NEW n \in Nodes, HelperStep(n) PROVE [Next]_vars
  BY <1>3 DEF HelperStep, Next
<1> QED
  BY <1>1, <1>2, <1>3, ReconcileIsHelperStep, FunctionIsHelperStep, EnvironmentIsHelperStep DEF DaemonNext

\* Every step keeps every variable in its type.
LEMMA DaemonTypeStep == ASSUME DaemonRecords, [DaemonNext]_daemonVars PROVE DaemonRecords'
<1>0. TypeOK'
  BY DaemonIsHelperStep, TypeStep DEF DaemonRecords
<1>1. CASE UNCHANGED daemonVars
  BY <1>0, <1>1 DEF daemonVars, daemonOnly, DaemonRecords
<1>2. ASSUME NEW n \in Nodes, StartLeading(n) PROVE DaemonRecords'
  <2>1. /\ act' \in [Nodes -> [Slots -> ActRecord]]
        /\ UNCHANGED <<enc, queue, later, pc, nc, rep, hw, live, rebooting, budget>>
    BY <1>2, StartLeadingIs DEF ActSteps
  <2> QED
    BY <1>0, <2>1 DEF DaemonRecords
<1>3. ASSUME NEW n \in Nodes, HelperStep(n) PROVE DaemonRecords'
  <2>1. /\ UNCHANGED <<enc, queue, later, pc, nc, rep, act, hw, live, rebooting>>
        /\ UNCHANGED budget \/ Fault("api")
    BY <1>3 DEF HelperStep, daemonOnly
  <2>2. budget' \in Nat
    BY <2>1, DaemonFaultIs DEF DaemonRecords
  <2> QED
    BY <1>0, <2>1, <2>2 DEF DaemonRecords
<1> QED
  BY <1>1, <1>2, <1>3, ReconcileTypes, FunctionTypes, EnvironmentTypes DEF DaemonNext

\* At first, too.
LEMMA DaemonTypeInit == ASSUME DaemonInit PROVE DaemonRecords
<1>1. TypeOK
  BY EndedType DEF DaemonInit, Init, TypeOK, RunStates
<1>2. /\ enc \in [Nodes -> Object] /\ nc \in [Nodes -> Copy] /\ rep \in [Nodes -> RepRecord]
      /\ act \in [Nodes -> [Slots -> ActRecord]]
  BY EmptyRecords DEF DaemonInit
<1>3. [fw |-> Factory, ddp |-> Factory] \in Stored
  BY VersionsAssumption DEF Stored
<1>4. hw \in [Nodes -> [Devices -> Stored]] /\ live \in [Nodes -> [Devices -> Stored]]
  BY <1>3 DEF DaemonInit
<1> QED
  BY <1>1, <1>2, <1>4, BoundsAssumption DEF DaemonInit, DaemonRecords, PCs

-----------------------------------------------------------------------------
(* One node at a time *)

\* A step leaves all that belongs to node m as it is: in the helper ...
HelperSame(m) ==
  /\ run'[m] = run[m] /\ drain'[m] = drain[m] /\ cur'[m] = cur[m]
  /\ runErr'[m] = runErr[m] /\ cordoned'[m] = cordoned[m]
  /\ \A s \in Slots : worker'[m][s] = worker[m][s]

\* ... and in the daemon.
DaemonSame(m) ==
  /\ enc'[m] = enc[m] /\ queue'[m] = queue[m] /\ later'[m] = later[m] /\ pc'[m] = pc[m]
  /\ nc'[m] = nc[m] /\ rep'[m] = rep[m] /\ act'[m] = act[m] /\ hw'[m] = hw[m]
  /\ live'[m] = live[m] /\ rebooting'[m] = rebooting[m]

\* The elector touches its own node and the lease.
LEMMA ElectorIs ==
  ASSUME TypeOK, NEW n \in Nodes, ElectorStep(n) \/ RenewLost(n)
  PROVE  /\ \A m \in Nodes \ {n} : HelperSame(m)
         /\ drain'[n] = drain[n] /\ cur'[n] = cur[n] /\ cordoned'[n] = cordoned[n]
         /\ \A s \in Slots : /\ worker'[n][s].pc = worker[n][s].pc /\ worker'[n][s].err = worker[n][s].err
                             /\ worker'[n][s].drain = worker[n][s].drain
         /\ \/ run'[n] = run[n] /\ runErr'[n] = runErr[n]
            \/ run[n] = "renew" /\ run'[n] = "release" /\ runErr'[n] = runErr[n]
            \/ run[n] = "release" /\ run'[n] = "mitigate" /\ runErr'[n] = worker[n][cur[n]].err
            \/ run[n] = "mitigate" /\ run'[n] = "idle" /\ runErr'[n] = runErr[n]
         /\ run[n] = "renew" /\ run'[n] # "renew" => LeadEnd(n) \/ RenewRefused(n) \/ RenewLost(n)
<1>1. CASE Renew(n) \/ Release(n) \/ Mitigate(n)
  BY <1>1 DEF Renew, Release, Mitigate, TypeOK, HelperSame
<1>2. CASE LeadEnd(n) \/ RenewRefused(n) \/ RenewLost(n)
  <2>1. StopLeading(n) /\ run[n] = "renew"
    BY <1>2 DEF LeadEnd, RenewRefused, RenewLost
  <2>2. cur[n] \in Slots /\ worker[n][cur[n]] \in Worker
    BY DEF TypeOK
  <2>3. /\ \A s \in Slots : /\ worker'[n][s].pc = worker[n][s].pc /\ worker'[n][s].err = worker[n][s].err
                            /\ worker'[n][s].drain = worker[n][s].drain
        /\ \A m \in Nodes, r \in Slots : m # n => worker'[m][r] = worker[m][r]
    BY <2>1, <2>2, SetWorkerEffect DEF StopLeading, Worker
  <2> QED
    BY <1>2, <2>1, <2>3 DEF StopLeading, TypeOK, HelperSame
<1> QED
  BY <1>1, <1>2 DEF ElectorStep

\* A worker touches its own node.
LEMMA WorkerIs ==
  ASSUME TypeOK, NEW n \in Nodes, NEW s \in Slots, NEW b \in BOOLEAN,
         \/ WorkerStep(n, s) \/ WorkEnd(n, s, b)
         \/ GetNodeFails(n, s) \/ CordonOrDrainFails(n, s) \/ UncordonFails(n, s)
  PROVE  /\ \A m \in Nodes \ {n} : HelperSame(m)
         /\ run'[n] = run[n] /\ drain'[n] = drain[n] /\ cur'[n] = cur[n] /\ runErr'[n] = runErr[n]
         /\ Active(n, s)
         /\ \A r \in Slots : r # s => worker'[n][r] = worker[n][r]
         /\ worker'[n][s].drain = worker[n][s].drain
<1>1. /\ UNCHANGED <<lease, run, drain, cur, runErr, broken>> /\ Active(n, s)
      /\ \A m \in Nodes, r \in Slots : <<m, r>> # <<n, s>> => worker'[m][r] = worker[m][r]
  BY WorkerStepEffect
<1>2. /\ worker'[n][s].drain = worker[n][s].drain
      /\ cordoned' # cordoned => \/ cordoned' = [cordoned EXCEPT ![n] = TRUE]
                                 \/ cordoned' = [cordoned EXCEPT ![n] = FALSE]
  BY WorkerStepRecord
<1>3. \A m \in Nodes \ {n} : cordoned'[m] = cordoned[m]
  BY <1>2 DEF TypeOK
<1> QED
  BY <1>1, <1>2, <1>3 DEF HelperSame

\* The elector starts a worker in a free slot.
LEMMA AcquireIs ==
  ASSUME TypeOK, NEW n \in Nodes, Acquire(n)
  PROVE  /\ \A m \in Nodes \ {n} : HelperSame(m)
         /\ run[n] = "acquire" /\ run'[n] = "renew" /\ drain'[n] = drain[n]
         /\ runErr'[n] = runErr[n] /\ cordoned'[n] = cordoned[n]
         /\ cur'[n] \in Slots /\ ~Active(n, cur'[n])
         /\ worker'[n][cur'[n]].pc \in {"getnode", "work"} /\ ~worker'[n][cur'[n]].err
         /\ worker'[n][cur'[n]].drain = drain[n]
         /\ \A r \in Slots : r # cur'[n] => worker'[n][r] = worker[n][r]
<1> DEFINE w == [Ended EXCEPT !.pc = IF drain[n] THEN "getnode" ELSE "work", !.drain = drain[n]]
<1>1. PICK s \in Slots : ~Active(n, s) /\ cur' = [cur EXCEPT ![n] = s] /\ SetWorker(n, s, w)
  BY DEF Acquire
<1>2. /\ worker'[n][s] = w
      /\ \A m \in Nodes, r \in Slots : <<m, r>> # <<n, s>> => worker'[m][r] = worker[m][r]
  BY <1>1, SetWorkerEffect
<1>3. w.pc \in {"getnode", "work"} /\ w.drain = drain[n] /\ ~w.err
  BY DEF Ended
<1> HIDE DEF w
<1>4. cur'[n] = s /\ \A m \in Nodes \ {n} : cur'[m] = cur[m]
  BY <1>1 DEF TypeOK
<1>5. /\ run[n] = "acquire" /\ run'[n] = "renew" /\ UNCHANGED <<drain, runErr, cordoned>>
      /\ \A m \in Nodes \ {n} : run'[m] = run[m]
  BY DEF Acquire, TypeOK
<1> QED
  BY <1>1, <1>2, <1>3, <1>4, <1>5 DEF HelperSame

\* The process ends.
LEMMA ProcessEndIs ==
  ASSUME TypeOK, NEW n \in Nodes, ProcessEnd(n)
  PROVE  /\ \A m \in Nodes \ {n} : HelperSame(m)
         /\ run'[n] = "idle" /\ cur'[n] = cur[n] /\ cordoned'[n] = cordoned[n]
         /\ \A s \in Slots : worker'[n][s].pc = "done"
BY DEF ProcessEnd, TypeOK, HelperSame, Ended

\* Run is called, or refused.
LEMMA RunIs ==
  ASSUME TypeOK, NEW n \in Nodes, NEW d \in BOOLEAN, RunStart(n, d) \/ RunRejected(n, d)
  PROVE  /\ \A m \in Nodes \ {n} : HelperSame(m)
         /\ run[n] = "idle" /\ drain'[n] = d /\ cur'[n] = cur[n] /\ cordoned'[n] = cordoned[n]
         /\ \A s \in Slots : worker'[n][s] = worker[n][s]
         /\ RunStart(n, d) => run'[n] = "acquire"
         /\ RunRejected(n, d) => run'[n] = "mitigate"
BY DEF RunStart, RunRejected, TypeOK, HelperSame

\* What is behind a step of the helper.
LEMMA HelperIs ==
  ASSUME DaemonRecords, NEW n \in Nodes, HelperStep(n)
  PROVE  /\ UNCHANGED <<enc, queue, later, pc, nc, rep, act, hw, live, rebooting>>
         /\ \/ ElectorStep(n) \/ RenewLost(n)
            \/ \E s \in Slots : \/ WorkerStep(n, s)
                                \/ GetNodeFails(n, s) \/ CordonOrDrainFails(n, s) \/ UncordonFails(n, s)
BY DEF HelperStep, FaultStep, daemonOnly

\* A step that belongs to node n.
NodeStep(n) ==
  \/ ReconcileStep(n) \/ StartLeading(n) \/ HelperStep(n) \/ EnvironmentStep(n)
  \/ \E s \in Slots : FunctionStep(n, s)

Same(m) == HelperSame(m) /\ DaemonSame(m)

\* A daemon that has only its own node's requests leaves the other nodes alone.
LEMMA OthersSame ==
  ASSUME DaemonRecords, ~DeletesAllowed \/ Alone, NEW n \in Nodes, Own(n), NodeStep(n),
         NEW m \in Nodes, m # n
  PROVE  Same(m)
<1>0. TypeOK /\ nc[n] \in Copy /\ ~DeletesAllowed
  BY DEF DaemonRecords, Alone
<1>1. CASE ReconcileStep(n)
  <2>1. ASSUME NEW k \in Nodes, ReconcileNotFound(n, k) PROVE Same(m)
    <3>1. enc'[m] = enc[m]
      BY <2>1, CreateIs DEF ReconcileNotFound
    <3>2. queue'[m] = queue[m]
      BY <2>1 DEF ReconcileNotFound, DaemonRecords
    <3> QED
      BY <2>1, <3>1, <3>2 DEF ReconcileNotFound, Same, HelperSame, DaemonSame, vars
  <2>2. ASSUME NEW k \in Nodes, ReconcileGet(n, k) PROVE Same(m)
    <3>1. queue'[m] = queue[m] /\ nc'[m] = nc[m]
      BY <2>2 DEF ReconcileGet, Dequeue, DaemonRecords
    <3>2. \/ (goto(n, "finish") \/ goto(n, "begin")) /\ UNCHANGED rep
          \/ report(n, "NotRequested", FALSE)
      BY <2>2 DEF ReconcileGet
    <3>3. pc'[m] = pc[m] /\ rep'[m] = rep[m]
      BY <3>2, GotoIs, ReportIs DEF PCs, Reasons
    <3> QED
      BY <2>2, <3>1, <3>3 DEF ReconcileGet, Same, HelperSame, DaemonSame, vars
  <2>3. CASE Finish(n)
    <3>1. cordoned'[m] = cordoned[m]
      BY <1>0, <2>3 DEF Finish, Uncordon, TypeOK
    <3>2. pc'[m] = pc[m] /\ rep'[m] = rep[m]
      BY <2>3, ReportIs DEF Finish, Reasons
    <3> QED
      BY <2>3, <3>1, <3>2 DEF Finish, Uncordon, Same, HelperSame, DaemonSame
  <2>4. CASE FinishFails(n)
    <3>1. pc'[m] = pc[m] /\ rep'[m] = rep[m] /\ nc'[m] = nc[m]
      BY <2>4, ReturnIs DEF FinishFails
    <3>2. later'[m] = later[m]
      BY <2>4 DEF FinishFails, DaemonRecords
    <3> QED
      BY <2>4, <3>1, <3>2 DEF FinishFails, Same, HelperSame, DaemonSame, vars
  <2>5. CASE Begin(n)
    <3>1. enc'[m] = enc[m]
      BY <1>0, <2>5, ConditionIs DEF Begin, updateConditionLost, Own, Reasons
    <3>2. pc'[m] = pc[m]
      BY <2>5, GotoIs DEF Begin, PCs
    <3>3. nc'[m] = nc[m]
      BY <2>5 DEF Begin, DaemonRecords
    <3> QED
      BY <2>5, <3>1, <3>2, <3>3 DEF Begin, Same, HelperSame, DaemonSame, vars
  <2>6. CASE PrepareFails(n)
    <3>1. pc'[m] = pc[m] /\ rep'[m] = rep[m]
      BY <2>6, ReportIs DEF PrepareFails, Reasons
    <3> QED
      BY <2>6, <3>1 DEF PrepareFails, Same, HelperSame, DaemonSame, vars
  <2>7. CASE Prepare(n)
    <3>1. PICK d \in BOOLEAN : d = ~nc[n].skip
      OBVIOUS
    <3>2. HelperSame(m)
      BY <1>0, <2>7, <3>1, RunIs DEF Prepare
    <3>3. pc'[m] = pc[m]
      BY <2>7, GotoIs DEF Prepare, PCs
    <3> QED
      BY <2>7, <3>2, <3>3 DEF Prepare, Same, DaemonSame
  <2>8. CASE ConfigureNodeReturn(n)
    <3>1. act'[m] = act[m]
      BY <2>8 DEF ConfigureNodeReturn, DaemonRecords
    <3>2. pc'[m] = pc[m] /\ rep'[m] = rep[m] /\ nc'[m] = nc[m]
      BY <2>8 DEF ConfigureNodeReturn, return, report, goto, DaemonRecords
    <3> QED
      BY <2>8, <3>1, <3>2 DEF ConfigureNodeReturn, Same, HelperSame, DaemonSame, vars
  <2>9. CASE ConfigureNodeRejected(n)
    <3>1. pc'[m] = pc[m] /\ rep'[m] = rep[m]
      BY <2>9, ReportIs DEF ConfigureNodeRejected, Reasons
    <3> QED
      BY <2>9, <3>1 DEF ConfigureNodeRejected, Same, HelperSame, DaemonSame, vars
  <2>10. CASE Report(n)
    <3>1. rep[n].reason \in Reasons \cup {None}
      BY DEF DaemonRecords, RepRecord
    <3>2. enc'[m] = enc[m]
      BY <1>0, <2>10, <3>1, ConditionIs DEF Report, updateConditionLost, Own
    <3>3. pc'[m] = pc[m] /\ rep'[m] = rep[m] /\ nc'[m] = nc[m]
      BY <2>10, ReturnIs DEF Report
    <3>4. later'[m] = later[m]
      BY <2>10 DEF Report, DaemonRecords
    <3> QED
      BY <2>10, <3>2, <3>3, <3>4 DEF Report, Same, HelperSame, DaemonSame, vars
  <2> QED
    BY <1>1, <2>1, <2>2, <2>3, <2>4, <2>5, <2>6, <2>7, <2>8, <2>9, <2>10 DEF ReconcileStep
<1>2. CASE StartLeading(n)
  <2>1. act'[m] = act[m] /\ Acquire(n) /\ UNCHANGED <<enc, queue, later, pc, nc, rep, hw, live, rebooting>>
    BY <1>2, StartLeadingIs DEF ActSteps
  <2> QED
    BY <1>0, <2>1, AcquireIs DEF Same, DaemonSame
<1>3. CASE HelperStep(n)
  <2>1. HelperSame(m)
    BY <1>0, <1>3, HelperIs, ElectorIs, WorkerIs
  <2> QED
    BY <1>3, <2>1, HelperIs DEF Same, DaemonSame
<1>4. CASE EnvironmentStep(n)
  <2>1. ASSUME NEW k \in Nodes, RequeueFires(n, k) PROVE Same(m)
    BY <2>1 DEF RequeueFires, Same, HelperSame, DaemonSame, DaemonRecords, vars
  <2>2. CASE Start(n)
    <3>1. enc'[m] = enc[m] /\ pc'[m] = pc[m]
      BY <2>2, CreateIs, GotoIs DEF Start, PCs
    <3>2. queue'[m] = queue[m]
      BY <2>2 DEF Start, DaemonRecords
    <3> QED
      BY <2>2, <3>1, <3>2 DEF Start, Same, HelperSame, DaemonSame, vars
  <2>3. CASE Reboot(n)
    <3>1. ProcessGone(n) /\ live'[m] = live[m] /\ rebooting'[m] = rebooting[m] /\ UNCHANGED <<enc, hw>>
      BY <2>3 DEF Reboot, DaemonRecords
    <3> QED
      BY <1>0, <3>1, ProcessGoneIs, ProcessEndIs DEF Same, DaemonSame
  <2>4. CASE Crash(n)
    <3>1. ProcessGone(n) /\ UNCHANGED <<enc, hw, live, rebooting>>
      BY <2>4 DEF Crash
    <3> QED
      BY <1>0, <3>1, ProcessGoneIs, ProcessEndIs DEF Same, DaemonSame
  <2>5. ASSUME NEW c \in Cfgs, NEW skip \in Skips, UpdateSpec(n, c, skip) PROVE Same(m)
    <3>1. enc'[m] = enc[m] /\ queue'[m] = queue[m]
      BY <2>5, UpdateSpecIs
    <3> QED
      BY <2>5, <3>1 DEF UpdateSpec, Same, HelperSame, DaemonSame, vars
  <2> QED
    BY <1>0, <1>4, <2>1, <2>2, <2>3, <2>4, <2>5 DEF EnvironmentStep, Delete
<1>5. ASSUME NEW s \in Slots, FunctionStep(n, s) PROVE Same(m)
  <2>1. ASSUME NEW d \in Devices, UpdateDevice(n, s, d) PROVE Same(m)
    BY <2>1, UpdateDeviceIs DEF ActSteps, Same, HelperSame, DaemonSame, vars
  <2>2. ASSUME NEW d \in Devices, UpdateDeviceFails(n, s, d) PROVE Same(m)
    <3>1. UNCHANGED <<vars, enc, queue, later, pc, nc, rep, live, rebooting>> /\ hw'[m] = hw[m]
      BY <2>2, UpdateFailsIs
    <3>2. ActSteps(n, s, act[n][s].todo, act[n][s].reboot, TRUE, act[n][s].marked)
      BY <2>2, UpdateFailsIs
    <3> QED
      BY <3>1, <3>2 DEF ActSteps, Same, HelperSame, DaemonSame, vars
  <2>3. CASE UpdatesEnd(n, s)
    BY <1>0, <2>3, WorkerIs DEF UpdatesEnd, daemonOnly, Same, DaemonSame
  <2>4. CASE MarkReboot(n, s)
    <3>1. act[n][s].nc \in Copy /\ act[n][s].nc.m = n
      BY ActFields DEF DaemonRecords, Own
    <3>2. enc'[m] = enc[m]
      BY <2>4, <3>1, MarkRebootIs, ConditionIs DEF Reasons
    <3>3. UNCHANGED <<vars, queue, later, pc, nc, rep, hw, live, rebooting>>
      BY <2>4, MarkRebootIs
    <3>4. ActSteps(n, s, act[n][s].todo, act[n][s].reboot, act[n][s].err, TRUE)
      BY <2>4, MarkRebootIs
    <3> QED
      BY <3>2, <3>3, <3>4 DEF ActSteps, Same, HelperSame, DaemonSame, vars
  <2>5. CASE rebootNode(n, s)
    <3>1. WorkEnd(n, s, FALSE) /\ rebooting'[m] = rebooting[m]
      BY <2>5 DEF rebootNode, DaemonRecords
    <3> QED
      BY <1>0, <2>5, <3>1, WorkerIs DEF rebootNode, Same, DaemonSame
  <2>6. CASE rebootNodeFails(n, s)
    <3>1. act'[m] = act[m] /\ WorkEnd(n, s, FALSE)
          /\ UNCHANGED <<enc, queue, later, pc, nc, rep, hw, live, rebooting>>
      BY <2>6, RebootFailsIs DEF ActSteps
    <3> QED
      BY <1>0, <3>1, WorkerIs DEF Same, DaemonSame
  <2> QED
    BY <1>5, <2>1, <2>2, <2>3, <2>4, <2>5, <2>6 DEF FunctionStep
<1> QED
  BY <1>1, <1>2, <1>3, <1>4, <1>5 DEF NodeStep

-----------------------------------------------------------------------------
(* Own requests, own workers *)

\* No node loses its lead under its worker.
LeadKept == broken = {}

\* A daemon works for its own node only: nobody deletes an object, or there is
\* only one daemon.
Undisturbed == ~DeletesAllowed \/ Alone

BaseInv ==
  /\ DaemonRecords
  /\ LeadKept /\ DrainInv
  /\ \A n \in Nodes : NoLeftover(n) /\ Own(n) /\ RunInv(n)

\* The requests and the copies stay those of the own node.
LEMMA OwnStep ==
  ASSUME BaseInv, ~DeletesAllowed, NEW n \in Nodes, NodeStep(n)
  PROVE  Own(n)'
<1>0. DaemonRecords /\ TypeOK /\ Own(n) /\ nc[n] \in Copy /\ cur[n] \in Slots
  BY DEF BaseInv, DaemonRecords, TypeOK
<1>1. ASSUME UNCHANGED <<queue, later, nc, act>> PROVE Own(n)'
  BY <1>0, <1>1 DEF Own
<1>2. ASSUME NEW m \in Nodes, ReconcileNotFound(n, m) PROVE Own(n)'
  <2>1. queue'[n] \subseteq queue[n] \cup {n} /\ UNCHANGED <<later, nc, act>>
    BY <1>0, <1>2 DEF ReconcileNotFound, DaemonRecords
  <2> QED
    BY <1>0, <2>1 DEF Own
<1>3. ASSUME NEW m \in Nodes, ReconcileGet(n, m) PROVE Own(n)'
  <2>1. m = n
    BY <1>0, <1>3 DEF ReconcileGet, CanReconcile, Own
  <2>2. queue'[n] \subseteq queue[n] /\ nc'[n] = Read(n) /\ UNCHANGED <<later, act>>
    BY <1>0, <1>3, <2>1 DEF ReconcileGet, Dequeue, DaemonRecords
  <2> QED
    BY <1>0, <2>2, ReadIs DEF Own
<1>4. CASE FinishFails(n) \/ Report(n)
  <2>1. nc'[n] = NoCopy(n)
    BY <1>0, <1>4, ReturnIs DEF FinishFails, Report
  <2>2. later'[n] \subseteq later[n] \cup {nc[n].m} /\ UNCHANGED <<queue, act>>
    BY <1>0, <1>4 DEF FinishFails, Report, DaemonRecords
  <2> QED
    BY <1>0, <2>1, <2>2, EmptyRecords DEF Own
<1>5. CASE Begin(n)
  <2>1. nc'[n] \in {nc[n], Reread(nc[n])} /\ UNCHANGED <<queue, later, act>>
    BY <1>0, <1>5 DEF Begin, DaemonRecords
  <2> QED
    BY <1>0, <2>1, RereadIs DEF Own
<1>6. CASE ConfigureNodeReturn(n)
  <2>1. UNCHANGED <<queue, later>> /\ nc'[n] \in {NoCopy(n), act[n][cur[n]].nc}
    BY <1>0, <1>6 DEF ConfigureNodeReturn, return, DaemonRecords
  <2>2. \A s \in Slots : act'[n][s] \in {act[n][s], NoAct(n)}
    BY <1>0, <1>6 DEF ConfigureNodeReturn, DaemonRecords
  <2> QED
    BY <1>0, <2>1, <2>2, EmptyRecords DEF Own
<1>7. CASE StartLeading(n)
  <2>1. /\ UNCHANGED <<queue, later, nc>> /\ cur'[n] \in Slots
        /\ act'[n][cur'[n]].nc = nc[n] /\ \A r \in Slots : r # cur'[n] => act'[n][r] = act[n][r]
    BY <1>0, <1>7, StartLeadingIs DEF ActSteps
  <2> QED
    BY <1>0, <2>1 DEF Own
<1>8. CASE EnvironmentStep(n)
  <2>1. ASSUME NEW m \in Nodes, RequeueFires(n, m) PROVE Own(n)'
    <3>1. queue'[n] = queue[n] \cup {m} /\ later'[n] \subseteq later[n] /\ m \in later[n] /\ UNCHANGED <<nc, act>>
      BY <1>0, <2>1 DEF RequeueFires, DaemonRecords
    <3> QED
      BY <1>0, <3>1 DEF Own
  <2>2. CASE Start(n)
    <3>1. queue'[n] = {n} /\ UNCHANGED <<later, nc, act>>
      BY <1>0, <2>2 DEF Start, DaemonRecords
    <3> QED
      BY <1>0, <3>1 DEF Own
  <2>3. CASE Reboot(n) \/ Crash(n)
    <3>1. ProcessGone(n)
      BY <2>3 DEF Reboot, Crash
    <3> QED
      BY <1>0, <3>1, ProcessGoneIs, EmptyRecords DEF Own
  <2>4. ASSUME NEW c \in Cfgs, NEW skip \in Skips, UpdateSpec(n, c, skip) PROVE Own(n)'
    <3>1. queue'[n] \subseteq queue[n] \cup {n} /\ UNCHANGED <<later, nc, act>>
      BY <1>0, <2>4, UpdateSpecIs DEF UpdateSpec
    <3> QED
      BY <1>0, <3>1 DEF Own
  <2> QED
    BY <1>8, <2>1, <2>2, <2>3, <2>4 DEF EnvironmentStep, Delete
<1>9. ASSUME NEW s \in Slots, FunctionStep(n, s) PROVE Own(n)'
  <2>1. ASSUME UNCHANGED <<queue, later, nc>>,
               act'[n][s].nc.m = act[n][s].nc.m, \A r \in Slots : r # s => act'[n][r] = act[n][r]
        PROVE  Own(n)'
    BY <1>0, <2>1 DEF Own
  <2>2. ASSUME NEW d \in Devices, UpdateDevice(n, s, d) PROVE Own(n)'
    BY <1>0, <2>1, <2>2, UpdateDeviceIs DEF ActSteps
  <2>3. ASSUME NEW d \in Devices, UpdateDeviceFails(n, s, d) PROVE Own(n)'
    <3>1. ActSteps(n, s, act[n][s].todo, act[n][s].reboot, TRUE, act[n][s].marked)
      BY <1>0, <2>3, UpdateFailsIs
    <3>2. act'[n][s].nc = act[n][s].nc /\ UNCHANGED <<queue, later, nc>>
      BY <1>0, <2>3, UpdateFailsIs
    <3> QED
      BY <2>1, <3>1, <3>2 DEF ActSteps
  <2>4. CASE UpdatesEnd(n, s) \/ rebootNode(n, s)
    BY <1>1, <2>4 DEF UpdatesEnd, rebootNode, daemonOnly
  <2>5. CASE MarkReboot(n, s)
    <3>1. act[n][s].nc \in Copy
      BY <1>0, ActFields DEF DaemonRecords
    <3>2. act'[n][s].nc.m = act[n][s].nc.m
      BY <1>0, <2>5, <3>1, MarkRebootIs, RereadIs
    <3>3. ActSteps(n, s, act[n][s].todo, act[n][s].reboot, act[n][s].err, TRUE)
      BY <1>0, <2>5, MarkRebootIs
    <3>4. UNCHANGED <<queue, later, nc>>
      BY <2>5 DEF MarkReboot
    <3> QED
      BY <2>1, <3>2, <3>3, <3>4 DEF ActSteps
  <2>6. CASE rebootNodeFails(n, s)
    <3>1. /\ ActSteps(n, s, act[n][s].todo, act[n][s].reboot, TRUE, act[n][s].marked)
          /\ act'[n][s].nc = act[n][s].nc /\ UNCHANGED <<queue, later, nc>>
      BY <1>0, <2>6, RebootFailsIs
    <3> QED
      BY <2>1, <3>1 DEF ActSteps
  <2> QED
    BY <1>9, <2>2, <2>3, <2>4, <2>5, <2>6 DEF FunctionStep
<1>10. CASE HelperStep(n)
  BY <1>0, <1>1, <1>10, HelperIs
<1>11. CASE Finish(n) \/ PrepareFails(n) \/ Prepare(n) \/ ConfigureNodeRejected(n)
  BY <1>1, <1>11 DEF Finish, PrepareFails, Prepare, ConfigureNodeRejected
<1> QED
  BY <1>2, <1>3, <1>4, <1>5, <1>6, <1>7, <1>8, <1>9, <1>10, <1>11 DEF NodeStep, ReconcileStep

\* Run is called by configureNode, and Reconcile waits until it returns.
LEMMA RunInvStep ==
  ASSUME BaseInv, NEW n \in Nodes, NodeStep(n)
  PROVE  RunInv(n)'
<1>0. DaemonRecords /\ TypeOK /\ RunInv(n) /\ NoLeftover(n) /\ pc[n] \in PCs /\ cur[n] \in Slots
  BY DEF BaseInv, DaemonRecords, TypeOK
<1>1. ASSUME run'[n] = run[n], pc'[n] = pc[n],
             \/ run[n] = "renew"
             \/ UNCHANGED <<worker, cur, runErr>> PROVE RunInv(n)'
  BY <1>0, <1>1 DEF RunInv
<1>2. ASSUME run'[n] = run[n], pc[n] \notin {"run", "rejected"} \/ run[n] = "idle",
             pc'[n] \notin {"run", "rejected"} PROVE RunInv(n)'
  BY <1>0, <1>2 DEF RunInv
<1>3. ASSUME NEW m \in Nodes, ReconcileNotFound(n, m) PROVE RunInv(n)'
  BY <1>1, <1>3 DEF ReconcileNotFound, vars
<1>4. ASSUME NEW m \in Nodes, ReconcileGet(n, m) PROVE RunInv(n)'
  <2>1. \/ goto(n, "finish") \/ goto(n, "begin") \/ report(n, "NotRequested", FALSE)
    BY <1>4 DEF ReconcileGet
  <2>2. pc'[n] \in {"finish", "begin", "report"}
    BY <1>0, <2>1, GotoIs, ReportIs DEF PCs, Reasons
  <2> QED
    BY <1>2, <1>4, <2>2 DEF ReconcileGet, CanReconcile, vars
<1>5. CASE Finish(n) \/ PrepareFails(n) \/ ConfigureNodeRejected(n)
  <2>1. pc'[n] = "report"
    BY <1>0, <1>5 DEF Finish, PrepareFails, ConfigureNodeRejected, report, goto, DaemonRecords
  <2>2. run' = run /\ (pc[n] \notin {"run", "rejected"} \/ run[n] = "idle")
    BY <1>5 DEF Finish, Uncordon, PrepareFails, ConfigureNodeRejected, vars
  <2> QED
    BY <1>2, <2>1, <2>2
<1>6. CASE FinishFails(n) \/ Begin(n) \/ Report(n)
  <2>1. pc'[n] \in {"idle", "prepare"}
    BY <1>0, <1>6 DEF FinishFails, Begin, Report, return, goto, DaemonRecords
  <2>2. run' = run /\ pc[n] \notin {"run", "rejected"}
    BY <1>6 DEF FinishFails, Begin, Report, vars
  <2> QED
    BY <1>2, <2>1, <2>2
<1>7. CASE Prepare(n)
  <2>1. PICK d \in BOOLEAN : d = ~nc[n].skip
    OBVIOUS
  <2>2. CASE RunStart(n, d) /\ goto(n, "run")
    BY <1>0, <2>2, RunIs, GotoIs DEF RunInv, PCs
  <2>3. CASE RunRejected(n, d) /\ goto(n, "rejected")
    BY <1>0, <2>3, RunIs, GotoIs DEF RunInv, PCs
  <2> QED
    BY <1>7, <2>1, <2>2, <2>3 DEF Prepare
<1>8. CASE ConfigureNodeReturn(n)
  <2>1. pc'[n] \in {"idle", "report"}
    BY <1>0, <1>8 DEF ConfigureNodeReturn, return, report, goto, DaemonRecords
  <2> QED
    BY <1>2, <1>8, <2>1 DEF ConfigureNodeReturn, vars
<1>9. CASE StartLeading(n)
  <2>1. run[n] = "acquire" /\ run'[n] = "renew" /\ pc' = pc
    BY <1>0, <1>9, StartLeadingIs, AcquireIs
  <2> QED
    BY <1>0, <2>1 DEF RunInv
<1>10. CASE HelperStep(n)
  <2>1. pc' = pc
    BY <1>0, <1>10, HelperIs
  <2>2. CASE ElectorStep(n) \/ RenewLost(n)
    BY <1>0, <2>1, <2>2, ElectorIs DEF RunInv
  <2>3. ASSUME NEW s \in Slots,
               \/ WorkerStep(n, s)
               \/ GetNodeFails(n, s) \/ CordonOrDrainFails(n, s) \/ UncordonFails(n, s)
        PROVE  RunInv(n)'
    BY <1>0, <1>1, <2>1, <2>3, WorkerIs DEF NoLeftover
  <2> QED
    BY <1>0, <1>10, <2>2, <2>3, HelperIs
<1>11. CASE EnvironmentStep(n)
  <2>1. ASSUME NEW m \in Nodes, RequeueFires(n, m) PROVE RunInv(n)'
    BY <1>1, <2>1 DEF RequeueFires, vars
  <2>2. CASE Start(n)
    <3>1. pc[n] = "off" /\ run' = run /\ pc'[n] = "idle"
      BY <1>0, <2>2 DEF Start, vars, goto, DaemonRecords
    <3> QED
      BY <1>2, <3>1
  <2>3. CASE Reboot(n) \/ Crash(n)
    <3>1. ProcessGone(n)
      BY <2>3 DEF Reboot, Crash
    <3>2. run'[n] = "idle" /\ pc'[n] = "off"
      BY <1>0, <3>1, ProcessGoneIs, ProcessEndIs
    <3> QED
      BY <3>2 DEF RunInv
  <2>4. ASSUME NEW c \in Cfgs, NEW skip \in Skips, UpdateSpec(n, c, skip) PROVE RunInv(n)'
    BY <1>1, <2>4 DEF UpdateSpec, vars
  <2>5. CASE Delete(n)
    BY <1>1, <2>5 DEF Delete, vars
  <2> QED
    BY <1>11, <2>1, <2>2, <2>3, <2>4, <2>5 DEF EnvironmentStep
<1>12. ASSUME NEW s \in Slots, FunctionStep(n, s) PROVE RunInv(n)'
  <2>1. pc' = pc
    BY <1>12 DEF FunctionStep, UpdateDevice, UpdateDeviceFails, UpdatesEnd, MarkReboot, rebootNode,
                 rebootNodeFails, daemonOnly
  <2>2. UNCHANGED vars \/ \E b \in BOOLEAN : WorkEnd(n, s, b)
    BY <1>12 DEF FunctionStep, UpdateDevice, UpdateDeviceFails, UpdatesEnd, MarkReboot, rebootNode,
                 rebootNodeFails
  <2>3. run'[n] = run[n] /\ (run[n] = "renew" \/ UNCHANGED <<worker, cur, runErr>>)
    BY <1>0, <2>2, WorkerIs DEF vars, NoLeftover
  <2> QED
    BY <1>1, <2>1, <2>3
<1> QED
  BY <1>3, <1>4, <1>5, <1>6, <1>7, <1>8, <1>9, <1>10, <1>11, <1>12 DEF NodeStep, ReconcileStep

\* With its own requests only, all of this is kept of every other node.
LEMMA BaseSame ==
  ASSUME TypeOK, NEW m \in Nodes, Same(m), Own(m), RunInv(m), NoLeftover(m)
  PROVE  Own(m)' /\ RunInv(m)' /\ NoLeftover(m)'
<1>1. cur[m] \in Slots
  BY DEF TypeOK
<1> QED
  BY <1>1 DEF Same, HelperSame, DaemonSame, Own, RunInv, NoLeftover, Active

\* Every step that breaks no lead keeps BaseInv.
LEMMA BaseStep ==
  ASSUME Undisturbed, BaseInv, [DaemonNext]_daemonVars, LeadKept'
  PROVE  BaseInv'
<1>0. DaemonRecords /\ TypeOK /\ (~DeletesAllowed \/ Alone)
  BY DEF BaseInv, DaemonRecords, Undisturbed
<1>1. DaemonRecords'
  BY <1>0, DaemonTypeStep
<1>2. [Next]_vars
  BY DaemonIsHelperStep
<1>3. DrainInv'
  BY <1>0, <1>2, DrainStep DEF BaseInv
<1>4. \A n \in Nodes : NoLeftover(n)'
  BY <1>3 DEF DrainInv, DrainOnlyWhileLeader, NoLeftover, LeadKept
<1>5. ASSUME NEW m \in Nodes PROVE Own(m)' /\ RunInv(m)'
  <2>1. CASE UNCHANGED daemonVars
    <3>1. Same(m)
      BY <2>1 DEF daemonVars, daemonOnly, vars, Same, HelperSame, DaemonSame
    <3> QED
      BY <1>0, <3>1, BaseSame DEF BaseInv
  <2>2. ASSUME NEW n \in Nodes, NodeStep(n) PROVE Own(m)' /\ RunInv(m)'
    <3>1. CASE m = n
      <4>1. Own(n)'
        <5>1. CASE ~DeletesAllowed
          BY <2>2, <5>1, OwnStep
        <5>2. CASE Alone
          BY <1>1, <5>2, ActFields DEF Alone, Own, DaemonRecords, Copy
        <5> QED
          BY <1>0, <5>1, <5>2
      <4> QED
        BY <2>2, <3>1, <4>1, RunInvStep
    <3>2. CASE m # n
      BY <1>0, <2>2, <3>2, OthersSame, BaseSame DEF BaseInv
    <3> QED
      BY <3>1, <3>2
  <2> QED
    BY <2>1, <2>2 DEF DaemonNext, NodeStep
<1> QED
  BY <1>1, <1>3, <1>4, <1>5 DEF BaseInv

\* It holds at first.
LEMMA BaseInit == ASSUME DaemonInit PROVE BaseInv
<1>1. DaemonRecords /\ Init
  BY DaemonTypeInit DEF DaemonInit
<1>2. LeadKept /\ DrainInv
  BY <1>1, EndedType
  DEF Init, LeadKept, DrainInv, CordonInv, ReturnInv, DrainOnlyWhileLeader, Active, Ended
<1>3. \A n \in Nodes : NoLeftover(n) /\ RunInv(n)
  <2>1. /\ \A n \in Nodes : run[n] = "idle" /\ pc[n] = "off"
        /\ \A n \in Nodes, s \in Slots : worker[n][s].pc = "done"
    BY <1>1 DEF Init, DaemonInit, Ended
  <2> QED
    BY <2>1 DEF NoLeftover, RunInv, Active
<1>4. \A n \in Nodes : Own(n)
  BY EmptyRecords DEF DaemonInit, Own
<1> QED
  BY <1>1, <1>2, <1>3, <1>4 DEF BaseInv

-----------------------------------------------------------------------------
(* Unfinished updates *)

\* The function runs until it ends by itself; everything else happens before or
\* after it.
LEMMA NotWhileWorking ==
  ASSUME NEW n \in Nodes, NEW s \in Slots,
         WorkerStep(n, s) \/ GetNodeFails(n, s) \/ CordonOrDrainFails(n, s) \/ UncordonFails(n, s)
  PROVE  worker[n][s].pc # "work"
BY DEF WorkerStep, GetNode, GetNodeCancelled, GetNodeFails, Cordon, Drain, CordonOrDrainFails,
       UncordonNode, UncordonFails, Step, Fail, Retry

\* The end of the function.
LEMMA WorkEndIs ==
  ASSUME TypeOK, NEW n \in Nodes, NEW s \in Slots, NEW b \in BOOLEAN, WorkEnd(n, s, b)
  PROVE  /\ worker[n][s].pc = "work" /\ worker'[n][s].pc \in {"ungetnode", "done"}
         /\ ~b => worker'[n][s].pc = "done"
         /\ worker'[n][s].err = worker[n][s].err /\ cordoned' = cordoned
<1>1. PICK w \in Worker : w = worker[n][s]
  BY DEF TypeOK
<1>2. PICK p \in {"ungetnode", "done"} : p = IF w.drain /\ b THEN "ungetnode" ELSE "done"
  OBVIOUS
<1>3. worker'[n][s] = [w EXCEPT !.pc = p, !.keep = ~b]
  BY <1>1, <1>2, SetWorkerEffect DEF WorkEnd
<1>4. worker'[n][s].pc = p /\ worker'[n][s].err = w.err
  BY <1>3 DEF Worker
<1> QED
  BY <1>1, <1>2, <1>4 DEF WorkEnd

\* The steps of Reconcile and PendingInv.
LEMMA PendingReconcile ==
  ASSUME BaseInv, "status" \notin Faults, NEW n \in Nodes, PendingInv(n), ReconcileStep(n)
  PROVE  PendingInv(n)'
<1>0. /\ DaemonRecords /\ TypeOK /\ Own(n) /\ NoLeftover(n) /\ nc[n] \in Copy /\ cur[n] \in Slots
      /\ rep[n] \in RepRecord
  BY DEF BaseInv, DaemonRecords, TypeOK
<1>1. ASSUME pc'[n] \notin {"idle", "report"}, UNCHANGED <<act, rebooting>>,
             \A s \in Slots : worker'[n][s] = worker[n][s] PROVE PendingInv(n)'
  BY <1>1 DEF PendingInv
<1>2. ASSUME pc'[n] = "report",
             \/ rep'[n].reason = "Failed" /\ rep'[n].later
             \/ rep'[n].reason \in {"Succeeded", "NotRequested"},
             \A s \in Slots : act'[n][s].reboot => act'[n][s] = act[n][s],
             UNCHANGED rebooting, \A s \in Slots : worker'[n][s] = worker[n][s]
      PROVE  PendingInv(n)'
  BY <1>2 DEF PendingInv
<1>3. ASSUME NEW m \in Nodes, ReconcileNotFound(n, m) PROVE PendingInv(n)'
  <2>1. n \in queue[n] /\ queue'[n] \in {queue[n], queue[n] \cup {n}}
    BY <1>0, <1>3 DEF ReconcileNotFound, CanReconcile, Own, DaemonRecords
  <2>2. UNCHANGED <<vars, pc, rep, act, rebooting>> /\ pc[n] = "idle"
    BY <1>3 DEF ReconcileNotFound, CanReconcile
  <2> QED
    BY <2>1, <2>2 DEF PendingInv, vars
<1>4. ASSUME NEW m \in Nodes, ReconcileGet(n, m) PROVE PendingInv(n)'
  <2>1. \/ (goto(n, "finish") \/ goto(n, "begin")) \/ report(n, "NotRequested", FALSE)
    BY <1>4 DEF ReconcileGet
  <2>2. pc'[n] \in {"finish", "begin"} \/ (pc'[n] = "report" /\ rep'[n].reason = "NotRequested")
    BY <1>0, <2>1, GotoIs, ReportIs DEF PCs, Reasons
  <2> QED
    BY <1>1, <1>2, <1>4, <2>2 DEF ReconcileGet, vars
<1>5. CASE Finish(n)
  <2>1. pc'[n] = "report" /\ rep'[n].reason = "Succeeded"
    BY <1>0, <1>5, ReportIs DEF Finish, Reasons
  <2> QED
    BY <1>2, <1>5, <2>1 DEF Finish, Uncordon
<1>6. CASE PrepareFails(n) \/ ConfigureNodeRejected(n)
  <2>1. pc'[n] = "report" /\ rep'[n].reason = "Failed" /\ rep'[n].later
    BY <1>0, <1>6, ReportIs DEF PrepareFails, ConfigureNodeRejected, Reasons
  <2> QED
    BY <1>2, <1>6, <2>1 DEF PrepareFails, ConfigureNodeRejected, vars
<1>7. CASE FinishFails(n)
  <2>1. later'[n] = later[n] \cup {n} /\ UNCHANGED <<vars, enc, queue, act, rebooting>>
    BY <1>0, <1>7 DEF FinishFails, DaemonRecords, Own
  <2>2. pc'[n] = "idle"
    BY <1>0, <1>7, ReturnIs DEF FinishFails
  <2> QED
    BY <2>1, <2>2 DEF PendingInv, vars
<1>8. CASE Begin(n)
  <2>1. pc'[n] = "prepare"
    BY <1>0, <1>8, GotoIs DEF Begin, PCs
  <2> QED
    BY <1>1, <1>8, <2>1 DEF Begin, vars
<1>9. CASE Prepare(n)
  <2>1. PICK d \in BOOLEAN : d = ~nc[n].skip
    OBVIOUS
  <2>2. \A s \in Slots : worker'[n][s] = worker[n][s]
    BY <1>0, <1>9, <2>1, RunIs DEF Prepare
  <2>3. pc'[n] \in {"run", "rejected"}
    BY <1>0, <1>9, GotoIs DEF Prepare, PCs
  <2> QED
    BY <1>1, <1>9, <2>2, <2>3 DEF Prepare
<1>10. CASE ConfigureNodeReturn(n)
  <2> DEFINE a == act[n][cur[n]]
             err == runErr[n] \/ a.err
  <2>1. \A s \in Slots : act'[n][s].reboot => act'[n][s] = act[n][s]
    <3>1. \A s \in Slots : act'[n][s] \in {act[n][s], NoAct(n)}
      BY <1>0, <1>10 DEF ConfigureNodeReturn, DaemonRecords
    <3> QED
      BY <3>1, EmptyRecords
  <2>2. UNCHANGED <<vars, enc, queue, later, rebooting>> /\ run[n] = "idle"
    BY <1>10 DEF ConfigureNodeReturn
  <2>3. CASE ~err /\ a.reboot /\ return(n)
    <3>1. rebooting[n]
      <4>1. worker[n][cur[n]].pc # "work"
        BY <1>0, <2>2 DEF NoLeftover, Active
      <4> QED
        BY <1>0, <2>3, <4>1 DEF PendingInv
    <3>2. pc'[n] = "idle"
      BY <1>0, <2>3, ReturnIs
    <3> QED
      BY <2>1, <2>2, <3>1, <3>2 DEF PendingInv, vars
  <2>4. CASE report(n, IF err THEN "Failed" ELSE "Succeeded", err)
    <3>1. PICK b \in BOOLEAN : b = err
      OBVIOUS
    <3>2. PICK r \in Reasons : r = IF err THEN "Failed" ELSE "Succeeded"
      BY DEF Reasons
    <3>3. report(n, r, b)
      BY <2>4, <3>1, <3>2
    <3>4. pc'[n] = "report" /\ rep'[n].reason = r /\ rep'[n].later = b
      BY <1>0, <3>3, ReportIs
    <3> QED
      BY <1>2, <2>1, <2>2, <3>1, <3>2, <3>4 DEF vars
  <2> QED
    BY <1>10, <2>3, <2>4 DEF ConfigureNodeReturn
<1>11. CASE Report(n)
  <2>1. updateCondition(nc[n], rep[n].reason)
    BY <1>11 DEF Report, updateConditionLost, Fault
  <2>2. rep[n].reason \in Reasons \cup {None} /\ nc[n].m = n
    BY <1>0 DEF RepRecord, Own
  <2>3. IF enc[n].exists THEN enc'[n].reason = rep[n].reason ELSE enc'[n] = enc[n]
    BY <1>0, <2>1, <2>2, ConditionIs
  <2>4. enc'[n].exists = enc[n].exists
    BY <1>0, <2>1, <2>2, ConditionIs DEF SpecKept
  <2>5. pc[n] = "report" /\ pc'[n] = "idle" /\ UNCHANGED <<vars, queue, act, rebooting>>
    BY <1>0, <1>11, ReturnIs DEF Report
  <2>6. rep[n].later => n \in later'[n]
    BY <1>0, <1>11, <2>2 DEF Report, DaemonRecords
  <2> QED
    BY <2>3, <2>4, <2>5, <2>6 DEF PendingInv, vars, Unfinished
<1> QED
  BY <1>3, <1>4, <1>5, <1>6, <1>7, <1>8, <1>9, <1>10, <1>11 DEF ReconcileStep

\* The workers, the rest of the system and PendingInv.
LEMMA PendingOthers ==
  ASSUME BaseInv, NEW n \in Nodes, PendingInv(n),
         \/ StartLeading(n) \/ HelperStep(n) \/ EnvironmentStep(n)
         \/ \E s \in Slots : FunctionStep(n, s)
  PROVE  PendingInv(n)'
<1>0. DaemonRecords /\ TypeOK /\ Own(n) /\ NoLeftover(n) /\ RunInv(n)
  BY DEF BaseInv, DaemonRecords
<1>1. CASE StartLeading(n)
  <2>1. /\ UNCHANGED <<enc, queue, later, pc, rep, rebooting>> /\ ~act'[n][cur'[n]].reboot
        /\ \A r \in Slots : r # cur'[n] => act'[n][r] = act[n][r]
    BY <1>0, <1>1, StartLeadingIs DEF ActSteps
  <2>2. \A r \in Slots : r # cur'[n] => worker'[n][r] = worker[n][r]
    BY <1>0, <1>1, StartLeadingIs, AcquireIs
  <2> QED
    BY <2>1, <2>2 DEF PendingInv
<1>2. CASE HelperStep(n)
  <2>1. UNCHANGED <<enc, queue, later, pc, rep, act, rebooting>>
    BY <1>0, <1>2, HelperIs
  <2>2. \A s \in Slots : worker'[n][s].pc = worker[n][s].pc \/ worker[n][s].pc # "work"
    BY <1>0, <1>2, HelperIs, ElectorIs, WorkerIs, NotWhileWorking
  <2> QED
    BY <2>1, <2>2 DEF PendingInv
<1>3. ASSUME NEW m \in Nodes, RequeueFires(n, m) PROVE PendingInv(n)'
  <2>1. n \in queue'[n] /\ UNCHANGED <<vars, pc, rep, act, rebooting>>
    BY <1>0, <1>3 DEF RequeueFires, DaemonRecords, Own
  <2> QED
    BY <2>1 DEF PendingInv, vars
<1>4. CASE Start(n)
  <2>1. queue'[n] = {n} /\ pc'[n] = "idle" /\ UNCHANGED <<vars, rep, act, rebooting>>
    BY <1>0, <1>4, GotoIs DEF Start, DaemonRecords, PCs
  <2> QED
    BY <2>1 DEF PendingInv, vars
<1>5. CASE Reboot(n) \/ Crash(n)
  <2>1. ProcessGone(n)
    BY <1>5 DEF Reboot, Crash
  <2>2. pc'[n] = "off" /\ \A s \in Slots : ~act'[n][s].reboot
    BY <1>0, <2>1, ProcessGoneIs, EmptyRecords
  <2> QED
    BY <2>2 DEF PendingInv
<1>6. ASSUME NEW c \in Cfgs, NEW skip \in Skips, UpdateSpec(n, c, skip) PROVE PendingInv(n)'
  <2>1. /\ enc[n].exists /\ enc'[n].reason = enc[n].reason /\ queue[n] \subseteq queue'[n]
        /\ UNCHANGED <<vars, later, pc, rep, act, rebooting>>
    BY <1>0, <1>6, UpdateSpecIs DEF UpdateSpec
  <2> QED
    BY <2>1 DEF PendingInv, vars
<1>7. CASE Delete(n)
  <2>1. ~enc'[n].exists /\ UNCHANGED <<vars, pc, rep, act, rebooting>>
    BY <1>0, <1>7, EmptyRecords DEF Delete, DaemonRecords
  <2> QED
    BY <2>1 DEF PendingInv, vars
<1>8. ASSUME NEW s \in Slots, FunctionStep(n, s) PROVE PendingInv(n)'
  <2>0. pc[n] \notin {"idle", "report"} /\ UNCHANGED <<queue, later, pc, rep>>
    <3>1. Active(n, s)
      BY <1>8 DEF FunctionStep, UpdateDevice, UpdateDeviceFails, UpdatesEnd, MarkReboot, rebootNode,
                  rebootNodeFails, Working, WorkEnd, Active
    <3>2. pc[n] \notin {"idle", "report"}
      BY <1>0, <3>1 DEF NoLeftover, RunInv
    <3> QED
      BY <1>8, <3>2 DEF FunctionStep, UpdateDevice, UpdateDeviceFails, UpdatesEnd, MarkReboot,
                        rebootNode, rebootNodeFails, daemonOnly
  <2>1. ASSUME \A r \in Slots \ {s} : act'[n][r] = act[n][r] /\ worker'[n][r] = worker[n][r],
               rebooting[n] => rebooting'[n],
               act'[n][s].reboot /\ ~act'[n][s].err /\ worker'[n][s].pc # "work" => rebooting'[n]
        PROVE  PendingInv(n)'
    BY <2>0, <2>1 DEF PendingInv
  <2>2. ASSUME NEW d \in Devices, UpdateDevice(n, s, d) PROVE PendingInv(n)'
    <3>1. /\ worker[n][s].pc = "work" /\ UNCHANGED <<vars, rebooting>>
          /\ \A r \in Slots \ {s} : act'[n][r] = act[n][r]
      BY <1>0, <2>2, UpdateDeviceIs DEF ActSteps
    <3> QED
      BY <2>1, <3>1 DEF vars
  <2>3. ASSUME NEW d \in Devices, UpdateDeviceFails(n, s, d) PROVE PendingInv(n)'
    <3>1. ActSteps(n, s, act[n][s].todo, act[n][s].reboot, TRUE, act[n][s].marked)
      BY <1>0, <2>3, UpdateFailsIs
    <3>2. UNCHANGED <<vars, rebooting>>
      BY <2>3 DEF UpdateDeviceFails
    <3> QED
      BY <2>1, <3>1, <3>2 DEF ActSteps, vars
  <2>4. CASE UpdatesEnd(n, s)
    <3>1. UNCHANGED <<act, rebooting>> /\ (act[n][s].err \/ ~act[n][s].reboot) /\ WorkEnd(n, s, TRUE)
      BY <2>4 DEF UpdatesEnd, daemonOnly
    <3> QED
      BY <1>0, <2>1, <3>1, WorkerIs
  <2>5. CASE MarkReboot(n, s)
    <3>1. ActSteps(n, s, act[n][s].todo, act[n][s].reboot, act[n][s].err, TRUE)
      BY <1>0, <2>5, MarkRebootIs
    <3>2. UNCHANGED <<vars, rebooting>> /\ worker[n][s].pc = "work"
      BY <2>5 DEF MarkReboot, Working
    <3> QED
      BY <2>1, <3>1, <3>2 DEF ActSteps, vars
  <2>6. CASE rebootNode(n, s)
    <3>1. rebooting'[n] /\ UNCHANGED act /\ WorkEnd(n, s, FALSE)
      BY <1>0, <2>6 DEF rebootNode, DaemonRecords
    <3> QED
      BY <1>0, <2>1, <3>1, WorkerIs
  <2>7. CASE rebootNodeFails(n, s)
    <3>1. /\ ActSteps(n, s, act[n][s].todo, act[n][s].reboot, TRUE, act[n][s].marked)
          /\ WorkEnd(n, s, FALSE) /\ UNCHANGED rebooting
      BY <1>0, <2>7, RebootFailsIs
    <3>2. act'[n][s].err /\ \A r \in Slots \ {s} : act'[n][r] = act[n][r]
      BY <3>1 DEF ActSteps
    <3>3. \A r \in Slots \ {s} : worker'[n][r] = worker[n][r]
      BY <1>0, <3>1, WorkerIs
    <3> QED
      BY <2>1, <3>1, <3>2, <3>3
  <2> QED
    BY <1>8, <2>2, <2>3, <2>4, <2>5, <2>6, <2>7 DEF FunctionStep
<1> QED
  BY <1>1, <1>2, <1>3, <1>4, <1>5, <1>6, <1>7, <1>8 DEF EnvironmentStep

\* Every step keeps PendingInv of every node.
LEMMA PendingStep ==
  ASSUME Undisturbed, "status" \notin Faults, BaseInv, \A n \in Nodes : PendingInv(n),
         [DaemonNext]_daemonVars, NEW m \in Nodes
  PROVE  PendingInv(m)'
<1>0. DaemonRecords /\ (~DeletesAllowed \/ Alone) /\ PendingInv(m)
  BY DEF BaseInv, Undisturbed
<1>1. ASSUME Same(m) PROVE PendingInv(m)'
  BY <1>0, <1>1 DEF Same, HelperSame, DaemonSame, PendingInv
<1>2. CASE UNCHANGED daemonVars
  BY <1>1, <1>2 DEF daemonVars, daemonOnly, vars, Same, HelperSame, DaemonSame
<1>3. ASSUME NEW n \in Nodes, NodeStep(n) PROVE PendingInv(m)'
  <2>1. CASE m = n
    BY <1>3, <2>1, PendingReconcile, PendingOthers DEF NodeStep
  <2>2. CASE m # n
    BY <1>0, <1>1, <1>3, <2>2, OthersSame DEF BaseInv
  <2> QED
    BY <2>1, <2>2
<1> QED
  BY <1>2, <1>3 DEF DaemonNext, NodeStep

\* As long as the conditions of updates are not lost on the way to the API server
\* and no lead is broken, an update that is not finished is always going to be
\* taken up again: after every failure, crash, reboot and change of the spec.
THEOREM UnfinishedPending ==
  Undisturbed /\ "status" \notin Faults /\ DaemonSpec /\ []LeadKept => []UnfinishedIsPending
<1> SUFFICES ASSUME Undisturbed, "status" \notin Faults
             PROVE  DaemonSpec /\ []LeadKept => []UnfinishedIsPending
  OBVIOUS
<1> DEFINE Inv == BaseInv /\ \A n \in Nodes : PendingInv(n)
<1>1. DaemonInit => Inv
  <2> SUFFICES ASSUME DaemonInit PROVE Inv
    OBVIOUS
  <2>1. \A n \in Nodes : PendingInv(n)
    BY EmptyRecords DEF DaemonInit, PendingInv
  <2> QED
    BY <2>1, BaseInit
<1>2. Inv /\ [DaemonNext]_daemonVars /\ LeadKept' => Inv'
  <2> SUFFICES ASSUME Inv, [DaemonNext]_daemonVars, LeadKept' PROVE Inv'
    OBVIOUS
  <2>1. BaseInv'
    BY BaseStep
  <2>2. \A n \in Nodes : PendingInv(n)'
    BY PendingStep
  <2> QED
    BY <2>1, <2>2
<1>3. Inv => UnfinishedIsPending
  BY DEF PendingInv, UnfinishedIsPending, Unfinished
<1> QED
  BY <1>1, <1>2, <1>3, PTL DEF DaemonSpec


-----------------------------------------------------------------------------
(* Reboots *)

\* Nobody changes or deletes the object of a daemon that works for it, and no
\* Reconcile starts between the order of a reboot and the reboot.
Quiet == ~EditAnyTime /\ ~DeletesAllowed /\ RebootPrompt

\* The object as created says what one that is not there says: drain.
LEMMA CreateKeepsSkip ==
  ASSUME DaemonRecords, NEW n \in Nodes, RebootInv(n), CreateEmptyNodeConfigIfNeeded(n)
  PROVE  enc'[n].exists /\ enc'[n].skip = enc[n].skip
<1>1. EmptyObject(TRUE).exists /\ EmptyObject(TRUE).skip = FALSE
  BY EmptyRecords
<1>2. enc'[n] = IF enc[n].exists THEN enc[n] ELSE EmptyObject(TRUE)
  BY CreateIs
<1>3. ~enc[n].exists => enc[n].skip = FALSE
  BY DEF RebootInv
<1> QED
  BY <1>1, <1>2, <1>3

\* The steps of Reconcile and RebootInv: only Finish uncordons the node, and it
\* waits for the reboot.
LEMMA RebootReconcile ==
  ASSUME BaseInv, RebootPrompt, NEW n \in Nodes, RebootInv(n), ReconcileStep(n)
  PROVE  RebootInv(n)'
<1>0. /\ DaemonRecords /\ TypeOK /\ Own(n) /\ NoLeftover(n) /\ RunInv(n)
      /\ nc[n] \in Copy /\ nc[n].m = n /\ cur[n] \in Slots /\ rep[n] \in RepRecord
  BY DEF BaseInv, DaemonRecords, TypeOK, Own
<1> DEFINE Kept == /\ enc'[n].skip = enc[n].skip /\ enc'[n].exists = enc[n].exists
                   /\ rebooting'[n] = rebooting[n]
           Still == /\ run'[n] = run[n] /\ drain'[n] = drain[n] /\ cordoned'[n] = cordoned[n]
                    /\ \A s \in Slots : worker'[n][s] = worker[n][s]
<1>1. ASSUME Kept, Still, pc'[n] \in {"idle", "report"} PROVE RebootInv(n)'
  BY <1>1 DEF RebootInv, Active
<1>2. ASSUME NEW m \in Nodes, ReconcileNotFound(n, m) PROVE RebootInv(n)'
  <2>1. enc'[n].exists /\ enc'[n].skip = enc[n].skip
    BY <1>0, <1>2, CreateKeepsSkip DEF ReconcileNotFound
  <2>2. UNCHANGED <<vars, pc, nc, rebooting>>
    BY <1>2 DEF ReconcileNotFound
  <2> QED
    BY <2>1, <2>2 DEF RebootInv, Active, vars
<1>3. ASSUME NEW m \in Nodes, ReconcileGet(n, m) PROVE RebootInv(n)'
  <2>1. m = n /\ pc[n] = "idle" /\ ~rebooting[n] /\ UNCHANGED <<vars, enc, rebooting>>
    BY <1>0, <1>3 DEF ReconcileGet, CanReconcile, Own
  <2>2. nc'[n].skip = enc[n].skip
    BY <1>0, <1>3, <2>1, ReadIs DEF ReconcileGet, DaemonRecords
  <2>3. \/ (goto(n, "finish") \/ goto(n, "begin")) \/ report(n, "NotRequested", FALSE)
    BY <1>3 DEF ReconcileGet
  <2>4. pc'[n] \in {"finish", "begin", "report"}
    BY <1>0, <2>3, GotoIs, ReportIs DEF PCs, Reasons
  <2> QED
    BY <2>1, <2>2, <2>4 DEF RebootInv, Active, vars
<1>4. CASE Finish(n)
  <2>1. pc[n] = "finish" /\ pc'[n] = "report"
    BY <1>0, <1>4, ReportIs DEF Finish, Reasons
  <2>2. ~rebooting[n] /\ UNCHANGED <<enc, rebooting, run, drain, worker>>
    BY <1>4, <2>1 DEF RebootInv, Finish, Uncordon
  <2> QED
    BY <2>1, <2>2 DEF RebootInv, Active
<1>5. CASE PrepareFails(n) \/ ConfigureNodeRejected(n)
  <2>1. pc'[n] = "report"
    BY <1>0, <1>5, ReportIs DEF PrepareFails, ConfigureNodeRejected, Reasons
  <2> QED
    BY <1>1, <1>5, <2>1 DEF PrepareFails, ConfigureNodeRejected, vars
<1>6. CASE FinishFails(n)
  <2>1. pc'[n] = "idle"
    BY <1>0, <1>6, ReturnIs DEF FinishFails
  <2> QED
    BY <1>1, <1>6, <2>1 DEF FinishFails, vars
<1>7. CASE Begin(n)
  <2>1. pc[n] = "begin" /\ pc'[n] = "prepare" /\ UNCHANGED <<vars, rebooting>>
    BY <1>0, <1>7, GotoIs DEF Begin, PCs
  <2>2. \/ updateCondition(nc[n], "InProgress") /\ nc'[n] = Reread(nc[n])
        \/ UNCHANGED enc /\ nc'[n] \in {nc[n], Reread(nc[n])}
    BY <1>0, <1>7 DEF Begin, updateConditionLost, DaemonRecords
  <2>3. Kept
    BY <1>0, <2>1, <2>2, ConditionIs DEF SpecKept, Reasons
  <2>4. nc[n].skip = enc[n].skip
    BY <2>1 DEF RebootInv
  <2>5. Reread(nc[n]).skip = enc[n].skip
    BY <1>0, <2>4, RereadIs
  <2>6. nc'[n].skip = enc[n].skip
    BY <2>2, <2>4, <2>5
  <2> QED
    BY <2>1, <2>3, <2>6 DEF RebootInv, Active, vars
<1>8. CASE Prepare(n)
  <2>1. PICK d \in BOOLEAN : d = ~nc[n].skip
    OBVIOUS
  <2>2. pc[n] = "prepare" /\ UNCHANGED <<enc, nc, rebooting>>
    BY <1>8 DEF Prepare
  <2>3. d = ~enc[n].skip /\ ~rebooting[n] /\ nc[n].skip = enc[n].skip
    BY <2>1, <2>2 DEF RebootInv
  <2>4. RunStart(n, d) \/ RunRejected(n, d)
    BY <1>8, <2>1 DEF Prepare
  <2>5. drain'[n] = d /\ \A s \in Slots : worker'[n][s] = worker[n][s]
    BY <1>0, <2>4, RunIs
  <2> QED
    BY <2>2, <2>3, <2>5 DEF RebootInv, Active
<1>9. CASE ConfigureNodeReturn(n)
  <2>1. UNCHANGED <<vars, enc, rebooting>>
    BY <1>9 DEF ConfigureNodeReturn
  <2>2. pc'[n] \in {"idle", "report"}
    BY <1>0, <1>9 DEF ConfigureNodeReturn, return, report, goto, DaemonRecords
  <2> QED
    BY <1>1, <2>1, <2>2 DEF vars
<1>10. CASE Report(n)
  <2>1. updateCondition(nc[n], rep[n].reason) \/ UNCHANGED enc
    BY <1>10 DEF Report, updateConditionLost
  <2>2. rep[n].reason \in Reasons \cup {None}
    BY <1>0 DEF RepRecord
  <2>3. Kept
    BY <1>0, <1>10, <2>1, <2>2, ConditionIs DEF SpecKept, Report
  <2>4. pc'[n] = "idle" /\ UNCHANGED vars
    BY <1>0, <1>10, ReturnIs DEF Report
  <2> QED
    BY <1>1, <2>3, <2>4 DEF vars
<1> QED
  BY <1>2, <1>3, <1>4, <1>5, <1>6, <1>7, <1>8, <1>9, <1>10 DEF ReconcileStep

\* The workers, the rest of the system and RebootInv: the worker that orders the
\* reboot drained the node, and ends.
LEMMA RebootOthers ==
  ASSUME BaseInv, Quiet, NEW n \in Nodes, RebootInv(n),
         \/ StartLeading(n) \/ HelperStep(n) \/ EnvironmentStep(n)
         \/ \E s \in Slots : FunctionStep(n, s)
  PROVE  RebootInv(n)'
<1>0. DaemonRecords /\ TypeOK /\ Own(n) /\ NoLeftover(n) /\ RunInv(n) /\ CordonInv /\ broken = {}
  BY DEF BaseInv, DaemonRecords, LeadKept, DrainInv
<1>1. CASE StartLeading(n)
  <2>1. UNCHANGED <<enc, pc, nc, rebooting>> /\ Acquire(n)
    BY <1>0, <1>1, StartLeadingIs
  <2>2. /\ run[n] = "acquire" /\ run'[n] = "renew" /\ drain'[n] = drain[n]
        /\ cur'[n] \in Slots /\ worker'[n][cur'[n]].drain = drain[n]
        /\ \A r \in Slots : r # cur'[n] => worker'[n][r] = worker[n][r]
    BY <1>0, <2>1, AcquireIs
  <2>3. drain[n] = ~enc[n].skip /\ ~rebooting[n]
    BY <1>0, <2>2 DEF RebootInv, RunInv
  <2>4. \A r \in Slots : Active(n, r)' => worker'[n][r].drain = ~enc[n].skip
    BY <2>2, <2>3 DEF RebootInv, Active
  <2> QED
    BY <2>1, <2>2, <2>3, <2>4 DEF RebootInv
<1>2. CASE HelperStep(n)
  <2>1. UNCHANGED <<enc, pc, nc, rebooting>>
    BY <1>0, <1>2, HelperIs
  <2>2. CASE ElectorStep(n) \/ RenewLost(n)
    <3>1. /\ drain'[n] = drain[n] /\ cordoned'[n] = cordoned[n]
          /\ \A s \in Slots : worker'[n][s].pc = worker[n][s].pc /\ worker'[n][s].drain = worker[n][s].drain
          /\ run'[n] # "acquire" \/ run'[n] = run[n]
          /\ run[n] = "idle" => run'[n] = "idle"
      BY <1>0, <2>2, ElectorIs
    <3> QED
      BY <2>1, <3>1 DEF RebootInv, Active
  <2>3. ASSUME NEW s \in Slots,
               \/ WorkerStep(n, s)
               \/ GetNodeFails(n, s) \/ CordonOrDrainFails(n, s) \/ UncordonFails(n, s)
        PROVE  RebootInv(n)'
    <3>1. /\ run'[n] = run[n] /\ drain'[n] = drain[n] /\ Active(n, s)
          /\ \A r \in Slots : r # s => worker'[n][r] = worker[n][r]
          /\ worker'[n][s].drain = worker[n][s].drain
      BY <1>0, <2>3, WorkerIs
    <3>2. ~rebooting[n]
      BY <3>1 DEF RebootInv
    <3>3. \A r \in Slots : Active(n, r)' => worker'[n][r].drain = ~enc[n].skip
      BY <3>1 DEF RebootInv, Active
    <3> QED
      BY <2>1, <3>1, <3>2, <3>3 DEF RebootInv
  <2> QED
    BY <1>0, <1>2, <2>2, <2>3, HelperIs
<1>3. ASSUME NEW m \in Nodes, RequeueFires(n, m) PROVE RebootInv(n)'
  BY <1>3 DEF RequeueFires, RebootInv, Active, vars
<1>4. CASE Start(n)
  <2>1. pc[n] = "off" /\ pc'[n] = "idle" /\ ~rebooting[n] /\ UNCHANGED <<vars, nc, rebooting>>
    BY <1>0, <1>4, GotoIs DEF Start, PCs, Quiet
  <2>2. enc'[n].exists /\ enc'[n].skip = enc[n].skip
    BY <1>0, <1>4, CreateKeepsSkip DEF Start
  <2> QED
    BY <2>1, <2>2 DEF RebootInv, Active, vars
<1>5. CASE Reboot(n) \/ Crash(n)
  <2>1. ProcessGone(n) /\ UNCHANGED enc /\ (rebooting'[n] => rebooting[n])
    BY <1>0, <1>5 DEF Reboot, Crash, DaemonRecords
  <2>2. pc'[n] = "off" /\ ProcessEnd(n)
    BY <1>0, <2>1, ProcessGoneIs
  <2>3. run'[n] = "idle" /\ cordoned'[n] = cordoned[n] /\ \A s \in Slots : worker'[n][s].pc = "done"
    BY <1>0, <2>2, ProcessEndIs
  <2> QED
    BY <2>1, <2>2, <2>3 DEF RebootInv, Active
<1>6. ASSUME NEW c \in Cfgs, NEW skip \in Skips, UpdateSpec(n, c, skip) PROVE RebootInv(n)'
  <2>1. pc[n] = "idle" /\ ~rebooting[n] /\ ~Draining(n) /\ UNCHANGED <<vars, pc, nc, rebooting>>
    BY <1>6 DEF UpdateSpec, Settled, Quiet
  <2>2. enc'[n].exists
    BY <1>0, <1>6, UpdateSpecIs
  <2> QED
    BY <2>1, <2>2 DEF RebootInv, Active, Draining, vars
<1>7. ~Delete(n)
  BY DEF Delete, Quiet
<1>8. ASSUME NEW s \in Slots, FunctionStep(n, s) PROVE RebootInv(n)'
  <2>0. Active(n, s) /\ ~rebooting[n] /\ UNCHANGED <<pc, nc>>
    <3>1. Active(n, s)
      BY <1>8 DEF FunctionStep, UpdateDevice, UpdateDeviceFails, UpdatesEnd, MarkReboot, rebootNode,
                  rebootNodeFails, Working, WorkEnd, Active
    <3> QED
      BY <1>8, <3>1 DEF FunctionStep, UpdateDevice, UpdateDeviceFails, UpdatesEnd, MarkReboot,
                        rebootNode, rebootNodeFails, daemonOnly, RebootInv
  <2>1. enc'[n].exists = enc[n].exists /\ enc'[n].skip = enc[n].skip
    <3>1. CASE UNCHANGED enc
      BY <3>1
    <3>2. CASE MarkReboot(n, s)
      <4>1. act[n][s] \in ActRecord
        BY <1>0 DEF DaemonRecords
      <4>2. act[n][s].nc \in Copy /\ act[n][s].nc.m = n
        BY <1>0, <4>1, ActFields DEF Own
      <4>3. updateCondition(act[n][s].nc, "PostUpdateReboot") \/ UNCHANGED enc
        BY <1>0, <3>2, MarkRebootIs
      <4> QED
        BY <1>0, <4>2, <4>3, ConditionIs DEF SpecKept, Reasons
    <3> QED
      BY <1>8, <3>1, <3>2 DEF FunctionStep, UpdateDevice, UpdateDeviceFails, UpdatesEnd, rebootNode,
                              rebootNodeFails, daemonOnly
  <2>2. CASE UNCHANGED <<vars, rebooting>>
    BY <2>0, <2>1, <2>2 DEF RebootInv, Active, vars
  <2>3. ASSUME NEW b \in BOOLEAN, WorkEnd(n, s, b), UNCHANGED rebooting PROVE RebootInv(n)'
    <3>1. /\ run'[n] = run[n] /\ drain'[n] = drain[n]
          /\ \A r \in Slots : r # s => worker'[n][r] = worker[n][r]
          /\ worker'[n][s].drain = worker[n][s].drain
      BY <1>0, <2>3, WorkerIs
    <3>2. \A r \in Slots : Active(n, r)' => worker'[n][r].drain = ~enc[n].skip
      BY <2>0, <3>1 DEF RebootInv, Active
    <3> QED
      BY <2>0, <2>1, <2>3, <3>1, <3>2 DEF RebootInv
  <2>4. CASE rebootNode(n, s)
    <3>1. WorkEnd(n, s, FALSE) /\ worker[n][s].pc = "work"
      BY <2>4 DEF rebootNode, Working
    <3>2. /\ run'[n] = run[n] /\ drain'[n] = drain[n]
          /\ \A r \in Slots : r # s => worker'[n][r] = worker[n][r]
      BY <1>0, <3>1, WorkerIs
    <3>3. worker'[n][s].pc = "done" /\ cordoned' = cordoned
      BY <1>0, <3>1, WorkEndIs
    <3>4. \A r \in Slots : ~Active(n, r)'
      BY <1>0, <2>0, <3>2, <3>3 DEF NoLeftover, Active
    <3>5. run[n] = "renew" /\ pc[n] = "run"
      BY <1>0, <2>0 DEF NoLeftover, RunInv
    <3>6. cordoned[n] \/ enc[n].skip
      BY <1>0, <2>0, <3>1 DEF CordonInv, RebootInv
    <3> QED
      BY <2>0, <2>1, <3>2, <3>3, <3>4, <3>5, <3>6 DEF RebootInv
  <2> QED
    BY <1>8, <2>2, <2>3, <2>4 DEF FunctionStep, UpdateDevice, UpdateDeviceFails, UpdatesEnd, MarkReboot,
                                  rebootNodeFails, daemonOnly
<1> QED
  BY <1>1, <1>2, <1>3, <1>4, <1>5, <1>6, <1>7, <1>8 DEF EnvironmentStep

\* Every step keeps RebootInv of every node.
LEMMA RebootStep ==
  ASSUME Quiet, BaseInv, \A n \in Nodes : RebootInv(n), [DaemonNext]_daemonVars, NEW m \in Nodes
  PROVE  RebootInv(m)'
<1>0. DaemonRecords /\ ~DeletesAllowed /\ RebootPrompt /\ RebootInv(m)
  BY DEF BaseInv, Quiet
<1>1. ASSUME Same(m) PROVE RebootInv(m)'
  BY <1>0, <1>1 DEF Same, HelperSame, DaemonSame, RebootInv, Active
<1>2. CASE UNCHANGED daemonVars
  BY <1>1, <1>2 DEF daemonVars, daemonOnly, vars, Same, HelperSame, DaemonSame
<1>3. ASSUME NEW n \in Nodes, NodeStep(n) PROVE RebootInv(m)'
  <2>1. CASE m = n
    BY <1>0, <1>3, <2>1, RebootReconcile, RebootOthers DEF NodeStep
  <2>2. CASE m # n
    BY <1>0, <1>1, <1>3, <2>2, OthersSame DEF BaseInv
  <2> QED
    BY <2>1, <2>2
<1> QED
  BY <1>2, <1>3 DEF DaemonNext, NodeStep

\* It holds at first.
LEMMA RebootInit == ASSUME DaemonInit, NEW n \in Nodes PROVE RebootInv(n)
<1>1. enc[n].skip = FALSE /\ pc[n] = "off" /\ ~rebooting[n]
  BY EmptyRecords DEF DaemonInit
<1>2. \A s \in Slots : worker[n][s].pc = "done"
  BY DEF DaemonInit, Init, Ended
<1> QED
  BY <1>1, <1>2 DEF RebootInv, Active

\* As long as no lead is broken, a node reboots out of service, for every number of
\* nodes, devices and failures, crashes of the daemon and lost conditions included; and the variables of the
\* daemons keep their types.
THEOREM RebootsDrained == Quiet /\ DaemonSpec /\ []LeadKept => []RebootOnlyDrained
<1> SUFFICES ASSUME Quiet PROVE DaemonSpec /\ []LeadKept => []RebootOnlyDrained
  OBVIOUS
<1> DEFINE Inv == BaseInv /\ \A n \in Nodes : RebootInv(n)
<1>1. DaemonInit => Inv
  BY BaseInit, RebootInit
<1>2. Inv /\ [DaemonNext]_daemonVars /\ LeadKept' => Inv'
  <2> SUFFICES ASSUME Inv, [DaemonNext]_daemonVars, LeadKept' PROVE Inv'
    OBVIOUS
  <2>1. BaseInv'
    BY BaseStep DEF Quiet, Undisturbed
  <2>2. \A n \in Nodes : RebootInv(n)'
    BY RebootStep
  <2> QED
    BY <2>1, <2>2
<1>3. Inv => RebootOnlyDrained
  BY RecordsAreTypes DEF BaseInv, RebootInv, RebootOnlyDrained
<1> QED
  BY <1>1, <1>2, <1>3, PTL DEF DaemonSpec


-----------------------------------------------------------------------------
(* Truth *)

\* An error of the worker is never forgotten, and without one its steps before
\* and after drainFunc do not lead past drainFunc.
LEMMA WorkerErrIs ==
  ASSUME TypeOK, NEW n \in Nodes, NEW s \in Slots,
         WorkerStep(n, s) \/ GetNodeFails(n, s) \/ CordonOrDrainFails(n, s) \/ UncordonFails(n, s)
  PROVE  LET w == worker[n][s]
             v == worker'[n][s]
             Before == {"getnode", "cordon", "drain", "work"}
             After == {"ungetnode", "uncordon", "done"}
         IN /\ v.pc \in After /\ ~v.err => w.pc \in After /\ ~w.err
            /\ v.pc \in Before => w.pc \in Before /\ v.err = w.err
<1> DEFINE w == worker[n][s]
           v == worker'[n][s]
<1>0. w \in Worker
  BY DEF TypeOK
<1>1. ASSUME NEW from, NEW to, Step(n, s, from, to)
      PROVE  v.err = w.err /\ w.pc = from /\ v.pc = to
  <2>1. w.pc = from /\ v = [w EXCEPT !.pc = to, !.tries = 0]
    BY <1>1, SetWorkerEffect DEF Step
  <2> QED
    BY <1>0, <2>1, WorkerFieldValues
<1>2. ASSUME NEW from, NEW to, Fail(n, s, from, to)
      PROVE  v.err /\ w.pc = from /\ v.pc = to
  <2>1. w.pc = from /\ v = [w EXCEPT !.pc = to, !.tries = 0, !.err = TRUE]
    BY <1>2, SetWorkerEffect DEF Fail
  <2> QED
    BY <1>0, <2>1, WorkerFieldValues
<1>3. ASSUME NEW from, NEW again, NEW to, Retry(n, s, from, again, to)
      PROVE  w.pc = from /\ ((v.pc = again /\ v.err = w.err) \/ (v.pc = to /\ v.err))
  <2>1. CASE w.tries + 1 < Steps
    <3>1. w.pc = from /\ v = [w EXCEPT !.pc = again, !.tries = w.tries + 1]
      BY <1>3, <2>1, SetWorkerEffect DEF Retry
    <3> QED
      BY <1>0, <3>1, WorkerFieldValues
  <2>2. CASE ~(w.tries + 1 < Steps)
    BY <1>2, <1>3, <2>2 DEF Retry
  <2> QED
    BY <2>1, <2>2
<1>4. CASE GetNode(n, s) \/ Drain(n, s) \/ UncordonNode(n, s)
  <2>1. \/ Step(n, s, "getnode", "cordon") \/ Step(n, s, "ungetnode", "uncordon")
        \/ Step(n, s, "drain", "work") \/ Step(n, s, "uncordon", "done")
    BY <1>4 DEF GetNode, Drain, UncordonNode
  <2> QED
    BY <1>1, <2>1
<1>5. CASE GetNodeCancelled(n, s) \/ GetNodeFails(n, s)
  <2>1. Fail(n, s, "getnode", "ungetnode") \/ Fail(n, s, "ungetnode", "done")
    BY <1>5 DEF GetNodeCancelled, GetNodeFails
  <2> QED
    BY <1>2, <2>1
<1>6. CASE Cordon(n, s)
  <2>1. w.pc = "cordon" /\ v = [w EXCEPT !.pc = "drain"]
    BY <1>6, SetWorkerEffect DEF Cordon
  <2>2. v.pc = "drain" /\ v.err = w.err
    BY <1>0, <2>1 DEF Worker
  <2> QED
    BY <2>1, <2>2
<1>7. CASE CordonOrDrainFails(n, s) \/ UncordonFails(n, s)
  <2>1. \/ Retry(n, s, "cordon", "cordon", "ungetnode") \/ Retry(n, s, "drain", "cordon", "ungetnode")
        \/ Retry(n, s, "uncordon", "uncordon", "done")
    BY <1>7 DEF CordonOrDrainFails, UncordonFails
  <2> QED
    BY <1>3, <2>1
<1> QED
  BY <1>4, <1>5, <1>6, <1>7 DEF WorkerStep

\* Nothing that these say of a node changes.
LEMMA DevicesKept ==
  ASSUME NEW n \in Nodes, enc'[n].cfg = enc[n].cfg, hw'[n] = hw[n], live'[n] = live[n]
  PROVE  /\ Applied(n)' <=> Applied(n)
         /\ StoredAll(n)' <=> StoredAll(n)
         /\ \A d \in Devices, b \in BOOLEAN : Done(n, d, b)' <=> Done(n, d, b)
BY DEF Applied, StoredAll, Done

\* Devices that are all done have everything stored, and without a reboot live.
LEMMA AllDone ==
  ASSUME NEW n \in Nodes, NEW b \in BOOLEAN, \A d \in Devices : Done(n, d, b)
  PROVE  StoredAll(n) /\ (~b => Applied(n))
BY DEF Done, StoredAll, Applied

\* What is stored is applied once it lives.
LEMMA StoredIsApplied ==
  ASSUME NEW n \in Nodes, StoredAll(n), live[n] = hw[n]
  PROVE  Applied(n)
BY DEF StoredAll, Applied


\* The condition is written: the generation it is for is that of the copy.
LEMMA TruthConditionIs ==
  ASSUME DaemonRecords, NEW n \in Nodes, NEW c \in Copy, c.m = n, Current(c, n), enc[n].exists,
         NEW r \in Reasons \cup {None}, updateCondition(c, r)
  PROVE  /\ enc'[n].exists /\ enc'[n].gen = enc[n].gen /\ enc'[n].cfg = enc[n].cfg
         /\ enc'[n].reason = r /\ enc'[n].obs = enc'[n].gen
         /\ Current(Reread(c), n) /\ enc[n].gen \in Nat
<1>1. SpecKept(n) /\ enc'[n].reason = r /\ enc'[n].obs = c.gen
  BY ConditionIs
<1>2. Reread(c).gen = enc[n].gen /\ Reread(c).cfg = enc[n].cfg
  BY RereadIs
<1>3. enc[n] \in Object
  BY DEF DaemonRecords
<1> QED
  BY <1>1, <1>2, <1>3 DEF SpecKept, Current, Object

\* A new object asks for nothing and has no condition.
LEMMA TruthCreateIs ==
  ASSUME DaemonRecords, NEW n \in Nodes, TruthInv(n), CreateEmptyNodeConfigIfNeeded(n)
  PROVE  \/ enc'[n] = enc[n]
         \/ /\ enc'[n].exists /\ enc'[n].reason = None /\ enc'[n].obs <= enc'[n].gen
            /\ enc[n].reason = None
<1>1. /\ EmptyObject(TRUE).exists /\ EmptyObject(TRUE).reason = None
      /\ EmptyObject(TRUE).obs = 0 /\ EmptyObject(TRUE).gen = 1
  BY EmptyRecords
<1>2. enc'[n] = IF enc[n].exists THEN enc[n] ELSE EmptyObject(TRUE)
  BY CreateIs
<1>3. ~enc[n].exists => enc[n].reason = None
  BY DEF TruthInv
<1>4. CASE ~enc[n].exists
  <2>1. enc'[n] = EmptyObject(TRUE)
    BY <1>2, <1>4
  <2>2. enc'[n].exists /\ enc'[n].reason = None /\ enc'[n].obs = 0 /\ enc'[n].gen = 1
    BY <1>1, <2>1, Zenon
  <2>3. enc'[n].obs <= enc'[n].gen
    BY <2>2
  <2> QED
    BY <1>3, <1>4, <2>2, <2>3
<1> QED
  BY <1>2, <1>4

\* The steps of Reconcile and TruthInv.
LEMMA TruthReconcile ==
  ASSUME BaseInv, Quiet, "status" \notin Faults, NEW n \in Nodes,
         PendingInv(n), TruthInv(n), ReconcileStep(n)
  PROVE  TruthInv(n)'
<1>0. /\ DaemonRecords /\ TypeOK /\ Own(n) /\ NoLeftover(n) /\ RunInv(n)
      /\ nc[n] \in Copy /\ nc[n].m = n /\ cur[n] \in Slots /\ rep[n] \in RepRecord
      /\ None \notin Reasons
  BY NoneAssumption DEF BaseInv, DaemonRecords, TypeOK, Own
<1>1. UNCHANGED <<hw, live, rebooting>>
  BY DEF ReconcileStep, ReconcileNotFound, ReconcileGet, Finish, FinishFails, Begin, PrepareFails, Prepare,
         ConfigureNodeReturn, ConfigureNodeRejected, Report
<1>2. ASSUME enc'[n].cfg = enc[n].cfg
      PROVE  (Applied(n)' <=> Applied(n)) /\ (StoredAll(n)' <=> StoredAll(n))
  BY <1>1, <1>2, DevicesKept
<1>3. ASSUME NEW m \in Nodes, ReconcileNotFound(n, m) PROVE TruthInv(n)'
  <2>1. pc[n] = "idle" /\ ~rebooting[n] /\ UNCHANGED <<vars, pc, nc, rep>>
    BY <1>3 DEF ReconcileNotFound, CanReconcile, Quiet
  <2>2. \/ enc'[n] = enc[n]
        \/ enc'[n].exists /\ enc'[n].reason = None /\ enc'[n].obs <= enc'[n].gen
    BY <1>0, <1>3, TruthCreateIs DEF ReconcileNotFound
  <2>3. CASE enc'[n] = enc[n]
    BY <1>1, <1>2, <2>1, <2>3 DEF TruthInv
  <2>4. CASE enc'[n].exists /\ enc'[n].reason = None /\ enc'[n].obs <= enc'[n].gen
    BY <1>0, <1>1, <2>1, <2>4 DEF TruthInv, Reasons
  <2> QED
    BY <2>2, <2>3, <2>4
<1>4. ASSUME NEW m \in Nodes, ReconcileGet(n, m) PROVE TruthInv(n)'
  <2>1. m = n /\ pc[n] = "idle" /\ ~rebooting[n] /\ enc[n].exists /\ UNCHANGED enc
    BY <1>0, <1>4 DEF ReconcileGet, CanReconcile, Own, Quiet
  <2>2. nc'[n] = Read(n)
    BY <1>0, <1>4, <2>1 DEF ReconcileGet, DaemonRecords
  <2>3. Current(nc[n], n)'
    BY <1>0, <2>1, <2>2, ReadIs DEF Current
  <2>4. \/ enc[n].reason = "PostUpdateReboot" /\ goto(n, "finish")
        \/ enc[n].reason # "PostUpdateReboot" /\ report(n, "NotRequested", FALSE)
        \/ enc[n].reason # "PostUpdateReboot" /\ goto(n, "begin")
    BY <1>4, <2>1 DEF ReconcileGet
  <2>5. \/ enc[n].reason = "PostUpdateReboot" /\ pc'[n] = "finish"
        \/ pc'[n] = "report" /\ rep'[n].reason = "NotRequested"
        \/ enc[n].reason # "PostUpdateReboot" /\ pc'[n] = "begin"
    BY <1>0, <2>4, GotoIs, ReportIs DEF PCs, Reasons
  <2> QED
    BY <1>1, <1>2, <2>1, <2>3, <2>5 DEF TruthInv
<1>5. ASSUME UNCHANGED <<enc, nc>>, pc[n] \notin {"off", "idle"}, pc'[n] = "report", ~rebooting[n],
             rep'[n].reason = "Succeeded" =>
               Applied(n) /\ (enc[n].reason = "PostUpdateReboot" => live[n] = hw[n])
      PROVE  TruthInv(n)'
  BY <1>1, <1>2, <1>5 DEF TruthInv, Current
<1>6. CASE Finish(n)
  <2>1. pc[n] = "finish" /\ pc'[n] = "report" /\ rep'[n].reason = "Succeeded" /\ UNCHANGED <<enc, nc>>
    BY <1>0, <1>6, ReportIs DEF Finish, Reasons
  <2>2. ~rebooting[n] /\ StoredAll(n) /\ live[n] = hw[n]
    BY <2>1 DEF TruthInv
  <2> QED
    BY <1>5, <2>1, <2>2, StoredIsApplied
<1>7. CASE PrepareFails(n) \/ ConfigureNodeRejected(n)
  <2>1. /\ pc[n] \in {"prepare", "rejected"} /\ pc'[n] = "report" /\ rep'[n].reason = "Failed"
        /\ UNCHANGED <<enc, nc>>
    BY <1>0, <1>7, ReportIs DEF PrepareFails, ConfigureNodeRejected, Reasons
  <2>2. ~rebooting[n]
    BY <2>1 DEF TruthInv
  <2> QED
    BY <1>5, <2>1, <2>2
<1>8. CASE FinishFails(n)
  <2>1. pc[n] = "finish" /\ pc'[n] = "idle" /\ UNCHANGED enc
    BY <1>0, <1>8, ReturnIs DEF FinishFails
  <2> QED
    BY <1>1, <1>2, <2>1 DEF TruthInv
<1>9. CASE Begin(n)
  <2>1. pc[n] = "begin" /\ pc'[n] = "prepare"
    BY <1>0, <1>9, GotoIs DEF Begin, PCs
  <2>2. updateCondition(nc[n], "InProgress") /\ nc'[n] = Reread(nc[n])
    BY <1>0, <1>9 DEF Begin, updateConditionLost, Fault, DaemonRecords
  <2>3. enc[n].exists /\ Current(nc[n], n) /\ ~rebooting[n]
    BY <2>1 DEF TruthInv
  <2>4. /\ enc'[n].exists /\ enc'[n].gen = enc[n].gen /\ enc'[n].cfg = enc[n].cfg
        /\ enc'[n].reason = "InProgress" /\ enc'[n].obs = enc'[n].gen
        /\ Current(Reread(nc[n]), n) /\ enc[n].gen \in Nat
    BY <1>0, <2>2, <2>3, TruthConditionIs DEF Reasons
  <2>5. Current(nc[n], n)' /\ enc'[n].obs <= enc'[n].gen
    BY <2>2, <2>4 DEF Current
  <2> QED
    BY <1>1, <2>1, <2>3, <2>4, <2>5 DEF TruthInv
<1>10. CASE Prepare(n)
  <2>1. PICK d \in BOOLEAN : d = ~nc[n].skip
    OBVIOUS
  <2>2. pc[n] = "prepare" /\ UNCHANGED <<enc, nc, rep>>
    BY <1>10 DEF Prepare
  <2>3. \/ pc'[n] = "run" /\ run'[n] = "acquire"
        \/ pc'[n] = "rejected"
    <3>1. \/ RunStart(n, d) /\ goto(n, "run")
          \/ RunRejected(n, d) /\ goto(n, "rejected")
      BY <1>10, <2>1 DEF Prepare
    <3> QED
      BY <1>0, <3>1, RunIs, GotoIs DEF PCs
  <2>4. ~rebooting[n] /\ Current(nc[n], n)' /\ enc[n].exists /\ enc[n].reason = "InProgress"
    BY <2>2 DEF TruthInv, Current
  <2> QED
    BY <1>1, <1>2, <2>2, <2>3, <2>4 DEF TruthInv
<1>11. CASE ConfigureNodeReturn(n)
  <2> DEFINE a == act[n][cur[n]]
             w == worker[n][cur[n]]
             err == runErr[n] \/ a.err
  <2>1. pc[n] = "run" /\ run[n] = "idle" /\ UNCHANGED enc
    BY <1>11 DEF ConfigureNodeReturn
  <2>2. WorkInv(n) /\ enc[n].exists
    BY <2>1 DEF TruthInv
  <2>3. w.pc = "done" /\ runErr[n] = w.err
    BY <1>0, <2>1 DEF NoLeftover, Active, RunInv
  <2>4. a \in ActRecord
    BY <1>0 DEF DaemonRecords
  <2>5. CASE ~err /\ a.reboot /\ return(n)
    <3>1. rebooting[n]
      BY <1>0, <2>3, <2>5 DEF PendingInv
    <3>2. pc'[n] = "idle"
      BY <1>0, <2>5, ReturnIs
    <3> QED
      BY <1>1, <1>2, <2>1, <3>1, <3>2 DEF TruthInv
  <2>6. CASE /\ err \/ ~a.reboot
             /\ report(n, IF err THEN "Failed" ELSE "Succeeded", err)
             /\ nc' = [nc EXCEPT ![n] = a.nc]
    <3>1. PICK b \in BOOLEAN : b = err
      OBVIOUS
    <3>2. PICK r \in Reasons : r = IF err THEN "Failed" ELSE "Succeeded"
      BY DEF Reasons
    <3>3. report(n, r, b)
      BY <2>6, <3>1, <3>2
    <3>4. pc'[n] = "report" /\ rep'[n].reason = r
      BY <1>0, <3>3, ReportIs
    <3>5. nc'[n] = a.nc
      BY <1>0, <2>6 DEF DaemonRecords
    <3>6. Current(nc[n], n)'
      BY <2>1, <2>2, <3>5 DEF WorkInv, Current
    <3>7. ~rebooting[n]
      BY <2>2, <2>3, <2>6 DEF WorkInv
    <3>8. ASSUME ~err PROVE Applied(n) /\ enc[n].reason # "PostUpdateReboot"
      <4>1. a.todo = {} /\ ~a.reboot /\ a.reboot \in BOOLEAN
        BY <2>2, <2>3, <2>4, <2>6, <3>8 DEF WorkInv, ActRecord
      <4>2. \A d \in Devices : Done(n, d, a.reboot)
        BY <2>2, <4>1 DEF WorkInv
      <4>3. enc[n].reason # "PostUpdateReboot"
        BY <2>2, <4>1 DEF WorkInv
      <4> QED
        BY <4>1, <4>2, <4>3, AllDone
    <3> QED
      BY <1>1, <1>2, <2>1, <2>2, <3>2, <3>4, <3>6, <3>7, <3>8 DEF TruthInv
  <2> QED
    BY <1>11, <2>5, <2>6 DEF ConfigureNodeReturn
<1>12. CASE Report(n)
  <2>1. pc[n] = "report" /\ pc'[n] = "idle" /\ updateCondition(nc[n], rep[n].reason)
    BY <1>0, <1>12, ReturnIs DEF Report, updateConditionLost, Fault
  <2>2. rep[n].reason \in {"Failed", "Succeeded", "NotRequested"}
    BY <2>1 DEF PendingInv
  <2>3. enc[n].exists /\ Current(nc[n], n) /\ ~rebooting[n]
    BY <2>1 DEF TruthInv
  <2>4. /\ enc'[n].exists /\ enc'[n].gen = enc[n].gen /\ enc'[n].cfg = enc[n].cfg
        /\ enc'[n].reason = rep[n].reason /\ enc'[n].obs = enc'[n].gen /\ enc[n].gen \in Nat
    BY <1>0, <2>1, <2>2, <2>3, TruthConditionIs DEF Reasons
  <2>5. enc'[n].obs <= enc'[n].gen
    BY <2>4
  <2> QED
    BY <1>1, <1>2, <2>1, <2>2, <2>3, <2>4, <2>5 DEF TruthInv
<1> QED
  BY <1>3, <1>4, <1>6, <1>7, <1>8, <1>9, <1>10, <1>11, <1>12 DEF ReconcileStep


\* The workers and TruthInv: between the election and the end of drainFunc the
\* condition and the versions change together.
LEMMA TruthWorkers ==
  ASSUME BaseInv, Quiet, "status" \notin Faults, NEW n \in Nodes, RebootInv(n), TruthInv(n),
         StartLeading(n) \/ HelperStep(n) \/ \E s \in Slots : FunctionStep(n, s)
  PROVE  TruthInv(n)'
<1>0. /\ DaemonRecords /\ TypeOK /\ Own(n) /\ NoLeftover(n) /\ RunInv(n) /\ cur[n] \in Slots
      /\ \A s \in Slots : act[n][s] \in ActRecord
  BY DEF BaseInv, DaemonRecords, TypeOK
<1>1. ASSUME UNCHANGED <<enc, pc, nc, rep, hw, live, rebooting>>, pc[n] = "run" /\ run'[n] # "acquire" => WorkInv(n)',
             run'[n] = "acquire" => run[n] = "acquire"
      PROVE  TruthInv(n)'
  <2>1. /\ Applied(n)' <=> Applied(n)
        /\ StoredAll(n)' <=> StoredAll(n)
    BY <1>1, DevicesKept
  <2> QED
    BY <1>1, <2>1 DEF TruthInv, Current
<1>2. CASE StartLeading(n)
  <2> DEFINE a == act'[n][cur'[n]]
             w == worker'[n][cur'[n]]
             todo == {d \in Devices : nc[n].cfg[d].fw # None \/ nc[n].cfg[d].ddp # None}
  <2>1. /\ UNCHANGED <<enc, pc, nc, rep, hw, live, rebooting>> /\ Acquire(n)
        /\ a.todo = todo /\ ~a.marked /\ ~a.reboot /\ ~a.err /\ a.nc = nc[n]
    BY <1>0, <1>2, StartLeadingIs DEF ActSteps
  <2>2. run[n] = "acquire" /\ run'[n] = "renew" /\ w.pc \in {"getnode", "work"} /\ ~w.err
    BY <1>0, <2>1, AcquireIs
  <2>3. pc[n] = "run" /\ enc[n].reason = "InProgress" /\ ~rebooting[n] /\ Current(nc[n], n)
    BY <1>0, <2>2 DEF TruthInv, RunInv
  <2>4. \A d \in Devices \ todo : enc[n].cfg[d].fw = None /\ enc[n].cfg[d].ddp = None
    BY <2>3 DEF Current
  <2>5. \A d \in Devices \ todo : Done(n, d, FALSE)'
    BY <2>1, <2>4 DEF Done
  <2>6. Current(act[n][cur[n]].nc, n)'
    BY <2>1, <2>3 DEF Current
  <2>7. WorkInv(n)'
    BY <2>1, <2>2, <2>3, <2>5, <2>6 DEF WorkInv, Done
  <2> QED
    BY <1>1, <2>1, <2>2, <2>7
<1>3. CASE HelperStep(n)
  <2>1. UNCHANGED <<enc, pc, nc, rep, act, hw, live, rebooting>>
    BY <1>0, <1>3, HelperIs
  <2>2. ASSUME cur'[n] = cur[n],
               worker'[n][cur[n]].pc = worker[n][cur[n]].pc /\ worker'[n][cur[n]].err = worker[n][cur[n]].err
        PROVE  WorkInv(n)' <=> WorkInv(n)
    BY <2>1, <2>2 DEF WorkInv, Current, Done
  <2>3. CASE ElectorStep(n) \/ RenewLost(n)
    <3>1. /\ cur'[n] = cur[n]
          /\ worker'[n][cur[n]].pc = worker[n][cur[n]].pc /\ worker'[n][cur[n]].err = worker[n][cur[n]].err
          /\ run'[n] = "acquire" <=> run[n] = "acquire"
      BY <1>0, <2>3, ElectorIs
    <3> QED
      BY <1>1, <2>1, <2>2, <3>1 DEF TruthInv
  <2>4. ASSUME NEW s \in Slots,
               \/ WorkerStep(n, s)
               \/ GetNodeFails(n, s) \/ CordonOrDrainFails(n, s) \/ UncordonFails(n, s)
        PROVE  TruthInv(n)'
    <3>1. run'[n] = run[n] /\ cur'[n] = cur[n] /\ Active(n, s)
      BY <1>0, <2>4, WorkerIs
    <3>2. cur[n] = s /\ run[n] = "renew" /\ pc[n] = "run" /\ ~rebooting[n]
      BY <1>0, <3>1 DEF NoLeftover, RunInv, RebootInv
    <3>3. WorkInv(n)
      BY <3>2 DEF TruthInv
    <3> DEFINE w == worker[n][s]
               v == worker'[n][s]
    <3>4. /\ v.pc \in {"ungetnode", "uncordon", "done"} /\ ~v.err =>
               w.pc \in {"ungetnode", "uncordon", "done"} /\ ~w.err
          /\ v.pc \in {"getnode", "cordon", "drain", "work"} =>
               w.pc \in {"getnode", "cordon", "drain", "work"} /\ v.err = w.err
      BY <1>0, <2>4, WorkerErrIs
    <3>5. WorkInv(n)'
      BY <2>1, <3>1, <3>2, <3>3, <3>4 DEF WorkInv, Current, Done
    <3> QED
      BY <1>1, <2>1, <3>1, <3>5
  <2> QED
    BY <1>0, <1>3, <2>3, <2>4, HelperIs
<1>4. ASSUME NEW s \in Slots, FunctionStep(n, s) PROVE TruthInv(n)'
  <2> DEFINE a == act[n][s]
             w == worker[n][s]
             b == act'[n][s]
             v == worker'[n][s]
  <2>0. Active(n, s) /\ UNCHANGED <<pc, nc, rep>> /\ w.pc = "work"
    BY <1>4 DEF FunctionStep, UpdateDevice, UpdateDeviceFails, UpdatesEnd, MarkReboot, rebootNode,
                rebootNodeFails, Working, WorkEnd, Active, daemonOnly
  <2>1. cur[n] = s /\ run[n] = "renew" /\ pc[n] = "run" /\ ~rebooting[n]
    BY <1>0, <2>0 DEF NoLeftover, RunInv, RebootInv
  <2>2. WorkInv(n) /\ enc[n].exists /\ enc[n].reason \in {"InProgress", "PostUpdateReboot"}
    BY <2>1 DEF TruthInv
  <2>3. /\ a \in ActRecord /\ a.nc \in Copy /\ a.nc.m = n /\ Current(a.nc, n)
        /\ a.reboot \in BOOLEAN
    BY <1>0, <2>1, <2>2, ActFields DEF Own, WorkInv
  <2>4. ASSUME NEW d \in Devices, UpdateDevice(n, s, d) PROVE TruthInv(n)'
    <3> DEFINE want == a.nc.cfg[d]
    <3>1. /\ d \in a.todo /\ UNCHANGED <<vars, enc, rebooting>> /\ b.nc = a.nc
          /\ want.fw # None => hw'[n][d].fw = want.fw
          /\ want.ddp # None => hw'[n][d].ddp = want.ddp
          /\ \A e \in Devices \ {d} : hw'[n][e] = hw[n][e] /\ live'[n][e] = live[n][e]
      BY <1>0, <2>4, UpdateDeviceIs
    <3>2. PICK r \in BOOLEAN :
            /\ ActSteps(n, s, a.todo \ {d}, r, a.err, a.marked)
            /\ a.reboot \/ want.ddp # None => r
            /\ want.fw # None => live'[n][d].fw = want.fw \/ r
      BY <1>0, <2>4, UpdateDeviceIs
    <3>3. b.todo = a.todo \ {d} /\ b.reboot = r /\ b.err = a.err /\ b.marked = a.marked
      BY <3>2 DEF ActSteps
    <3>4. want = enc[n].cfg[d]
      BY <2>3 DEF Current
    <3>5. ~a.marked /\ enc[n].reason = "InProgress"
      BY <2>1, <2>2, <3>1 DEF WorkInv
    <3>6. Done(n, d, r)'
      BY <3>1, <3>2, <3>4 DEF Done
    <3>7. \A e \in Devices \ a.todo : Done(n, e, r)'
      <4>1. \A e \in Devices \ a.todo : Done(n, e, a.reboot)
        BY <2>1, <2>2 DEF WorkInv
      <4> QED
        BY <3>1, <3>2, <4>1 DEF Done
    <3>8. cur'[n] = s /\ v = w /\ run' = run
      BY <2>1, <3>1 DEF vars
    <3>9. WorkInv(n)'
      BY <2>0, <2>1, <2>2, <3>1, <3>3, <3>5, <3>6, <3>7, <3>8 DEF WorkInv, Current
    <3> QED
      BY <2>0, <2>1, <3>1, <3>5, <3>8, <3>9 DEF TruthInv, Current
  <2>5. ASSUME NEW d \in Devices, UpdateDeviceFails(n, s, d) PROVE TruthInv(n)'
    <3>1. /\ d \in a.todo /\ UNCHANGED <<vars, enc, live, rebooting>> /\ b.nc = a.nc
          /\ \A e \in Devices \ {d} : hw'[n][e] = hw[n][e]
          /\ ActSteps(n, s, a.todo, a.reboot, TRUE, a.marked)
      BY <1>0, <2>5, UpdateFailsIs
    <3>2. b.todo = a.todo /\ b.reboot = a.reboot /\ b.err /\ b.marked = a.marked
      BY <3>1 DEF ActSteps
    <3>3. ~a.marked /\ enc[n].reason = "InProgress"
      BY <2>1, <2>2, <3>1 DEF WorkInv
    <3>4. \A e \in Devices \ a.todo : Done(n, e, a.reboot)'
      <4>1. \A e \in Devices \ a.todo : Done(n, e, a.reboot)
        BY <2>1, <2>2 DEF WorkInv
      <4> QED
        BY <3>1, <3>2, <4>1 DEF Done
    <3>5. cur'[n] = s /\ v = w /\ run' = run
      BY <2>1, <3>1 DEF vars
    <3>6. WorkInv(n)'
      BY <2>0, <2>1, <2>2, <3>1, <3>2, <3>3, <3>4, <3>5 DEF WorkInv, Current
    <3> QED
      BY <2>0, <2>1, <3>1, <3>3, <3>5, <3>6 DEF TruthInv, Current
  <2>6. CASE UpdatesEnd(n, s)
    <3>1. UNCHANGED daemonOnly /\ (a.err \/ a.todo = {}) /\ WorkEnd(n, s, TRUE)
      BY <2>6 DEF UpdatesEnd
    <3>2. v.pc \in {"ungetnode", "done"} /\ v.err = w.err
      BY <1>0, <3>1, WorkEndIs
    <3>3. run'[n] = run[n] /\ cur'[n] = s
      BY <1>0, <2>1, <3>1, WorkerIs
    <3>4. UNCHANGED <<enc, pc, nc, rep, act, hw, live, rebooting>>
      BY <3>1 DEF daemonOnly
    <3>5. WorkInv(n)'
      BY <2>1, <2>2, <3>1, <3>2, <3>3, <3>4 DEF WorkInv, Current, Done
    <3> QED
      BY <1>1, <3>3, <3>4, <3>5
  <2>7. CASE MarkReboot(n, s)
    <3>1. /\ a.todo = {} /\ a.reboot /\ UNCHANGED <<vars, hw, live, rebooting>>
          /\ ActSteps(n, s, a.todo, a.reboot, a.err, TRUE)
          /\ updateCondition(a.nc, "PostUpdateReboot") /\ b.nc = Reread(a.nc)
      BY <1>0, <2>7, MarkRebootIs
    <3>2. b.todo = {} /\ b.reboot /\ b.err = a.err /\ b.marked /\ b.reboot = a.reboot
      BY <3>1 DEF ActSteps
    <3>3. /\ enc'[n].exists /\ enc'[n].gen = enc[n].gen /\ enc'[n].cfg = enc[n].cfg
          /\ enc'[n].reason = "PostUpdateReboot" /\ enc'[n].obs = enc'[n].gen
          /\ Current(Reread(a.nc), n) /\ enc[n].gen \in Nat
      BY <1>0, <2>2, <2>3, <3>1, TruthConditionIs DEF Reasons
    <3>4. \A d \in Devices : Done(n, d, TRUE)
      BY <2>1, <2>2, <3>1 DEF WorkInv, Done
    <3>5. /\ \A d \in Devices : Done(n, d, TRUE)'
          /\ StoredAll(n)'
      <4>1. StoredAll(n)
        BY <3>4, AllDone
      <4> QED
        BY <3>1, <3>3, <3>4, <4>1, DevicesKept
    <3>6. cur'[n] = s /\ v = w /\ run' = run
      BY <2>1, <3>1 DEF vars
    <3>7. Current(act[n][cur[n]].nc, n)' /\ Current(nc[n], n)' /\ enc'[n].obs <= enc'[n].gen
      <4>1. Current(nc[n], n)
        BY <2>1 DEF TruthInv
      <4> QED
        BY <2>0, <3>1, <3>3, <3>6, <4>1 DEF Current
    <3>8. WorkInv(n)'
      BY <2>0, <2>1, <2>2, <3>1, <3>2, <3>3, <3>5, <3>6, <3>7 DEF WorkInv, Done
    <3> QED
      BY <2>0, <2>1, <3>1, <3>3, <3>5, <3>6, <3>7, <3>8 DEF TruthInv
  <2>8. CASE rebootNode(n, s)
    <3>1. /\ a.marked /\ ~a.err /\ rebooting'[n] /\ WorkEnd(n, s, FALSE)
          /\ UNCHANGED <<enc, act, hw, live>>
      BY <1>0, <2>8 DEF rebootNode, Working, DaemonRecords
    <3>2. v.pc = "done" /\ v.err = w.err
      BY <1>0, <3>1, WorkEndIs
    <3>3. run'[n] = run[n] /\ cur'[n] = s
      BY <1>0, <2>1, <3>1, WorkerIs
    <3>4. a.todo = {} /\ a.reboot /\ ~w.err /\ enc[n].reason = "PostUpdateReboot"
      BY <2>0, <2>1, <2>2, <3>1 DEF WorkInv
    <3>5. WorkInv(n)'
      BY <2>1, <2>2, <3>1, <3>2, <3>3, <3>4 DEF WorkInv, Current, Done
    <3>6. /\ Applied(n)' <=> Applied(n)
          /\ StoredAll(n)' <=> StoredAll(n)
      BY <3>1, DevicesKept
    <3> QED
      BY <2>0, <2>1, <3>1, <3>3, <3>4, <3>5, <3>6 DEF TruthInv, Current
  <2>9. CASE rebootNodeFails(n, s)
    <3>1. /\ WorkEnd(n, s, FALSE) /\ UNCHANGED <<enc, hw, live, rebooting>> /\ b.nc = a.nc
          /\ ActSteps(n, s, a.todo, a.reboot, TRUE, a.marked)
      BY <1>0, <2>9, RebootFailsIs
    <3>2. b.todo = a.todo /\ b.reboot = a.reboot /\ b.err /\ b.marked = a.marked
      BY <3>1 DEF ActSteps
    <3>3. v.pc = "done" /\ v.err = w.err
      BY <1>0, <3>1, WorkEndIs
    <3>4. run'[n] = run[n] /\ cur'[n] = s
      BY <1>0, <2>1, <3>1, WorkerIs
    <3>5. WorkInv(n)'
      BY <2>1, <2>2, <3>1, <3>2, <3>3, <3>4 DEF WorkInv, Current, Done
    <3> QED
      BY <1>1, <2>0, <3>1, <3>4, <3>5
  <2> QED
    BY <1>4, <2>4, <2>5, <2>6, <2>7, <2>8, <2>9 DEF FunctionStep
<1> QED
  BY <1>2, <1>3, <1>4


\* The rest of the system and TruthInv: the spec changes only when nothing is
\* unfinished, and the reboot brings to life what PostUpdateReboot says is stored.
LEMMA TruthEnvironment ==
  ASSUME BaseInv, Quiet, "crash" \notin Faults, NEW n \in Nodes, PendingInv(n), TruthInv(n),
         EnvironmentStep(n)
  PROVE  TruthInv(n)'
<1>0. DaemonRecords /\ TypeOK /\ None \notin Reasons
  BY NoneAssumption DEF BaseInv, DaemonRecords
<1>1. ASSUME NEW m \in Nodes, RequeueFires(n, m) PROVE TruthInv(n)'
  BY <1>1 DEF RequeueFires, vars, TruthInv, WorkInv, Current, Done, StoredAll, Applied
<1>2. CASE Start(n)
  <2>1. pc[n] = "off" /\ pc'[n] = "idle" /\ ~rebooting[n] /\ UNCHANGED <<hw, live, rebooting>>
    BY <1>0, <1>2, GotoIs DEF Start, PCs, Quiet
  <2>2. \/ enc'[n] = enc[n]
        \/ enc'[n].exists /\ enc'[n].reason = None /\ enc'[n].obs <= enc'[n].gen
    BY <1>0, <1>2, TruthCreateIs DEF Start
  <2>3. CASE enc'[n] = enc[n]
    <3>1. /\ Applied(n)' <=> Applied(n)
          /\ StoredAll(n)' <=> StoredAll(n)
      BY <2>1, <2>3, DevicesKept
    <3> QED
      BY <2>1, <2>3, <3>1 DEF TruthInv
  <2>4. CASE enc'[n].exists /\ enc'[n].reason = None /\ enc'[n].obs <= enc'[n].gen
    BY <1>0, <2>1, <2>4 DEF TruthInv, Reasons
  <2> QED
    BY <2>2, <2>3, <2>4
<1>3. CASE Reboot(n)
  <2>1. /\ ProcessGone(n) /\ rebooting[n] /\ ~rebooting'[n] /\ live'[n] = hw[n]
        /\ UNCHANGED <<enc, hw>>
    BY <1>0, <1>3 DEF Reboot, DaemonRecords
  <2>2. pc'[n] = "off"
    BY <1>0, <2>1, ProcessGoneIs
  <2>3. enc[n].reason = "PostUpdateReboot" /\ StoredAll(n)
    BY <2>1 DEF TruthInv
  <2>4. StoredAll(n)'
    BY <2>1, <2>3 DEF StoredAll
  <2> QED
    BY <2>1, <2>2, <2>3, <2>4 DEF TruthInv
<1>4. ~Crash(n) /\ ~Delete(n)
  BY DEF Crash, Fault, Delete, Quiet
<1>5. ASSUME NEW c \in Cfgs, NEW skip \in Skips, UpdateSpec(n, c, skip) PROVE TruthInv(n)'
  <2>1. /\ pc[n] = "idle" /\ queue[n] = {} /\ later[n] = {} /\ ~rebooting[n] /\ enc[n].exists
        /\ UNCHANGED <<pc, hw, live, rebooting>>
    BY <1>5 DEF UpdateSpec, Settled, Quiet
  <2>2. /\ enc'[n].exists /\ enc'[n].gen = enc[n].gen + 1 /\ enc'[n].reason = enc[n].reason
        /\ enc'[n].obs = enc[n].obs
    BY <1>0, <1>5, UpdateSpecIs
  <2>3. enc[n].reason # "PostUpdateReboot"
    BY <2>1 DEF PendingInv, Unfinished
  <2>4. enc[n].gen \in Nat /\ enc[n].obs \in Nat /\ enc[n].obs <= enc[n].gen
    <3>1. enc[n] \in Object
      BY <1>0 DEF DaemonRecords
    <3> QED
      BY <3>1 DEF Object, TruthInv
  <2>5. enc'[n].obs < enc'[n].gen
    BY <2>2, <2>4
  <2>6. enc'[n].obs <= enc'[n].gen /\ enc'[n].obs # enc'[n].gen
    BY <2>2, <2>4, <2>5
  <2> QED
    BY <2>1, <2>2, <2>3, <2>6 DEF TruthInv
<1> QED
  BY <1>1, <1>2, <1>3, <1>4, <1>5 DEF EnvironmentStep

\* Everything that these theorems need of the daemons.
UpdateInv ==
  /\ BaseInv
  /\ \A n \in Nodes : PendingInv(n) /\ RebootInv(n) /\ TruthInv(n)

\* Every step keeps TruthInv of every node.
LEMMA TruthStep ==
  ASSUME Quiet, Faults \cap {"status", "crash"} = {}, UpdateInv, [DaemonNext]_daemonVars, NEW m \in Nodes
  PROVE  TruthInv(m)'
<1>0. /\ BaseInv /\ DaemonRecords /\ ~DeletesAllowed /\ TruthInv(m) /\ PendingInv(m) /\ RebootInv(m)
      /\ "status" \notin Faults /\ "crash" \notin Faults
  BY DEF UpdateInv, BaseInv, Quiet
<1>1. ASSUME Same(m) PROVE TruthInv(m)'
  <2>1. /\ enc'[m] = enc[m] /\ pc'[m] = pc[m] /\ nc'[m] = nc[m] /\ rep'[m] = rep[m]
        /\ hw'[m] = hw[m] /\ live'[m] = live[m] /\ rebooting'[m] = rebooting[m] /\ act'[m] = act[m]
        /\ run'[m] = run[m] /\ cur'[m] = cur[m] /\ \A s \in Slots : worker'[m][s] = worker[m][s]
    BY <1>1 DEF Same, HelperSame, DaemonSame
  <2>2. cur[m] \in Slots
    BY <1>0 DEF DaemonRecords, TypeOK
  <2>3. WorkInv(m)' <=> WorkInv(m)
    BY <2>1, <2>2 DEF WorkInv, Current, Done
  <2>4. /\ Applied(m)' <=> Applied(m)
        /\ StoredAll(m)' <=> StoredAll(m)
    BY <2>1, DevicesKept
  <2> QED
    BY <1>0, <2>1, <2>3, <2>4 DEF TruthInv, Current
<1>2. CASE UNCHANGED daemonVars
  BY <1>1, <1>2 DEF daemonVars, daemonOnly, vars, Same, HelperSame, DaemonSame
<1>3. ASSUME NEW n \in Nodes, NodeStep(n) PROVE TruthInv(m)'
  <2>1. CASE m = n
    BY <1>0, <1>3, <2>1, TruthReconcile, TruthWorkers, TruthEnvironment DEF NodeStep
  <2>2. CASE m # n
    BY <1>0, <1>1, <1>3, <2>2, OthersSame DEF BaseInv
  <2> QED
    BY <2>1, <2>2
<1> QED
  BY <1>2, <1>3 DEF DaemonNext, NodeStep

\* It holds at first.
LEMMA TruthInit == ASSUME DaemonInit, NEW n \in Nodes PROVE TruthInv(n)
<1>1. /\ enc[n].reason = None /\ enc[n].obs = 0 /\ enc[n].gen = 1 /\ pc[n] = "off" /\ ~rebooting[n]
  BY EmptyRecords DEF DaemonInit
<1>2. None \notin Reasons /\ enc[n].obs <= enc[n].gen
  BY <1>1, NoneAssumption
<1> QED
  BY <1>1, <1>2 DEF TruthInv, Reasons

\* UpdateInv is an invariant.
LEMMA UpdateInvariant ==
  Quiet /\ Faults \cap {"status", "crash"} = {} /\ DaemonSpec /\ []LeadKept => []UpdateInv
<1> SUFFICES ASSUME Quiet, Faults \cap {"status", "crash"} = {}
             PROVE  DaemonSpec /\ []LeadKept => []UpdateInv
  OBVIOUS
<1>0. Undisturbed /\ "status" \notin Faults
  BY DEF Quiet, Undisturbed
<1>1. DaemonInit => UpdateInv
  <2> SUFFICES ASSUME DaemonInit PROVE UpdateInv
    OBVIOUS
  <2>1. \A n \in Nodes : PendingInv(n)
    BY EmptyRecords DEF DaemonInit, PendingInv
  <2> QED
    BY <2>1, BaseInit, RebootInit, TruthInit DEF UpdateInv
<1>2. UpdateInv /\ [DaemonNext]_daemonVars /\ LeadKept' => UpdateInv'
  <2> SUFFICES ASSUME UpdateInv, [DaemonNext]_daemonVars, LeadKept' PROVE UpdateInv'
    OBVIOUS
  <2>0. /\ BaseInv
        /\ \A n \in Nodes : PendingInv(n)
        /\ \A n \in Nodes : RebootInv(n)
    BY DEF UpdateInv
  <2>1. BaseInv'
    BY <1>0, <2>0, BaseStep
  <2>2. \A n \in Nodes : PendingInv(n)'
    BY <1>0, <2>0, PendingStep
  <2>3. \A n \in Nodes : RebootInv(n)'
    BY <2>0, RebootStep
  <2>4. \A n \in Nodes : TruthInv(n)'
    BY TruthStep
  <2> QED
    BY <2>1, <2>2, <2>3, <2>4 DEF UpdateInv
<1> QED
  BY <1>1, <1>2, PTL DEF DaemonSpec

\* A condition Succeeded for the current generation tells the truth, for every
\* number of nodes, devices and versions and whatever fails, as long as no lead
\* is broken, no daemon crashes and no condition is lost on the way to the API server.
THEOREM SucceededTrue ==
  Quiet /\ Faults \cap {"status", "crash"} = {} /\ DaemonSpec /\ []LeadKept
    => []SucceededMeansApplied
<1>1. UpdateInv => SucceededMeansApplied
  BY DEF UpdateInv, TruthInv, SucceededMeansApplied
<1> QED
  BY <1>1, UpdateInvariant, PTL


\* Only the last condition of a Reconcile says Succeeded.
LEMMA SucceededIsReported ==
  ASSUME BaseInv, ~DeletesAllowed, NEW n \in Nodes, TruthInv(n), NodeStep(n),
         enc[n].reason = "PostUpdateReboot", enc'[n].reason = "Succeeded"
  PROVE  pc[n] = "report" /\ rep[n].reason = "Succeeded"
<1>0. /\ DaemonRecords /\ Own(n) /\ nc[n] \in Copy /\ nc[n].m = n /\ rep[n] \in RepRecord
      /\ None \notin Reasons /\ enc'[n].reason # enc[n].reason /\ enc'[n].reason # None
  BY NoneAssumption DEF BaseInv, DaemonRecords, Own, Reasons
<1>1. CASE UNCHANGED enc
  BY <1>0, <1>1
<1>2. CASE CreateEmptyNodeConfigIfNeeded(n)
  BY <1>0, <1>2, TruthCreateIs
<1>3. CASE Begin(n)
  <2>1. updateCondition(nc[n], "InProgress") \/ UNCHANGED enc
    BY <1>3 DEF Begin, updateConditionLost
  <2>2. enc'[n].reason = "InProgress" \/ enc'[n] = enc[n]
    BY <1>0, <2>1, ConditionIs DEF Reasons
  <2> QED
    BY <1>0, <2>2
<1>4. CASE Report(n)
  <2>1. pc[n] = "report" /\ (updateCondition(nc[n], rep[n].reason) \/ UNCHANGED enc)
    BY <1>4 DEF Report, updateConditionLost
  <2>2. rep[n].reason \in Reasons \cup {None}
    BY <1>0 DEF RepRecord
  <2>3. enc'[n].reason = rep[n].reason \/ enc'[n] = enc[n]
    BY <1>0, <2>1, <2>2, ConditionIs
  <2> QED
    BY <1>0, <2>1, <2>3
<1>5. ASSUME NEW s \in Slots, MarkReboot(n, s) PROVE FALSE
  <2>1. act[n][s] \in ActRecord
    BY <1>0 DEF DaemonRecords
  <2>2. act[n][s].nc \in Copy /\ act[n][s].nc.m = n
    BY <1>0, <2>1, ActFields DEF Own
  <2>3. updateCondition(act[n][s].nc, "PostUpdateReboot") \/ UNCHANGED enc
    BY <1>0, <1>5, MarkRebootIs
  <2>4. enc'[n].reason = "PostUpdateReboot" \/ enc'[n] = enc[n]
    BY <1>0, <2>2, <2>3, ConditionIs DEF Reasons
  <2> QED
    BY <1>0, <2>4
<1>6. ASSUME NEW c \in Cfgs, NEW skip \in Skips, UpdateSpec(n, c, skip) PROVE FALSE
  BY <1>0, <1>6, UpdateSpecIs
<1>7. CASE ReconcileStep(n)
  BY <1>1, <1>2, <1>3, <1>4, <1>7
  DEF ReconcileStep, ReconcileNotFound, ReconcileGet, Finish, FinishFails, PrepareFails, Prepare,
      ConfigureNodeReturn, ConfigureNodeRejected
<1>8. CASE StartLeading(n) \/ HelperStep(n)
  BY <1>0, <1>1, <1>8, HelperIs DEF StartLeading
<1>9. CASE EnvironmentStep(n)
  BY <1>1, <1>2, <1>6, <1>9 DEF EnvironmentStep, RequeueFires, Start, Reboot, Crash, Delete
<1>10. ASSUME NEW s \in Slots, FunctionStep(n, s)
       PROVE  pc[n] = "report" /\ rep[n].reason = "Succeeded"
  BY <1>1, <1>5, <1>10
  DEF FunctionStep, UpdateDevice, UpdateDeviceFails, UpdatesEnd, rebootNode, rebootNodeFails, daemonOnly
<1> QED
  BY <1>7, <1>8, <1>9, <1>10 DEF NodeStep

\* An update that waits for its reboot is declared finished after that reboot, on
\* every node, as long as no lead is broken, no daemon crashes and no condition is
\* lost.
THEOREM FinishesAfterReboot ==
  Quiet /\ Faults \cap {"status", "crash"} = {} /\ DaemonSpec /\ []LeadKept
    => FinishOnlyAfterReboot
<1> SUFFICES ASSUME Quiet, Faults \cap {"status", "crash"} = {}
             PROVE  DaemonSpec /\ []LeadKept => FinishOnlyAfterReboot
  OBVIOUS
<1>1. ASSUME UpdateInv, [DaemonNext]_daemonVars, NEW m \in Nodes,
             enc[m].reason = "PostUpdateReboot", enc'[m].reason = "Succeeded"
      PROVE  live[m] = hw[m]
  <2>1. BaseInv /\ DaemonRecords /\ TruthInv(m) /\ ~DeletesAllowed /\ \A n \in Nodes : Own(n)
    BY <1>1 DEF UpdateInv, BaseInv, Quiet
  <2>2. PICK n \in Nodes : NodeStep(n)
    BY <1>1 DEF DaemonNext, NodeStep, daemonVars, daemonOnly
  <2>3. m = n
    BY <1>1, <2>1, <2>2, OthersSame DEF Same, DaemonSame
  <2>4. pc[m] = "report" /\ rep[m].reason = "Succeeded"
    BY <1>1, <2>1, <2>2, <2>3, SucceededIsReported
  <2> QED
    BY <1>1, <2>1, <2>4 DEF TruthInv
<1>2. UpdateInv /\ [DaemonNext]_daemonVars =>
        [\A n \in Nodes : enc[n].reason = "PostUpdateReboot" /\ enc'[n].reason = "Succeeded"
                            => live[n] = hw[n]]_daemonVars
  BY <1>1
<1> QED
  BY <1>2, UpdateInvariant, PTL DEF DaemonSpec, FinishOnlyAfterReboot

-----------------------------------------------------------------------------
(* A single daemon *)

\* With one daemon that can renew, nobody breaks its lead: the cleanup of its own
\* Run is the only one, and it comes after the worker's end.
THEOREM AloneKeepsLead == Alone /\ ~LeaseCanBeLost /\ DaemonSpec => []LeadKept
<1> SUFFICES ASSUME Alone, ~LeaseCanBeLost PROVE DaemonSpec => []LeadKept
  OBVIOUS
<1>1. Init => LeadKept
  BY DEF Init, LeadKept
<1>2. LeadKept /\ [Next]_vars => LeadKept'
  <2> SUFFICES ASSUME LeadKept, [Next]_vars PROVE broken' = {}
    BY DEF LeadKept
  <2>0. broken = {}
    BY DEF LeadKept
  <2>1. ASSUME NEW n \in Nodes, Mitigate(n) PROVE broken' = {}
    BY <2>0, <2>1 DEF Mitigate, Alone
  <2>2. ASSUME NEW n \in Nodes, NEW d \in BOOLEAN,
               \/ RunStart(n, d) \/ RunRejected(n, d) \/ Acquire(n) \/ Renew(n)
               \/ LeadEnd(n) \/ RenewRefused(n) \/ Release(n) \/ RenewLost(n)
               \/ Uncordon(n) \/ ProcessEnd(n)
        PROVE  broken' = {}
    BY <2>0, <2>2 DEF RunStart, RunRejected, Acquire, Renew, LeadEnd, RenewRefused, Release,
                      RenewLost, Uncordon, ProcessEnd
  <2>3. ASSUME NEW n \in Nodes, NEW s \in Slots, NEW b \in BOOLEAN,
               \/ WorkerStep(n, s) \/ WorkEnd(n, s, b)
               \/ GetNodeFails(n, s) \/ CordonOrDrainFails(n, s) \/ UncordonFails(n, s)
        PROVE  broken' = {}
    BY <2>0, <2>3 DEF WorkerStep, GetNode, GetNodeCancelled, GetNodeFails, Cordon, Drain,
                      CordonOrDrainFails, WorkEnd, UncordonNode, UncordonFails, WorkerOnly
  <2>4. CASE UNCHANGED vars
    BY <2>0, <2>4 DEF vars
  <2> QED
    BY <2>1, <2>2, <2>3, <2>4 DEF Next, ElectorStep, FaultStep
<1> QED
  BY <1>1, <1>2, UsesHelper, PTL DEF Spec
===================================================================================
