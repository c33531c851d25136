--------------------------- MODULE NodeConfigDaemon ---------------------------
(***************************************************************************)
(* pkg/fwddp-daemon: the daemon that runs on every node and brings the     *)
(* firmware (FW) and DDP packages of the node's NICs to what the node's    *)
(* EthernetNodeConfig asks for, and its use of pkg/drainhelper.            *)
(*                                                                         *)
(* Reconcile runs in one goroutine per daemon (pc[n]); the function it     *)
(* hands to DrainHelper.Run runs in the worker of DrainHelper (act[n][s]   *)
(* holds the variables that function closes over).  The EthernetNodeConfig *)
(* objects live in the API server (enc).                                   *)
(***************************************************************************)
EXTENDS DrainHelper

CONSTANTS
  Devices,       \* PCI addresses, the same set on every node
  Versions,      \* FW and DDP versions
  None,          \* an empty URL (nothing requested), an unset condition
  Factory,       \* the version found on every device at first
  Cfgs,          \* the spec.config values the manager may write
  Skips,         \* the spec.drainSkip values it may write
  MaxGen,        \* bound: generations of one object
  MaxFaults,     \* bound: failures in one behaviour
  Faults,        \* the kinds of failure that may happen
  EditAnyTime,   \* FALSE: specs change only when the daemon has nothing to do
  DeletesAllowed,\* TRUE: an EthernetNodeConfig may be deleted
  RebootPrompt   \* TRUE: no new Reconcile or start between reboot order and reboot

DeviceCfg == [fw : Versions \cup {None}, ddp : Versions \cup {None}, param : BOOLEAN]

FaultKinds == {"api", "status", "prepare", "update", "reboot", "crash"}

ASSUME VersionsAssumption == None \notin Versions /\ Factory \in Versions
ASSUME CfgsAssumption == Cfgs \subseteq [Devices -> DeviceCfg]
ASSUME SkipsAssumption == Skips \subseteq BOOLEAN
ASSUME BoundsAssumption == MaxGen \in Nat /\ MaxFaults \in Nat /\ Faults \subseteq FaultKinds
ASSUME FlagsAssumption ==
  EditAnyTime \in BOOLEAN /\ DeletesAllowed \in BOOLEAN /\ RebootPrompt \in BOOLEAN

VARIABLES
  enc,        \* the EthernetNodeConfig of every node, in the API server
  queue,      \* the controller's work queue: names to reconcile
  later,      \* names whose RequeueAfter (15 minutes) is running
  pc,         \* where Reconcile is; "off" when the process is down
  nc,         \* Reconcile's nodeConfig
  rep,        \* the condition Reconcile is about to write, and if it requeues
  act,        \* the variables of configureNode's drainFunc, per worker
  hw,         \* the versions stored in (FW) and for (DDP) a device
  live,       \* the versions a device runs
  rebooting,  \* a reboot of the node was ordered and has not happened
  budget      \* failures still allowed

daemonOnly == <<enc, queue, later, pc, nc, rep, act, hw, live, rebooting, budget>>
daemonVars == <<vars, daemonOnly>>

Reasons == {"InProgress", "PostUpdateReboot", "Failed", "NotRequested", "Succeeded"}

ASSUME NoneAssumption == None \notin Reasons

NoCfg == [d \in Devices |-> [fw |-> None, ddp |-> None, param |-> FALSE]]

Stored == [fw : Versions, ddp : Versions]

\* What Reconcile keeps of the object it read: name, generation and spec.
Copy == [m : Nodes, gen : Nat, cfg : [Devices -> DeviceCfg], skip : BOOLEAN]

Object == [exists : BOOLEAN, gen : Nat, cfg : [Devices -> DeviceCfg], skip : BOOLEAN,
           reason : Reasons \cup {None}, obs : Nat]

\* An object as CreateEmptyNodeConfigIfNeeded makes it, and a deleted one.
EmptyObject(there) ==
  [exists |-> there, gen |-> 1, cfg |-> NoCfg, skip |-> FALSE, reason |-> None, obs |-> 0]

NoCopy(n) == [m |-> n, gen |-> 0, cfg |-> NoCfg, skip |-> FALSE]

NoAct(n) == [nc |-> NoCopy(n), todo |-> {}, reboot |-> FALSE, err |-> FALSE, marked |-> FALSE]

NoRep == [reason |-> None, later |-> FALSE]

DaemonTypeOK ==
  /\ TypeOK
  /\ enc \in [Nodes -> Object]
  /\ queue \in [Nodes -> SUBSET Nodes]
  /\ later \in [Nodes -> SUBSET Nodes]
  /\ pc \in [Nodes -> {"off", "idle", "finish", "begin", "prepare", "run", "rejected", "report"}]
  /\ nc \in [Nodes -> Copy]
  /\ rep \in [Nodes -> [reason : Reasons \cup {None}, later : BOOLEAN]]
  /\ act \in [Nodes -> [Slots -> [nc : Copy, todo : SUBSET Devices, reboot : BOOLEAN,
                                  err : BOOLEAN, marked : BOOLEAN]]]
  /\ hw \in [Nodes -> [Devices -> Stored]]
  /\ live \in [Nodes -> [Devices -> Stored]]
  /\ rebooting \in [Nodes -> BOOLEAN]
  /\ budget \in Nat

DaemonInit ==
  /\ Init
  /\ enc = [n \in Nodes |-> EmptyObject(FALSE)]
  /\ queue = [n \in Nodes |-> {}]
  /\ later = [n \in Nodes |-> {}]
  /\ pc = [n \in Nodes |-> "off"]
  /\ nc = [n \in Nodes |-> NoCopy(n)]
  /\ rep = [n \in Nodes |-> NoRep]
  /\ act = [n \in Nodes |-> [s \in Slots |-> NoAct(n)]]
  /\ hw = [n \in Nodes |-> [d \in Devices |-> [fw |-> Factory, ddp |-> Factory]]]
  /\ live = hw
  /\ rebooting = [n \in Nodes |-> FALSE]
  /\ budget = MaxFaults

\* A failure of kind k happens.
Fault(k) ==
  /\ k \in Faults
  /\ budget > 0
  /\ budget' = budget - 1

NoFault == UNCHANGED budget

-----------------------------------------------------------------------------
(* The API server and the work queue *)

Read(m) == [m |-> m, gen |-> enc[m].gen, cfg |-> enc[m].cfg, skip |-> enc[m].skip]

\* updateStatus reads the object again, into the caller's nodeConfig.
Reread(c) == IF enc[c.m].exists THEN Read(c.m) ELSE c

\* updateCondition: the ObservedGeneration is that of the nodeConfig before it
\* is read again; the status becomes this one condition and the inventory.  An
\* object that is gone stays gone (the error is logged).
updateCondition(c, reason) ==
  enc' = IF enc[c.m].exists
           THEN [enc EXCEPT ![c.m].reason = reason, ![c.m].obs = c.gen]
           ELSE enc

\* updateCondition fails: the error is logged and nobody learns of it.
\* The object may have been read again before.
updateConditionLost == Fault("status") /\ UNCHANGED enc

\* CreateEmptyNodeConfigIfNeeded, and the Create event of the new object.
CreateEmptyNodeConfigIfNeeded(n) ==
  enc' = [enc EXCEPT ![n] = IF @.exists THEN @ ELSE EmptyObject(TRUE)]

-----------------------------------------------------------------------------
(* Reconcile *)

CanReconcile(n, m) ==
  /\ pc[n] = "idle"
  /\ m \in queue[n]
  /\ ~(RebootPrompt /\ rebooting[n])

goto(n, l) == pc' = [pc EXCEPT ![n] = l]

\* Reconcile returns: its variables are gone.
return(n) ==
  /\ goto(n, "idle")
  /\ nc' = [nc EXCEPT ![n] = NoCopy(n)]
  /\ rep' = [rep EXCEPT ![n] = NoRep]

\* Reconcile leaves the condition reason behind, with or without requeueLater.
report(n, reason, requeueLater) ==
  /\ goto(n, "report")
  /\ rep' = [rep EXCEPT ![n] = [reason |-> reason, later |-> requeueLater]]

Dequeue(n, m) == queue' = [queue EXCEPT ![n] = @ \ {m}]

\* The object is not there: create the node's own one and requeue the request.
ReconcileNotFound(n, m) ==
  /\ CanReconcile(n, m)
  /\ ~enc[m].exists
  /\ CreateEmptyNodeConfigIfNeeded(n)
  /\ queue' = [queue EXCEPT ![n] = IF enc[n].exists THEN @ ELSE @ \cup {n}]
  /\ UNCHANGED <<vars, later, pc, nc, rep, act, hw, live, rebooting, budget>>

allDeviceConfigsEmpty(c) == c = NoCfg

\* The Get succeeds; what follows depends on the condition and the spec.
ReconcileGet(n, m) ==
  /\ CanReconcile(n, m)
  /\ enc[m].exists
  /\ Dequeue(n, m)
  /\ nc' = [nc EXCEPT ![n] = Read(m)]
  /\ CASE enc[m].reason = "PostUpdateReboot" -> goto(n, "finish") /\ UNCHANGED rep
       [] enc[m].reason # "PostUpdateReboot" /\ allDeviceConfigsEmpty(enc[m].cfg)
            -> report(n, "NotRequested", FALSE)
       [] OTHER -> goto(n, "begin") /\ UNCHANGED rep
  /\ UNCHANGED <<vars, enc, later, act, hw, live, rebooting, budget>>

\* Faulty: success is reported with the node still cordoned.
FinishCordoned(n) ==
  /\ pc[n] = "finish"
  /\ report(n, "Succeeded", FALSE)
  /\ UNCHANGED <<vars, enc, queue, later, nc, act, hw, live, rebooting, budget>>

\* The condition says PostUpdateReboot: uncordon the node and report success.
Finish(n) ==
  /\ pc[n] = "finish"
  /\ Uncordon(n)
  /\ report(n, "Succeeded", FALSE)
  /\ UNCHANGED <<enc, queue, later, nc, act, hw, live, rebooting, budget>>

\* Faulty: a failed uncordon is not tried again.
FinishFailsForGood(n) ==
  /\ pc[n] = "finish"
  /\ Fault("api")
  /\ return(n)
  /\ UNCHANGED <<vars, enc, queue, later, act, hw, live, rebooting>>

FinishFails(n) ==
  /\ pc[n] = "finish"
  /\ Fault("api")
  /\ return(n)
  /\ later' = [later EXCEPT ![n] = @ \cup {nc[n].m}]
  /\ UNCHANGED <<vars, enc, queue, act, hw, live, rebooting>>

\* updateCondition(InProgress).
Begin(n) ==
  /\ pc[n] = "begin"
  /\ \/ /\ updateCondition(nc[n], "InProgress") /\ NoFault
        /\ nc' = [nc EXCEPT ![n] = Reread(@)]
     \/ /\ updateConditionLost
        /\ \E c \in {nc[n], Reread(nc[n])} : nc' = [nc EXCEPT ![n] = c]
  /\ goto(n, "prepare")
  /\ UNCHANGED <<vars, queue, later, rep, act, hw, live, rebooting>>

\* Faulty: a failed preparation is not tried again.
PrepareFailsForGood(n) ==
  /\ pc[n] = "prepare"
  /\ Fault("prepare")
  /\ report(n, "Failed", FALSE)
  /\ UNCHANGED <<vars, enc, queue, later, nc, act, hw, live, rebooting>>

\* prepareUpdateQueue fails: no inventory, a download, checksum or archive
\* that is wrong.
PrepareFails(n) ==
  /\ pc[n] = "prepare"
  /\ Fault("prepare")
  /\ report(n, "Failed", TRUE)
  /\ UNCHANGED <<vars, enc, queue, later, nc, act, hw, live, rebooting>>

\* prepareUpdateQueue succeeds and configureNode calls Run.
Prepare(n) ==
  /\ pc[n] = "prepare"
  /\ \/ RunStart(n, ~nc[n].skip) /\ goto(n, "run")
     \/ RunRejected(n, ~nc[n].skip) /\ goto(n, "rejected")
  /\ UNCHANGED <<enc, queue, later, nc, rep, act, hw, live, rebooting, budget>>

\* Run has returned: configureNode and Reconcile look at its error, then at
\* what drainFunc left in nodeActionErr and rebootRequired - all of it as it
\* is now, whether drainFunc has ended or not.
ConfigureNodeReturn(n) ==
  LET a == act[n][cur[n]]
      err == runErr[n] \/ a.err
  IN /\ pc[n] = "run"
     /\ run[n] = "idle"
     /\ \/ ~err /\ a.reboot /\ return(n)
        \/ /\ err \/ ~a.reboot
           /\ report(n, IF err THEN "Failed" ELSE "Succeeded", err)
           /\ nc' = [nc EXCEPT ![n] = a.nc]
     /\ act' = [act EXCEPT ![n][cur[n]] = IF Active(n, cur[n]) THEN @ ELSE NoAct(n)]
     /\ UNCHANGED <<vars, enc, queue, later, hw, live, rebooting, budget>>

\* Run has returned the error of NewLeaderElector; drainFunc was never called.
ConfigureNodeRejected(n) ==
  /\ pc[n] = "rejected"
  /\ run[n] = "idle"
  /\ report(n, "Failed", TRUE)
  /\ UNCHANGED <<vars, enc, queue, later, nc, act, hw, live, rebooting, budget>>

\* The last updateCondition of a Reconcile, and its result.
Report(n) ==
  /\ pc[n] = "report"
  /\ \/ updateCondition(nc[n], rep[n].reason) /\ NoFault
     \/ updateConditionLost
  /\ return(n)
  /\ later' = [later EXCEPT ![n] = IF rep[n].later THEN @ \cup {nc[n].m} ELSE @]
  /\ UNCHANGED <<vars, queue, act, hw, live, rebooting>>

\* The 15 minutes of requeueLater are over.
RequeueFires(n, m) ==
  /\ m \in later[n]
  /\ later' = [later EXCEPT ![n] = @ \ {m}]
  /\ queue' = [queue EXCEPT ![n] = @ \cup {m}]
  /\ UNCHANGED <<vars, enc, pc, nc, rep, act, hw, live, rebooting, budget>>

-----------------------------------------------------------------------------
(* configureNode's drainFunc, run by the worker *)

\* The elector starts the worker: drainFunc has its updateQueue, one entry per
\* device of the nodeConfig (entries with nothing to do are passed over).
StartLeading(n) ==
  /\ Acquire(n)
  /\ act' = [act EXCEPT ![n][cur'[n]] =
       [nc |-> nc[n], reboot |-> FALSE, err |-> FALSE, marked |-> FALSE,
        todo |-> {d \in Devices : nc[n].cfg[d].fw # None \/ nc[n].cfg[d].ddp # None}]]
  /\ UNCHANGED <<enc, queue, later, pc, nc, rep, hw, live, rebooting, budget>>

\* What nvmupdate64e can do: its exit code, and the RebootRequired flag of the
\* result file it leaves.  A flag of 0 means the new firmware runs already.
FWResult == [code : {0, 50}, flag : {"zero", "one", "unreadable"}]

\* handleFWUpdate: is a reboot required?  Exit codes 50 and 51 say so, then the
\* result file, and a file that cannot be read counts as yes.
handleFWUpdate(res) ==
  res.code = 50 \/ res.flag \in {"one", "unreadable"}

Working(n, s) == worker[n][s].pc = "work" /\ ~act[n][s].err

\* Faulty: the reboot a DDP package needs is forgotten.
UpdateDeviceFwRebootOnly(n, s, d) ==
  LET want == act[n][s].nc.cfg[d]
      fw  == IF want.fw = None THEN hw[n][d].fw ELSE want.fw
      ddp == IF want.ddp = None THEN hw[n][d].ddp ELSE want.ddp
  IN /\ Working(n, s)
     /\ d \in act[n][s].todo
     /\ hw' = [hw EXCEPT ![n][d] = [fw |-> fw, ddp |-> ddp]]
     /\ \E res \in FWResult :
          LET fwReboot == want.fw # None /\ handleFWUpdate(res)
          IN /\ act' = [act EXCEPT ![n][s].todo = @ \ {d},
                          ![n][s].reboot = @ \/ fwReboot]
             /\ live' = [live EXCEPT ![n][d].fw =
                           IF want.fw # None /\ ~fwReboot THEN fw ELSE @]
     /\ UNCHANGED <<vars, enc, queue, later, pc, nc, rep, rebooting, budget>>

\* One round of the loop over updateQueue, in the random order of a Go map:
\* FW, then DDP.  A DDP package is loaded at boot, so it always asks for one.
UpdateDevice(n, s, d) ==
  LET want == act[n][s].nc.cfg[d]
      fw  == IF want.fw = None THEN hw[n][d].fw ELSE want.fw
      ddp == IF want.ddp = None THEN hw[n][d].ddp ELSE want.ddp
  IN /\ Working(n, s)
     /\ d \in act[n][s].todo
     /\ hw' = [hw EXCEPT ![n][d] = [fw |-> fw, ddp |-> ddp]]
     /\ \E res \in FWResult :
          LET fwReboot == want.fw # None /\ handleFWUpdate(res)
          IN /\ act' = [act EXCEPT ![n][s].todo = @ \ {d},
                          ![n][s].reboot = @ \/ fwReboot \/ want.ddp # None]
             /\ live' = [live EXCEPT ![n][d].fw =
                           IF want.fw # None /\ ~fwReboot THEN fw ELSE @]
     /\ UNCHANGED <<vars, enc, queue, later, pc, nc, rep, rebooting, budget>>

\* handleFWUpdate fails, or it succeeds and handleDDPUpdate fails: drainFunc
\* returns with nodeActionErr set and the rest of the queue undone.
UpdateDeviceFails(n, s, d) ==
  LET want == act[n][s].nc.cfg[d]
  IN /\ Working(n, s)
     /\ d \in act[n][s].todo
     /\ Fault("update")
     /\ \/ want.fw # None /\ UNCHANGED hw
        \/ /\ want.ddp # None
           /\ hw' = [hw EXCEPT ![n][d].fw = IF want.fw = None THEN @ ELSE want.fw]
     /\ act' = [act EXCEPT ![n][s].err = TRUE]
     /\ UNCHANGED <<vars, enc, queue, later, pc, nc, rep, live, rebooting>>

\* drainFunc returns true: an update failed, or no reboot is required.
UpdatesEnd(n, s) ==
  /\ \/ act[n][s].err
     \/ act[n][s].todo = {} /\ ~act[n][s].reboot
  /\ WorkEnd(n, s, TRUE)
  /\ UNCHANGED daemonOnly

\* All devices are done and a reboot is required: updateCondition first ...
MarkReboot(n, s) ==
  /\ Working(n, s)
  /\ act[n][s].todo = {} /\ act[n][s].reboot /\ ~act[n][s].marked
  /\ \/ /\ updateCondition(act[n][s].nc, "PostUpdateReboot") /\ NoFault
        /\ act' = [act EXCEPT ![n][s].marked = TRUE, ![n][s].nc = Reread(@)]
     \/ /\ updateConditionLost
        /\ \E c \in {act[n][s].nc, Reread(act[n][s].nc)} :
             act' = [act EXCEPT ![n][s].marked = TRUE, ![n][s].nc = c]
  /\ UNCHANGED <<vars, queue, later, pc, nc, rep, hw, live, rebooting>>

\* Faulty: drainFunc returns true, so the node is uncordoned before it reboots.
rebootNodeUncordoned(n, s) ==
  /\ Working(n, s)
  /\ act[n][s].marked
  /\ rebooting' = [rebooting EXCEPT ![n] = TRUE]
  /\ WorkEnd(n, s, TRUE)
  /\ UNCHANGED <<enc, queue, later, pc, nc, rep, act, hw, live, budget>>

\* ... then rebootNode orders the reboot, and drainFunc returns false.
rebootNode(n, s) ==
  /\ Working(n, s)
  /\ act[n][s].marked
  /\ rebooting' = [rebooting EXCEPT ![n] = TRUE]
  /\ WorkEnd(n, s, FALSE)
  /\ UNCHANGED <<enc, queue, later, pc, nc, rep, act, hw, live, budget>>

\* Faulty: the error of rebootNode is dropped.
rebootNodeFailsUnseen(n, s) ==
  /\ Working(n, s)
  /\ act[n][s].marked
  /\ Fault("reboot")
  /\ WorkEnd(n, s, FALSE)
  /\ UNCHANGED <<enc, queue, later, pc, nc, rep, act, hw, live, rebooting>>

rebootNodeFails(n, s) ==
  /\ Working(n, s)
  /\ act[n][s].marked
  /\ Fault("reboot")
  /\ act' = [act EXCEPT ![n][s].err = TRUE]
  /\ WorkEnd(n, s, FALSE)
  /\ UNCHANGED <<enc, queue, later, pc, nc, rep, hw, live, rebooting>>

-----------------------------------------------------------------------------
(* The process, the node, and those who write the spec *)

\* main: create the object if needed, start the manager; the first list of the
\* informer brings a Create event for the daemon's own object.
Start(n) ==
  /\ pc[n] = "off"
  /\ ~(RebootPrompt /\ rebooting[n])
  /\ CreateEmptyNodeConfigIfNeeded(n)
  /\ goto(n, "idle")
  /\ queue' = [queue EXCEPT ![n] = {n}]
  /\ UNCHANGED <<vars, later, nc, rep, act, hw, live, rebooting, budget>>

\* The process and all that it kept in memory is gone.
ProcessGone(n) ==
  /\ ProcessEnd(n)
  /\ goto(n, "off")
  /\ queue' = [queue EXCEPT ![n] = {}]
  /\ later' = [later EXCEPT ![n] = {}]
  /\ nc' = [nc EXCEPT ![n] = NoCopy(n)]
  /\ rep' = [rep EXCEPT ![n] = NoRep]
  /\ act' = [act EXCEPT ![n] = [s \in Slots |-> NoAct(n)]]

\* The ordered reboot: what is stored in and for the devices becomes live.
Reboot(n) ==
  /\ rebooting[n]
  /\ rebooting' = [rebooting EXCEPT ![n] = FALSE]
  /\ live' = [live EXCEPT ![n] = hw[n]]
  /\ ProcessGone(n)
  /\ UNCHANGED <<enc, hw, budget>>

Crash(n) ==
  /\ pc[n] # "off"
  /\ Fault("crash")
  /\ ProcessGone(n)
  /\ UNCHANGED <<enc, hw, live, rebooting>>

\* The daemon of m has nothing left to do for its object.
Settled(m) ==
  /\ pc[m] = "idle" /\ queue[m] = {} /\ later[m] = {} /\ ~rebooting[m]
  /\ ~Draining(m)

\* The manager (or a user) writes the spec; the daemon gets an Update event.
UpdateSpec(m, c, skip) ==
  /\ enc[m].exists
  /\ enc[m].gen < MaxGen
  /\ EditAnyTime \/ Settled(m)
  /\ <<c, skip>> # <<enc[m].cfg, enc[m].skip>>
  /\ enc' = [enc EXCEPT ![m].cfg = c, ![m].skip = skip, ![m].gen = @ + 1]
  /\ queue' = [queue EXCEPT ![m] = IF pc[m] = "off" THEN @ ELSE @ \cup {m}]
  /\ UNCHANGED <<vars, later, pc, nc, rep, act, hw, live, rebooting, budget>>

\* ResourceNamePredicate filters Create and Update events by name, not Delete
\* events: those reach every running daemon.
DeleteEvent(n, m) == pc[n] # "off"

Delete(m) ==
  /\ DeletesAllowed
  /\ enc[m].exists
  /\ enc' = [enc EXCEPT ![m] = EmptyObject(FALSE)]
  /\ queue' = [n \in Nodes |-> IF DeleteEvent(n, m) THEN queue[n] \cup {m} ELSE queue[n]]
  /\ UNCHANGED <<vars, later, pc, nc, rep, act, hw, live, rebooting, budget>>

-----------------------------------------------------------------------------
ReconcileStep(n) ==
  \/ \E m \in Nodes : ReconcileNotFound(n, m) \/ ReconcileGet(n, m)
  \/ Finish(n) \/ FinishFails(n) \/ Begin(n) \/ PrepareFails(n) \/ Prepare(n)
  \/ ConfigureNodeReturn(n) \/ ConfigureNodeRejected(n) \/ Report(n)

FunctionStep(n, s) ==
  \/ \E d \in Devices : UpdateDevice(n, s, d) \/ UpdateDeviceFails(n, s, d)
  \/ UpdatesEnd(n, s) \/ MarkReboot(n, s) \/ rebootNode(n, s) \/ rebootNodeFails(n, s)

HelperStep(n) ==
  \/ /\ ElectorStep(n) \/ \E s \in Slots : WorkerStep(n, s)
     /\ UNCHANGED daemonOnly
  \/ /\ FaultStep(n)
     /\ Fault("api")
     /\ UNCHANGED <<enc, queue, later, pc, nc, rep, act, hw, live, rebooting>>

EnvironmentStep(n) ==
  \/ \E m \in Nodes : RequeueFires(n, m)
  \/ Start(n) \/ Reboot(n) \/ Crash(n)
  \/ \E c \in Cfgs, skip \in Skips : UpdateSpec(n, c, skip)
  \/ Delete(n)

DaemonNext ==
  \E n \in Nodes :
    \/ ReconcileStep(n) \/ StartLeading(n) \/ HelperStep(n) \/ EnvironmentStep(n)
    \/ \E s \in Slots : FunctionStep(n, s)

DaemonSpec == DaemonInit /\ [][DaemonNext]_daemonVars

\* Goroutines are scheduled, a timer fires, an ordered reboot happens, the
\* DaemonSet restarts the process, a lease duration that is refused again and
\* again is corrected some day; elections as in DrainHelper.
DaemonFairness ==
  \A n \in Nodes :
    /\ WF_daemonVars(ReconcileStep(n))
    /\ SF_daemonVars(Prepare(n) /\ pc'[n] = "run")
    /\ SF_daemonVars(StartLeading(n))
    /\ WF_daemonVars(HelperStep(n))
    /\ \A s \in Slots : WF_daemonVars(FunctionStep(n, s))
    /\ \A m \in Nodes : WF_daemonVars(RequeueFires(n, m))
    /\ WF_daemonVars(Start(n))
    /\ WF_daemonVars(Reboot(n))

DaemonFairSpec == DaemonSpec /\ DaemonFairness
-----------------------------------------------------------------------------
(* Properties *)

\* What the spec of node n's object asks for runs on the devices of n.
Applied(n) ==
  \A d \in Devices :
    /\ enc[n].cfg[d].fw # None => live[n][d].fw = enc[n].cfg[d].fw
    /\ enc[n].cfg[d].ddp # None => live[n][d].ddp = enc[n].cfg[d].ddp

\* A condition Succeeded for the current generation tells the truth: every
\* version the spec asks for is the one the device runs (doNotRequeue:
\* "everything is configured as expected").
SucceededMeansApplied ==
  \A n \in Nodes :
    enc[n].exists /\ enc[n].reason = "Succeeded" /\ enc[n].obs = enc[n].gen => Applied(n)

\* An update left unfinished (InProgress, Failed, waiting for its reboot) is
\* always going to be taken up again: it is running, queued, timed, or comes
\* back with the process.  Not so once the node's lead was broken: Run may have
\* returned nil while its function was still running or failed.
UnfinishedIsPending ==
  \A n \in Nodes \ broken :
    enc[n].exists /\ enc[n].reason \in {"InProgress", "Failed", "PostUpdateReboot"} =>
      pc[n] # "idle" \/ n \in queue[n] \cup later[n] \/ rebooting[n]

\* What is stored in the devices of a node changes only while the node holds
\* the lease, or after its lead was broken: no two nodes of the cluster are
\* flashed at the same time that did not lose their lead under way.
FlashOnlyByLeader ==
  [][\A n \in Nodes : hw'[n] # hw[n] => lease = n \/ n \in broken]_daemonVars

\* A node about to reboot is out of service and stays so: nobody puts it back
\* between the drain and the reboot, unless its spec asked to skip the drain.
\* (The variables have their types.)
RebootOnlyDrained ==
  DaemonTypeOK /\ \A n \in Nodes : rebooting[n] => cordoned[n] \/ enc[n].skip

\* The update is declared finished after the reboot it waited for ("Post-update
\* node reboot completed, finishing update...").
FinishOnlyAfterReboot ==
  [][\A n \in Nodes :
       enc[n].reason = "PostUpdateReboot" /\ enc'[n].reason = "Succeeded"
         => live[n] = hw[n]]_daemonVars

\* A node does not stay out of service for good while its spec asks for versions
\* and for draining, whatever fails, crashes or is edited.  It does when the spec
\* ends up asking for nothing or for no draining (no Reconcile uncordons it
\* then), or when its lead was broken (the uncordon has lost its context, and
\* Run may have returned nil).
CordonIsTemporary ==
  \A n \in Nodes :
    []<>\/ ~cordoned[n]
        \/ allDeviceConfigsEmpty(enc[n].cfg) \/ enc[n].skip
        \/ n \in broken

\* With specs that stop changing and finitely many failures, every object ends
\* up with a final condition for its current generation.
UpdatesComplete ==
  <>[](\A n \in Nodes : /\ enc[n].exists
                        /\ enc[n].reason \in {"Succeeded", "NotRequested"}
                        /\ enc[n].obs = enc[n].gen)
=============================================================================
