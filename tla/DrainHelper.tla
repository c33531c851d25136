------------------------------ MODULE DrainHelper ------------------------------
(***************************************************************************)
(* pkg/drainhelper/drainhelper.go: the helper every fwddp-daemon uses to   *)
(* take its node out of service, run a function on it and put it back,     *)
(* while it leads an election on the one Lease "clv-daemon-lease".         *)
(*                                                                         *)
(* Run is two threads of control.  The caller's goroutine is in the leader *)
(* elector (run[n]); OnStartedLeading is a goroutine of its own, here a    *)
(* worker in one of the node's slots.  The elector does not wait for it:   *)
(* when the lease cannot be renewed Run returns and the worker carries on  *)
(* with a cancelled context, beside the worker of a later Run.             *)
(***************************************************************************)
EXTENDS Integers

CONSTANTS
  Nodes,          \* the nodes, each with one daemon (leaseLock identity = node name)
  NoHolder,       \* the empty HolderIdentity
  Slots,          \* OnStartedLeading goroutines a daemon may have alive at once
  LeaseDuration,  \* per node, the values that LEASE_DURATION_SECONDS of its daemon
                  \* may have (default 600)
  Steps,          \* attempts of the two ExponentialBackoffs (5 in the code)
  LeaseCanBeLost  \* TRUE: renewing can fail for the whole RenewDeadline

ASSUME NodesAssumption == NoHolder \notin Nodes
ASSUME SlotsAssumption == Slots # {}
ASSUME DurationAssumption == LeaseDuration \in [Nodes -> SUBSET Nat]
ASSUME StepsAssumption == Steps \in Nat \ {0}
ASSUME SwitchAssumption == LeaseCanBeLost \in BOOLEAN

VARIABLES
  lease,     \* HolderIdentity of the Lease in the API server
  run,       \* where the goroutine that called Run is
  drain,     \* Run's argument drain
  cur,       \* the slot of the worker the last elector of the node started
  worker,    \* the OnStartedLeading goroutines
  runErr,    \* the error (or nil) the last Run of the node returned
  cordoned,  \* Spec.Unschedulable of the Node objects
  broken     \* history: the nodes whose lead ended, or whose lease was emptied by
             \* another daemon, while their worker was alive; until the process
             \* ends or the node leads again with no worker left

vars == <<lease, run, drain, cur, worker, runErr, cordoned, broken>>

RunStates == {"idle", "acquire", "renew", "release", "mitigate"}

WorkerStates ==
  {"getnode", "cordon", "drain", "work", "ungetnode", "uncordon", "done"}

Worker == [pc : WorkerStates, drain : BOOLEAN, cancelled : BOOLEAN,
           tries : 0 .. (Steps - 1), err : BOOLEAN, keep : BOOLEAN]

\* A goroutine that ended (or never was): its slot is free.
Ended == [pc |-> "done", drain |-> FALSE, cancelled |-> FALSE, tries |-> 0,
          err |-> FALSE, keep |-> FALSE]

TypeOK ==
  /\ lease \in Nodes \cup {NoHolder}
  /\ run \in [Nodes -> RunStates]
  /\ drain \in [Nodes -> BOOLEAN]
  /\ cur \in [Nodes -> Slots]
  /\ worker \in [Nodes -> [Slots -> Worker]]
  /\ runErr \in [Nodes -> BOOLEAN]
  /\ cordoned \in [Nodes -> BOOLEAN]
  /\ broken \subseteq Nodes

Init ==
  /\ lease = NoHolder
  /\ run = [n \in Nodes |-> "idle"]
  /\ drain = [n \in Nodes |-> FALSE]
  /\ cur \in [Nodes -> Slots]
  /\ worker = [n \in Nodes |-> [s \in Slots |-> Ended]]
  /\ runErr = [n \in Nodes |-> FALSE]
  /\ cordoned = [n \in Nodes |-> FALSE]
  /\ broken = {}

RenewDeadline == 15

\* NewLeaderElector refuses a LeaseDuration that is not above RenewDeadline.
ElectorValid(seconds) == seconds > RenewDeadline

\* The goroutine of slot s is still between OnStartedLeading and its end.
Active(n, s) == worker[n][s].pc # "done"

Draining(n) == \E s \in Slots : Active(n, s)

\* The elector of the holder is at work: it refreshes the lease every
\* RetryPeriod, and the two calls that end Run take less than a LeaseDuration.
\* In any other state the record goes unrefreshed until it expires.
Refreshed == lease # NoHolder /\ run[lease] \in {"renew", "release", "mitigate"}

SetWorker(n, s, w) == worker' = [worker EXCEPT ![n][s] = w]

-----------------------------------------------------------------------------
(* The goroutine that called Run *)

\* Faulty: the node is cordoned before the election, not by its winner.
RunStartCordoning(n, d) ==
  /\ run[n] = "idle"
  /\ \E t \in LeaseDuration[n] : ElectorValid(t)
  /\ run' = [run EXCEPT ![n] = "acquire"]
  /\ drain' = [drain EXCEPT ![n] = d]
  /\ cordoned' = [cordoned EXCEPT ![n] = @ \/ d]
  /\ UNCHANGED <<lease, cur, worker, runErr, broken>>

\* Run is called and the elector accepts the configuration.  (The value is read
\* when the daemon starts; here it may also change from one Run to the next.)
RunStart(n, d) ==
  /\ run[n] = "idle"
  /\ \E t \in LeaseDuration[n] : ElectorValid(t)
  /\ run' = [run EXCEPT ![n] = "acquire"]
  /\ drain' = [drain EXCEPT ![n] = d]
  /\ UNCHANGED <<lease, cur, worker, runErr, cordoned, broken>>

\* NewLeaderElector fails: Run returns the error, through the deferred cleanup.
RunRejected(n, d) ==
  /\ run[n] = "idle"
  /\ \E t \in LeaseDuration[n] : ~ElectorValid(t)
  /\ run' = [run EXCEPT ![n] = "mitigate"]
  /\ drain' = [drain EXCEPT ![n] = d]
  /\ runErr' = [runErr EXCEPT ![n] = TRUE]
  /\ UNCHANGED <<lease, cur, worker, cordoned, broken>>

\* The elector finds the lease free, its own, or expired; it takes it and
\* starts the OnStartedLeading goroutine.
Acquire(n) ==
  /\ run[n] = "acquire"
  /\ lease = n \/ ~Refreshed
  /\ lease' = n
  /\ run' = [run EXCEPT ![n] = "renew"]
  /\ \E s \in Slots :
       /\ ~Active(n, s)
       /\ cur' = [cur EXCEPT ![n] = s]
       /\ SetWorker(n, s, [Ended EXCEPT !.pc = IF drain[n] THEN "getnode" ELSE "work",
                                        !.drain = drain[n]])
  /\ broken' = IF Draining(n) THEN broken ELSE broken \ {n}
  /\ UNCHANGED <<drain, runErr, cordoned>>

\* The renew loop finds an empty HolderIdentity and writes its own again
\* (finding its own there changes nothing that is modelled).
Renew(n) ==
  /\ run[n] = "renew"
  /\ lease = NoHolder
  /\ lease' = n
  /\ UNCHANGED <<run, drain, cur, worker, runErr, cordoned, broken>>

\* The elector stops and cancels the context the worker was given.
StopLeading(n) ==
  /\ run' = [run EXCEPT ![n] = "release"]
  /\ SetWorker(n, cur[n], [worker[n][cur[n]] EXCEPT !.cancelled = TRUE])
  /\ UNCHANGED <<lease, drain, cur, runErr, cordoned>>

\* Faulty: cancel() is called when the worker starts, not deferred to its end.
LeadEndEarly(n) ==
  /\ run[n] = "renew"
  /\ StopLeading(n)
  /\ UNCHANGED broken

\* Faulty: cancel() is not deferred, so an early return of the worker skips it.
LeadEndUnlessError(n) ==
  /\ run[n] = "renew"
  /\ ~Active(n, cur[n]) /\ ~worker[n][cur[n]].err
  /\ StopLeading(n)
  /\ UNCHANGED broken

\* The worker ended and its deferred cancel() ends the renew loop.
LeadEnd(n) ==
  /\ run[n] = "renew"
  /\ ~Active(n, cur[n])
  /\ StopLeading(n)
  /\ UNCHANGED broken

\* Another identity holds the lease, so renewing fails until RenewDeadline.
\* (Whatever let it take the lease has been counted in broken.)
RenewRefused(n) ==
  /\ run[n] = "renew"
  /\ lease \notin {n, NoHolder}
  /\ StopLeading(n)
  /\ UNCHANGED broken

\* The API server is out of reach for RenewDeadline.
RenewLost(n) ==
  /\ LeaseCanBeLost
  /\ run[n] = "renew"
  /\ StopLeading(n)
  /\ broken' = IF Draining(n) THEN broken \cup {n} ELSE broken

\* Faulty: Run returns nil whatever the worker met.
ReleaseIgnoringError(n) ==
  /\ run[n] = "release"
  /\ lease' \in IF lease = n THEN {lease, NoHolder} ELSE {lease}
  /\ run' = [run EXCEPT ![n] = "mitigate"]
  /\ runErr' = [runErr EXCEPT ![n] = FALSE]
  /\ UNCHANGED <<drain, cur, worker, cordoned, broken>>

\* release() of the elector (an update that empties the HolderIdentity if the
\* elector still is the leader, and that can fail), then le.Run returns and
\* Run evaluates the innerErr it returns.
Release(n) ==
  /\ run[n] = "release"
  /\ lease' \in IF lease = n THEN {lease, NoHolder} ELSE {lease}
  /\ run' = [run EXCEPT ![n] = "mitigate"]
  /\ runErr' = [runErr EXCEPT ![n] = worker[n][cur[n]].err]
  /\ UNCHANGED <<drain, cur, worker, cordoned, broken>>

\* The deferred "bug mitigation": Get the record and empty its HolderIdentity,
\* whoever it names.  Either call may fail (an update in between is refused by
\* its resourceVersion), which is only logged.
Mitigate(n) ==
  /\ run[n] = "mitigate"
  /\ \/ lease' = lease /\ UNCHANGED broken
     \/ /\ lease' = NoHolder
        /\ broken' = broken \cup {m \in Nodes \ {n} : m = lease /\ Draining(m)}
  /\ run' = [run EXCEPT ![n] = "idle"]
  /\ UNCHANGED <<drain, cur, worker, runErr, cordoned>>

-----------------------------------------------------------------------------
(* The OnStartedLeading goroutine *)

Step(n, s, from, to) ==
  /\ worker[n][s].pc = from
  /\ SetWorker(n, s, [worker[n][s] EXCEPT !.pc = to, !.tries = 0])

\* An error of cordonAndDrain, or of Uncordon, becomes innerErr.
Fail(n, s, from, to) ==
  /\ worker[n][s].pc = from
  /\ SetWorker(n, s, [worker[n][s] EXCEPT !.pc = to, !.tries = 0, !.err = TRUE])

\* Faulty: one attempt too many.
RetryOnceMore(n, s, from, again, giveup) ==
  /\ worker[n][s].pc = from
  /\ IF worker[n][s].tries + 1 <= Steps
       THEN SetWorker(n, s, [worker[n][s] EXCEPT !.pc = again, !.tries = @ + 1])
       ELSE Fail(n, s, from, giveup)

\* One attempt of an ExponentialBackoff failed: try again from pc again, or
\* give up after Steps attempts.
Retry(n, s, from, again, giveup) ==
  /\ worker[n][s].pc = from
  /\ IF worker[n][s].tries + 1 < Steps
       THEN SetWorker(n, s, [worker[n][s] EXCEPT !.pc = again, !.tries = @ + 1])
       ELSE Fail(n, s, from, giveup)

WorkerOnly == UNCHANGED <<lease, run, drain, cur, runErr, broken>>

\* Nodes().Get with the worker's context.
GetNode(n, s) ==
  /\ ~worker[n][s].cancelled
  /\ \/ Step(n, s, "getnode", "cordon")
     \/ Step(n, s, "ungetnode", "uncordon")
  /\ WorkerOnly /\ UNCHANGED cordoned

\* The same Get after the context was cancelled: it cannot succeed.
GetNodeCancelled(n, s) ==
  /\ worker[n][s].cancelled
  /\ \/ Fail(n, s, "getnode", "ungetnode")
     \/ Fail(n, s, "ungetnode", "done")
  /\ WorkerOnly /\ UNCHANGED cordoned

GetNodeFails(n, s) ==
  /\ ~worker[n][s].cancelled
  /\ \/ Fail(n, s, "getnode", "ungetnode")
     \/ Fail(n, s, "ungetnode", "done")
  /\ WorkerOnly /\ UNCHANGED cordoned

\* drain.RunCordonOrUncordon(..., true); the drainer has a context of its own,
\* which nobody cancels.
Cordon(n, s) ==
  /\ worker[n][s].pc = "cordon"
  /\ SetWorker(n, s, [worker[n][s] EXCEPT !.pc = "drain"])
  /\ cordoned' = [cordoned EXCEPT ![n] = TRUE]
  /\ WorkerOnly

\* drain.RunNodeDrain; then f is called.
Drain(n, s) ==
  /\ Step(n, s, "drain", "work")
  /\ WorkerOnly /\ UNCHANGED cordoned

\* Faulty: the worker goes on to f when the attempts to cordon or drain are used up.
CordonOrDrainFailsAndWork(n, s) ==
  /\ \/ Retry(n, s, "cordon", "cordon", "work")
     \/ Retry(n, s, "drain", "cordon", "work")
  /\ WorkerOnly /\ UNCHANGED cordoned

CordonOrDrainFails(n, s) ==
  /\ \/ Retry(n, s, "cordon", "cordon", "ungetnode")
     \/ Retry(n, s, "drain", "cordon", "ungetnode")
  /\ WorkerOnly /\ UNCHANGED cordoned

\* f returns performUncordon.
WorkEnd(n, s, performUncordon) ==
  /\ worker[n][s].pc = "work"
  /\ SetWorker(n, s,
       [worker[n][s] EXCEPT
          !.pc = IF worker[n][s].drain /\ performUncordon THEN "ungetnode" ELSE "done",
          !.keep = ~performUncordon])
  /\ WorkerOnly /\ UNCHANGED cordoned

\* drain.RunCordonOrUncordon(..., false), the last thing the worker does.
UncordonNode(n, s) ==
  /\ Step(n, s, "uncordon", "done")
  /\ cordoned' = [cordoned EXCEPT ![n] = FALSE]
  /\ WorkerOnly

UncordonFails(n, s) ==
  /\ Retry(n, s, "uncordon", "uncordon", "done")
  /\ WorkerOnly /\ UNCHANGED cordoned

-----------------------------------------------------------------------------
(* Uncordon called by the reconciler itself, and the end of the process *)

\* The exported Uncordon, called between two Runs, succeeds.
Uncordon(n) ==
  /\ run[n] = "idle"
  /\ cordoned' = [cordoned EXCEPT ![n] = FALSE]
  /\ UNCHANGED <<lease, run, drain, cur, worker, runErr, broken>>

\* The daemon's process ends (killed, node rebooted): its goroutines are gone,
\* the lease and the Node object are not.
ProcessEnd(n) ==
  /\ run' = [run EXCEPT ![n] = "idle"]
  /\ worker' = [worker EXCEPT ![n] = [s \in Slots |-> Ended]]
  /\ drain' = [drain EXCEPT ![n] = FALSE]
  /\ runErr' = [runErr EXCEPT ![n] = FALSE]
  /\ broken' = broken \ {n}
  /\ UNCHANGED <<lease, cur, cordoned>>

-----------------------------------------------------------------------------
\* What the elector and the end of Run do once the lease was taken.
ElectorStep(n) ==
  Renew(n) \/ LeadEnd(n) \/ RenewRefused(n) \/ Release(n) \/ Mitigate(n)

\* What a worker does by itself, f excepted.
WorkerStep(n, s) ==
  \/ GetNode(n, s) \/ GetNodeCancelled(n, s)
  \/ Cordon(n, s) \/ Drain(n, s) \/ UncordonNode(n, s)

\* What only happens when a call to the API server fails.
FaultStep(n) ==
  \/ RenewLost(n)
  \/ \E s \in Slots : GetNodeFails(n, s) \/ CordonOrDrainFails(n, s) \/ UncordonFails(n, s)

\* f decides and the process ends as they like: the callers refine these.
Next ==
  \E n \in Nodes :
    \/ \E d \in BOOLEAN : RunStart(n, d) \/ RunRejected(n, d)
    \/ Acquire(n) \/ ElectorStep(n)
    \/ FaultStep(n)
    \/ Uncordon(n)
    \/ ProcessEnd(n)
    \/ \E s \in Slots : WorkerStep(n, s) \/ (\E b \in BOOLEAN : WorkEnd(n, s, b))

Spec == Init /\ [][Next]_vars

\* Goroutines are scheduled and f returns.  The elector polls for the lease
\* with a jittered RetryPeriod for as long as Run lasts, so a lease that is
\* free again and again is found free: strong fairness for Acquire.
Fairness ==
  \A n \in Nodes :
    /\ SF_vars(Acquire(n))
    /\ WF_vars(LeadEnd(n) \/ RenewRefused(n) \/ Release(n) \/ Mitigate(n))
    /\ \A s \in Slots :
         WF_vars(WorkerStep(n, s) \/ \E b \in BOOLEAN : WorkEnd(n, s, b))

FairSpec == Spec /\ Fairness
-----------------------------------------------------------------------------
(* Properties *)

\* A node that nobody broke into is drained and worked on only while it holds
\* the lease, by the one worker of the elector that is renewing (the doc comment
\* of Run: the node is drained "if becomes a leader").  The lead of a node is
\* lost under its worker in two ways only: renewing fails for RenewDeadline, or
\* the cleanup of another daemon's Run empties a lease that has passed on.
DrainOnlyWhileLeader ==
  \A n \in Nodes \ broken, s \in Slots :
    Active(n, s) => lease = n /\ run[n] = "renew" /\ cur[n] = s

\* f runs on a node that is out of service from its first to its last step,
\* unless the node's lead was broken: no direct Uncordon, and no worker of an
\* earlier lead, puts it back meanwhile.
WorkOnDrainedNode ==
  \A n \in Nodes \ broken, s \in Slots :
    worker[n][s].pc = "work" /\ worker[n][s].drain => cordoned[n]

\* When Run has returned nil after a drain and f did not ask to stay cordoned,
\* the node is schedulable again ("always try to uncordon the node"), unless
\* the lead was broken and the worker outlived its Run.
NilReturnMeansUncordoned ==
  \A n \in Nodes \ broken :
    LET w == worker[n][cur[n]]
    IN  run[n] = "idle" /\ ~runErr[n] /\ w.drain /\ ~w.keep => ~cordoned[n]

\* While f works on a node no other node has the lease ("reboot must be performed
\* without loosing the leadership").  This does not hold: the release() of the
\* elector works, the next node leads, and the cleanup that was written for a
\* release that fails empties the lease of that node.
WorkKeepsLead ==
  \A n \in Nodes, s \in Slots : worker[n][s].pc = "work" => lease \in {n, NoHolder}

\* Run returns, whatever becomes of the lease: a lease its holder no longer
\* refreshes is taken over ("another node will take it after some time"), and
\* Run does not wait for a worker that lost its context.
RunReturns ==
  \A n \in Nodes : run[n] = "acquire" ~> run[n] = "idle"

\* What the helper promises its users, stated without elector or lease: one
\* node at a time, beside those whose lead was broken.
Window == INSTANCE MaintenanceWindow
            WITH inside <- {n \in Nodes : Draining(n)}
WindowSpec == Window!Spec
=============================================================================
