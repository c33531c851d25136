--------------------------- MODULE DrainHelperProofs ---------------------------
(***************************************************************************)
(* Theorems about DrainHelper, for every set of nodes and of slots, every  *)
(* number of attempts and every lease duration.                            *)
(***************************************************************************)
EXTENDS DrainHelper, TLAPS

-----------------------------------------------------------------------------
(* Type correctness *)

\* A worker's record stays a worker's record under the updates the goroutine
\* makes to it.
LEMMA WorkerUpdate ==
  ASSUME TypeOK, NEW n \in Nodes, NEW s \in Slots, NEW w \in Worker, SetWorker(n, s, w)
  PROVE  worker' \in [Nodes -> [Slots -> Worker]]
BY DEF TypeOK, SetWorker

\* The updates of single fields that the steps of a worker make.
LEMMA WorkerFields ==
  ASSUME NEW w \in Worker, NEW p \in WorkerStates, NEW t \in 0 .. (Steps - 1), NEW b \in BOOLEAN
  PROVE  /\ [w EXCEPT !.pc = p] \in Worker
         /\ [w EXCEPT !.cancelled = b] \in Worker
         /\ [w EXCEPT !.pc = p, !.tries = t] \in Worker
         /\ [w EXCEPT !.pc = p, !.tries = t, !.err = b] \in Worker
         /\ [w EXCEPT !.pc = p, !.keep = b] \in Worker
         /\ [w EXCEPT !.pc = p, !.drain = b] \in Worker
BY Zenon DEF Worker

\* ... and what these updates leave in the other fields.
LEMMA WorkerFieldValues ==
  ASSUME NEW w \in Worker, NEW p, NEW t, NEW b
  PROVE  /\ LET v == [w EXCEPT !.pc = p, !.tries = t]
            IN  v.pc = p /\ v.drain = w.drain /\ v.keep = w.keep /\ v.err = w.err
         /\ LET v == [w EXCEPT !.pc = p, !.tries = t, !.err = b]
            IN  v.pc = p /\ v.drain = w.drain /\ v.keep = w.keep /\ v.err = b
BY DEF Worker

\* A worker that has ended.
LEMMA EndedType == Ended \in Worker
BY StepsAssumption DEF Ended, Worker, WorkerStates

\* Moving a worker's pc, with or without an error, and an attempt that failed.
LEMMA WorkerMoves ==
  ASSUME TypeOK, NEW n \in Nodes, NEW s \in Slots,
         NEW from \in WorkerStates, NEW to \in WorkerStates, NEW again \in WorkerStates,
         Step(n, s, from, to) \/ Fail(n, s, from, to) \/ Retry(n, s, from, again, to)
  PROVE  worker' \in [Nodes -> [Slots -> Worker]]
<1> DEFINE w == worker[n][s]
<1>0. w \in Worker
  BY DEF TypeOK
<1>a. 0 \in 0 .. (Steps - 1) /\ TRUE \in BOOLEAN
  BY StepsAssumption
<1>1. CASE Step(n, s, from, to)
  <2>1. [w EXCEPT !.pc = to, !.tries = 0] \in Worker
    BY <1>0, <1>a, WorkerFields
  <2> QED
    BY <1>1, <2>1, WorkerUpdate DEF Step
<1>2. ASSUME NEW f \in WorkerStates, Fail(n, s, f, to)
      PROVE  worker' \in [Nodes -> [Slots -> Worker]]
  <2>1. [w EXCEPT !.pc = to, !.tries = 0, !.err = TRUE] \in Worker
    BY <1>0, <1>a, WorkerFields
  <2> QED
    BY <1>2, <2>1, WorkerUpdate DEF Fail
<1>3. CASE Retry(n, s, from, again, to)
  <2>1. CASE w.tries + 1 < Steps
    <3>1. w.tries + 1 \in 0 .. (Steps - 1)
      BY <1>0, <2>1, StepsAssumption DEF Worker
    <3>2. [w EXCEPT !.pc = again, !.tries = @ + 1] \in Worker
      BY <1>0, <3>1, WorkerFields
    <3> QED
      BY <1>3, <2>1, <3>2, WorkerUpdate DEF Retry
  <2>2. CASE ~(w.tries + 1 < Steps)
    BY <1>2, <1>3, <2>2 DEF Retry
  <2> QED
    BY <2>1, <2>2
<1> QED
  BY <1>1, <1>2, <1>3

\* Every step keeps every variable in its type.
LEMMA TypeStep == TypeOK /\ [Next]_vars => TypeOK'
<1> SUFFICES ASSUME TypeOK, [Next]_vars PROVE TypeOK'
  OBVIOUS
<1>a. 0 \in 0 .. (Steps - 1) /\ TRUE \in BOOLEAN
  BY StepsAssumption
<1>b. \A m \in Nodes, r \in Slots : worker[m][r] \in Worker
  BY DEF TypeOK
<1>c. \A m \in Nodes : cur[m] \in Slots /\ drain[m] \in BOOLEAN
  BY DEF TypeOK
<1> USE DEF TypeOK, RunStates
<1>1. ASSUME NEW n \in Nodes, NEW d \in BOOLEAN, RunStart(n, d) \/ RunRejected(n, d)
      PROVE  TypeOK'
  BY <1>1 DEF RunStart, RunRejected
<1>2. ASSUME NEW n \in Nodes, Acquire(n)
      PROVE  TypeOK'
  <2>1. PICK s \in Slots :
          /\ cur' = [cur EXCEPT ![n] = s]
          /\ SetWorker(n, s, [Ended EXCEPT !.pc = IF drain[n] THEN "getnode" ELSE "work",
                                           !.drain = drain[n]])
    BY <1>2 DEF Acquire
  <2>2. [Ended EXCEPT !.pc = IF drain[n] THEN "getnode" ELSE "work",
                      !.drain = drain[n]] \in Worker
    <3>1. (IF drain[n] THEN "getnode" ELSE "work") \in WorkerStates
      BY DEF WorkerStates
    <3> HIDE DEF TypeOK
    <3> QED
      BY <1>a, <1>c, <3>1, EndedType, WorkerFields, Zenon
  <2>3. worker' \in [Nodes -> [Slots -> Worker]]
    BY <2>1, <2>2, WorkerUpdate
  <2> QED
    BY <1>2, <2>1, <2>3 DEF Acquire
<1>3. ASSUME NEW n \in Nodes, Renew(n) \/ Release(n) \/ Mitigate(n)
      PROVE  TypeOK'
  <2>1. worker[n][cur[n]].err \in BOOLEAN
    BY DEF Worker
  <2> QED
    BY <1>3, <2>1 DEF Renew, Release, Mitigate
<1>4. ASSUME NEW n \in Nodes, LeadEnd(n) \/ RenewRefused(n) \/ RenewLost(n)
      PROVE  TypeOK'
  <2>1. StopLeading(n)
    BY <1>4 DEF LeadEnd, RenewRefused, RenewLost
  <2>2. [worker[n][cur[n]] EXCEPT !.cancelled = TRUE] \in Worker
    <3>1. "done" \in WorkerStates
      BY DEF WorkerStates
    <3> HIDE DEF TypeOK
    <3> QED
      BY <1>a, <1>b, <1>c, <3>1, WorkerFields, Zenon
  <2>3. worker' \in [Nodes -> [Slots -> Worker]]
    BY <2>1, <2>2, WorkerUpdate DEF StopLeading
  <2>4. broken' \subseteq Nodes
    BY <1>4 DEF LeadEnd, RenewRefused, RenewLost
  <2> QED
    BY <2>1, <2>3, <2>4 DEF StopLeading
<1>5. ASSUME NEW n \in Nodes, NEW s \in Slots,
             \/ GetNode(n, s) \/ GetNodeCancelled(n, s) \/ GetNodeFails(n, s)
             \/ Drain(n, s) \/ CordonOrDrainFails(n, s)
             \/ UncordonNode(n, s) \/ UncordonFails(n, s)
      PROVE  TypeOK'
  <2>1. worker' \in [Nodes -> [Slots -> Worker]]
    BY <1>5, WorkerMoves
       DEF GetNode, GetNodeCancelled, GetNodeFails, Drain, CordonOrDrainFails,
           UncordonNode, UncordonFails, WorkerStates
  <2> QED
    BY <1>5, <2>1
       DEF GetNode, GetNodeCancelled, GetNodeFails, Drain, CordonOrDrainFails,
           UncordonNode, UncordonFails, WorkerOnly
<1>6. ASSUME NEW n \in Nodes, NEW s \in Slots, Cordon(n, s)
      PROVE  TypeOK'
  <2>1. [worker[n][s] EXCEPT !.pc = "drain"] \in Worker
    <3>1. "drain" \in WorkerStates
      BY DEF WorkerStates
    <3> HIDE DEF TypeOK
    <3> QED
      BY <1>a, <1>b, <3>1, WorkerFields, Zenon
  <2>2. worker' \in [Nodes -> [Slots -> Worker]]
    BY <1>6, <2>1, WorkerUpdate DEF Cordon
  <2> QED
    BY <1>6, <2>2 DEF Cordon, WorkerOnly
<1>7. ASSUME NEW n \in Nodes, NEW s \in Slots, NEW b \in BOOLEAN, WorkEnd(n, s, b)
      PROVE  TypeOK'
  <2>1. [worker[n][s] EXCEPT
           !.pc = IF worker[n][s].drain /\ b THEN "ungetnode" ELSE "done",
           !.keep = ~b] \in Worker
    <3>1. (IF worker[n][s].drain /\ b THEN "ungetnode" ELSE "done") \in WorkerStates
      BY DEF WorkerStates
    <3>2. (~b) \in BOOLEAN
      OBVIOUS
    <3> HIDE DEF TypeOK
    <3> QED
      BY <1>a, <1>b, <3>1, <3>2, WorkerFields, Zenon
  <2>2. worker' \in [Nodes -> [Slots -> Worker]]
    BY <1>7, <2>1, WorkerUpdate DEF WorkEnd
  <2> QED
    BY <1>7, <2>2 DEF WorkEnd, WorkerOnly
<1>8. ASSUME NEW n \in Nodes, Uncordon(n) \/ ProcessEnd(n)
      PROVE  TypeOK'
  <2>1. [s \in Slots |-> Ended] \in [Slots -> Worker]
    BY EndedType
  <2>2. worker' \in [Nodes -> [Slots -> Worker]]
    BY <1>8, <2>1, Zenon DEF Uncordon, ProcessEnd
  <2> QED
    BY <1>8, <2>2 DEF Uncordon, ProcessEnd
<1>9. CASE UNCHANGED vars
  BY <1>9 DEF vars
<1> QED
  BY <1>1, <1>2, <1>3, <1>4, <1>5, <1>6, <1>7, <1>8, <1>9
     DEF Next, ElectorStep, FaultStep, WorkerStep

\* Every variable of the helper always has the type TypeOK gives it.
THEOREM TypeCorrect == Spec => []TypeOK
<1>1. Init => TypeOK
  BY EndedType DEF Init, TypeOK, RunStates
<1> QED
  BY <1>1, TypeStep, PTL DEF Spec
-----------------------------------------------------------------------------
(* The lease *)

\* What an update of one worker record means for the others.
LEMMA SetWorkerEffect ==
  ASSUME TypeOK, NEW n \in Nodes, NEW s \in Slots, NEW w, SetWorker(n, s, w)
  PROVE  /\ worker'[n][s] = w
         /\ \A m \in Nodes, r \in Slots : <<m, r>> # <<n, s>> => worker'[m][r] = worker[m][r]
BY DEF TypeOK, SetWorker

\* The steps of a live worker leave the election alone and wake no worker.
LEMMA WorkerStepEffect ==
  ASSUME TypeOK, NEW n \in Nodes, NEW s \in Slots, NEW b \in BOOLEAN,
         \/ WorkerStep(n, s) \/ WorkEnd(n, s, b)
         \/ GetNodeFails(n, s) \/ CordonOrDrainFails(n, s) \/ UncordonFails(n, s)
  PROVE  /\ UNCHANGED <<lease, run, drain, cur, runErr, broken>>
         /\ Active(n, s)
         /\ \A m \in Nodes, r \in Slots : <<m, r>> # <<n, s>> => worker'[m][r] = worker[m][r]
<1>1. UNCHANGED <<lease, run, drain, cur, runErr, broken>>
  BY DEF WorkerStep, GetNode, GetNodeCancelled, GetNodeFails, Cordon, Drain,
         CordonOrDrainFails, WorkEnd, UncordonNode, UncordonFails, WorkerOnly
<1>2. Active(n, s)
  BY DEF WorkerStep, GetNode, GetNodeCancelled, GetNodeFails, Cordon, Drain,
         CordonOrDrainFails, WorkEnd, UncordonNode, UncordonFails, Active, Step, Fail, Retry
<1>3. \E w : SetWorker(n, s, w)
  BY DEF WorkerStep, GetNode, GetNodeCancelled, GetNodeFails, Cordon, Drain,
         CordonOrDrainFails, WorkEnd, UncordonNode, UncordonFails, Step, Fail, Retry
<1> QED
  BY <1>1, <1>2, <1>3, SetWorkerEffect

\* What Acquire does: no node that was not broken into is draining, and the
\* new worker is the only one that wakes.
LEMMA AcquireEffect ==
  ASSUME TypeOK, DrainOnlyWhileLeader, NEW n \in Nodes, Acquire(n)
  PROVE  /\ \A m \in Nodes \ broken : ~Draining(m)
         /\ broken' = IF Draining(n) THEN broken ELSE broken \ {n}
         /\ \E s \in Slots :
              /\ ~Active(n, s)
              /\ cur' = [cur EXCEPT ![n] = s]
              /\ worker'[n][s] = [Ended EXCEPT !.pc = IF drain[n] THEN "getnode" ELSE "work",
                                              !.drain = drain[n]]
              /\ \A m \in Nodes, r \in Slots :
                   <<m, r>> # <<n, s>> => worker'[m][r] = worker[m][r]
<1>1. ASSUME NEW m \in Nodes \ broken, Draining(m)
      PROVE  FALSE
  <2>1. lease = m /\ run[m] = "renew"
    BY <1>1 DEF Draining, DrainOnlyWhileLeader
  <2> QED
    BY <2>1, NodesAssumption DEF Acquire, Refreshed
<1>2. broken' = IF Draining(n) THEN broken ELSE broken \ {n}
  BY DEF Acquire
<1>3. PICK s \in Slots :
        /\ ~Active(n, s)
        /\ cur' = [cur EXCEPT ![n] = s]
        /\ SetWorker(n, s, [Ended EXCEPT !.pc = IF drain[n] THEN "getnode" ELSE "work",
                                         !.drain = drain[n]])
  BY DEF Acquire
<1> DEFINE w == [Ended EXCEPT !.pc = IF drain[n] THEN "getnode" ELSE "work",
                              !.drain = drain[n]]
<1>4. SetWorker(n, s, w)
  BY <1>3
<1> HIDE DEF w
<1>5. /\ worker'[n][s] = w
      /\ \A m \in Nodes, r \in Slots : <<m, r>> # <<n, s>> => worker'[m][r] = worker[m][r]
  BY <1>4, SetWorkerEffect
<1>6. \A m \in Nodes \ broken : ~Draining(m)
  BY <1>1
<1> QED
  BY <1>2, <1>3, <1>5, <1>6 DEF w

\* The cancel of StopLeading changes no field of a worker but cancelled.
LEMMA StopLeadingEffect ==
  ASSUME TypeOK, NEW n \in Nodes, StopLeading(n)
  PROVE  /\ \A m \in Nodes, r \in Slots :
              /\ worker'[m][r].pc = worker[m][r].pc
              /\ worker'[m][r].drain = worker[m][r].drain
              /\ worker'[m][r].keep = worker[m][r].keep
              /\ worker'[m][r].err = worker[m][r].err
         /\ UNCHANGED <<lease, cur, runErr, cordoned>> /\ run'[n] = "release"
         /\ \A m \in Nodes : m # n => run'[m] = run[m]
<1>1. cur[n] \in Slots /\ worker[n][cur[n]] \in Worker
  BY DEF TypeOK
<1>2. \A m \in Nodes, r \in Slots :
        /\ worker'[m][r].pc = worker[m][r].pc
        /\ worker'[m][r].drain = worker[m][r].drain
        /\ worker'[m][r].keep = worker[m][r].keep
        /\ worker'[m][r].err = worker[m][r].err
  BY <1>1, SetWorkerEffect DEF StopLeading, Worker
<1> QED
  BY <1>2 DEF StopLeading, TypeOK

\* DrainOnlyWhileLeader is inductive: a lease that is held by the elector of a
\* worker that lives cannot be acquired, and who takes it away breaks the lead.
LEMMA LeaseStep ==
  ASSUME TypeOK, DrainOnlyWhileLeader, [Next]_vars
  PROVE  DrainOnlyWhileLeader'
<1> USE DEF DrainOnlyWhileLeader
<1>1. ASSUME NEW n \in Nodes, NEW d \in BOOLEAN, RunStart(n, d) \/ RunRejected(n, d)
      PROVE  DrainOnlyWhileLeader'
  BY <1>1 DEF RunStart, RunRejected, TypeOK, Active
<1>2. ASSUME NEW n \in Nodes, Acquire(n)
      PROVE  DrainOnlyWhileLeader'
  <2>1. \A m \in Nodes \ broken : ~Draining(m)
    BY <1>2, AcquireEffect
  <2>2. broken' = IF Draining(n) THEN broken ELSE broken \ {n}
    BY <1>2, AcquireEffect
  <2>3. PICK s \in Slots :
          /\ cur' = [cur EXCEPT ![n] = s]
          /\ \A m \in Nodes, r \in Slots :
               <<m, r>> # <<n, s>> => worker'[m][r] = worker[m][r]
    BY <1>2, AcquireEffect
  <2>4. lease' = n /\ run'[n] = "renew" /\ cur'[n] = s
    BY <1>2, <2>3 DEF Acquire, TypeOK
  <2>5. \A m \in Nodes, r \in Slots :
          m \notin broken' /\ <<m, r>> # <<n, s>> => ~Active(m, r)'
    BY <2>1, <2>2, <2>3 DEF Active, Draining
  <2> QED
    BY <2>4, <2>5
<1>3. ASSUME NEW n \in Nodes, Renew(n) \/ Release(n) \/ Mitigate(n)
      PROVE  DrainOnlyWhileLeader'
  <2>1. CASE Renew(n)
    BY <2>1, NodesAssumption DEF Renew, Active
  <2>2. CASE Release(n)
    BY <2>2 DEF Release, TypeOK, Active
  <2>3. CASE Mitigate(n)
    <3>1. CASE lease' = lease /\ UNCHANGED broken
      BY <2>3, <3>1 DEF Mitigate, TypeOK, Active
    <3>2. CASE broken' = broken \cup {m \in Nodes \ {n} : m = lease /\ Draining(m)}
      <4>1. \A m \in Nodes, r \in Slots : m \notin broken' => ~Active(m, r)
        BY <2>3, <3>2 DEF Mitigate, Draining
      <4> QED
        BY <2>3, <4>1 DEF Mitigate, Active
    <3> QED
      BY <2>3, <3>1, <3>2 DEF Mitigate
  <2> QED
    BY <1>3, <2>1, <2>2, <2>3
<1>4. ASSUME NEW n \in Nodes, LeadEnd(n) \/ RenewRefused(n) \/ RenewLost(n)
      PROVE  DrainOnlyWhileLeader'
  <2>1. StopLeading(n) /\ broken \subseteq broken'
    BY <1>4 DEF LeadEnd, RenewRefused, RenewLost
  <2>2. \A m \in Nodes, r \in Slots : Active(m, r)' <=> Active(m, r)
    BY <2>1, StopLeadingEffect DEF Active
  <2>3. n \notin broken' => \A r \in Slots : ~Active(n, r)
    BY <1>4 DEF LeadEnd, RenewRefused, RenewLost, Draining
  <2> QED
    BY <2>1, <2>2, <2>3, StopLeadingEffect
<1>5. ASSUME NEW n \in Nodes, NEW s \in Slots, NEW b \in BOOLEAN,
             \/ WorkerStep(n, s) \/ WorkEnd(n, s, b)
             \/ GetNodeFails(n, s) \/ CordonOrDrainFails(n, s) \/ UncordonFails(n, s)
      PROVE  DrainOnlyWhileLeader'
  <2>1. /\ UNCHANGED <<lease, run, drain, cur, runErr, broken>>
        /\ Active(n, s)
        /\ \A m \in Nodes, r \in Slots : <<m, r>> # <<n, s>> => worker'[m][r] = worker[m][r]
    BY <1>5, WorkerStepEffect
  <2> QED
    BY <2>1 DEF Active
<1>6. ASSUME NEW n \in Nodes, Uncordon(n)
      PROVE  DrainOnlyWhileLeader'
  BY <1>6 DEF Uncordon, Active
<1>7. ASSUME NEW n \in Nodes, ProcessEnd(n)
      PROVE  DrainOnlyWhileLeader'
  <2>1. \A m \in Nodes, r \in Slots : m # n => worker'[m][r] = worker[m][r]
    BY <1>7 DEF ProcessEnd, TypeOK
  <2>2. \A r \in Slots : ~Active(n, r)'
    BY <1>7 DEF ProcessEnd, TypeOK, Active, Ended
  <2> QED
    BY <1>7, <2>1, <2>2 DEF ProcessEnd, TypeOK, Active
<1>8. CASE UNCHANGED vars
  BY <1>8 DEF vars, Active
<1> QED
  BY <1>1, <1>2, <1>3, <1>4, <1>5, <1>6, <1>7, <1>8
     DEF Next, ElectorStep, FaultStep

\* On any number of nodes, with a release that works or fails, lost leases,
\* refused electors and crashes: a node is drained and worked on only while it
\* is the leader, unless its own lead was broken under its worker.
THEOREM LeaderOnly == Spec => []DrainOnlyWhileLeader
<1>1. Init => TypeOK /\ DrainOnlyWhileLeader
  BY EndedType DEF Init, TypeOK, RunStates, DrainOnlyWhileLeader, Active, Ended
<1>2. TypeOK /\ DrainOnlyWhileLeader /\ [Next]_vars => TypeOK' /\ DrainOnlyWhileLeader'
  BY TypeStep, LeaseStep
<1> QED
  BY <1>1, <1>2, PTL DEF Spec
-----------------------------------------------------------------------------
(* Out of service while worked on, back in service when Run returns nil *)

\* From the cordon on, the node of a draining worker is out of service.
CordonInv ==
  \A n \in Nodes \ broken, s \in Slots :
    LET w == worker[n][s]
    IN  w.pc = "drain" \/ (w.pc = "work" /\ w.drain) => cordoned[n]

\* A worker that ended without error and was not told to keep the cordon has
\* undone it; Run does not return nil when the worker it started had an error.
ReturnInv ==
  \A n \in Nodes \ broken :
    LET w == worker[n][cur[n]]
    IN  /\ w.pc = "done" /\ w.drain /\ ~w.keep /\ ~w.err => ~cordoned[n]
        /\ run[n] \in {"idle", "mitigate"} /\ ~runErr[n] => ~w.err

DrainInv == DrainOnlyWhileLeader /\ CordonInv /\ ReturnInv

\* What the steps of a worker do to its own record.
LEMMA WorkerStepRecord ==
  ASSUME TypeOK, NEW n \in Nodes, NEW s \in Slots, NEW b \in BOOLEAN,
         \/ WorkerStep(n, s) \/ WorkEnd(n, s, b)
         \/ GetNodeFails(n, s) \/ CordonOrDrainFails(n, s) \/ UncordonFails(n, s)
  PROVE  LET w == worker[n][s]
             v == worker'[n][s]
         IN  /\ v.drain = w.drain
             /\ v.pc = "drain" => w.pc = "cordon" /\ cordoned'[n]
             /\ v.pc = "work" => w.pc = "drain" /\ cordoned' = cordoned
             /\ v.pc = "done" /\ v.drain /\ ~v.keep /\ ~v.err => ~cordoned'[n]
             /\ cordoned' # cordoned =>
                  \/ cordoned' = [cordoned EXCEPT ![n] = TRUE] /\ v.pc = "drain"
                  \/ cordoned' = [cordoned EXCEPT ![n] = FALSE] /\ v.pc = "done"
<1> DEFINE w == worker[n][s]
           v == worker'[n][s]
<1>0. w \in Worker /\ cordoned \in [Nodes -> BOOLEAN]
  BY DEF TypeOK
<1>1. ASSUME NEW from, NEW to, Step(n, s, from, to)
      PROVE  /\ v.drain = w.drain /\ v.keep = w.keep /\ v.err = w.err
             /\ w.pc = from /\ v.pc = to
  <2>1. w.pc = from /\ v = [w EXCEPT !.pc = to, !.tries = 0]
    BY <1>1, SetWorkerEffect DEF Step
  <2> QED
    BY <1>0, <2>1, WorkerFieldValues
<1>2. ASSUME NEW from, NEW to, Fail(n, s, from, to)
      PROVE  v.drain = w.drain /\ v.err /\ w.pc = from /\ v.pc = to
  <2>1. w.pc = from /\ v = [w EXCEPT !.pc = to, !.tries = 0, !.err = TRUE]
    BY <1>2, SetWorkerEffect DEF Fail
  <2> QED
    BY <1>0, <2>1, WorkerFieldValues
<1>3. ASSUME NEW from, NEW again, NEW to, Retry(n, s, from, again, to)
      PROVE  v.drain = w.drain /\ w.pc = from /\ (v.pc = again \/ (v.pc = to /\ v.err))
  <2>1. CASE w.tries + 1 < Steps
    <3>1. w.pc = from /\ v = [w EXCEPT !.pc = again, !.tries = w.tries + 1]
      BY <1>3, <2>1, SetWorkerEffect DEF Retry
    <3> QED
      BY <1>0, <3>1, WorkerFieldValues
  <2>2. CASE ~(w.tries + 1 < Steps)
    BY <1>2, <1>3, <2>2 DEF Retry
  <2> QED
    BY <2>1, <2>2
<1>4. CASE GetNode(n, s)
  BY <1>4, <1>1 DEF GetNode
<1>5. CASE GetNodeCancelled(n, s) \/ GetNodeFails(n, s)
  BY <1>5, <1>2 DEF GetNodeCancelled, GetNodeFails
<1>6. CASE Cordon(n, s)
  BY <1>0, <1>6, SetWorkerEffect DEF Cordon, Worker
<1>7. CASE Drain(n, s)
  BY <1>7, <1>1 DEF Drain
<1>8. CASE CordonOrDrainFails(n, s)
  BY <1>8, <1>3 DEF CordonOrDrainFails
<1>9. CASE UncordonNode(n, s)
  BY <1>0, <1>9, <1>1 DEF UncordonNode
<1>10. CASE UncordonFails(n, s)
  BY <1>10, <1>3 DEF UncordonFails
<1>11. CASE WorkEnd(n, s, b)
  <2>1. v = [w EXCEPT !.pc = IF w.drain /\ b THEN "ungetnode" ELSE "done", !.keep = ~b]
    BY <1>11, SetWorkerEffect DEF WorkEnd
  <2>2. v.drain = w.drain /\ v.keep = ~b
    BY <1>0, <2>1 DEF Worker
  <2>3. v.pc = IF w.drain /\ b THEN "ungetnode" ELSE "done"
    BY <1>0, <2>1 DEF Worker
  <2> QED
    BY <1>11, <2>2, <2>3 DEF WorkEnd
<1> QED
  BY <1>4, <1>5, <1>6, <1>7, <1>8, <1>9, <1>10, <1>11 DEF WorkerStep

\* Every step keeps DrainInv.
LEMMA DrainStep ==
  ASSUME TypeOK, DrainInv, [Next]_vars
  PROVE  DrainInv'
<1> USE DEF DrainInv, CordonInv, ReturnInv
<1>0. DrainOnlyWhileLeader'
  BY LeaseStep
<1>a. \A m \in Nodes : cur[m] \in Slots
  BY DEF TypeOK
<1>1. ASSUME NEW n \in Nodes, NEW d \in BOOLEAN, RunStart(n, d) \/ RunRejected(n, d)
      PROVE  DrainInv'
  BY <1>0, <1>1 DEF RunStart, RunRejected, TypeOK
<1>2. ASSUME NEW n \in Nodes, Acquire(n)
      PROVE  DrainInv'
  <2> DEFINE w == [Ended EXCEPT !.pc = IF drain[n] THEN "getnode" ELSE "work",
                                !.drain = drain[n]]
  <2>1. /\ \A m \in Nodes \ broken : ~Draining(m)
        /\ broken' = IF Draining(n) THEN broken ELSE broken \ {n}
    BY <1>2, AcquireEffect
  <2>2. PICK s \in Slots :
          /\ cur' = [cur EXCEPT ![n] = s]
          /\ worker'[n][s] = w
          /\ \A m \in Nodes, r \in Slots :
               <<m, r>> # <<n, s>> => worker'[m][r] = worker[m][r]
    BY <1>2, AcquireEffect
  <2>3. w.pc = (IF drain[n] THEN "getnode" ELSE "work") /\ w.drain = drain[n]
    BY DEF Ended
  <2>b. w.pc \notin {"drain", "done"} /\ (w.pc = "work" => ~w.drain)
    BY <2>3
  <2> HIDE DEF w
  <2>4. /\ UNCHANGED <<cordoned, runErr>>
        /\ run'[n] = "renew" /\ \A m \in Nodes : m # n => run'[m] = run[m]
    BY <1>2 DEF Acquire, TypeOK
  <2>5. \A m \in Nodes, r \in Slots :
          m \notin broken' /\ <<m, r>> # <<n, s>> => ~Active(m, r) /\ worker'[m][r] = worker[m][r]
    BY <2>1, <2>2 DEF Draining
  <2>6. CordonInv'
    BY <2>2, <2>b, <2>5 DEF Active
  <2>7. \A m \in Nodes : m \notin broken' /\ m # n => m \notin broken
    BY <2>1
  <2>8. cur'[n] = s /\ \A m \in Nodes : m # n => cur'[m] = cur[m]
    BY <2>2 DEF TypeOK
  <2>9. ReturnInv'
    <3> SUFFICES ASSUME NEW m \in Nodes \ broken'
                 PROVE  LET u == worker'[m][cur'[m]]
                        IN  /\ u.pc = "done" /\ u.drain /\ ~u.keep /\ ~u.err
                                 => ~cordoned'[m]
                            /\ run'[m] \in {"idle", "mitigate"} /\ ~runErr'[m] => ~u.err
      OBVIOUS
    <3>1. CASE m = n
      BY <2>2, <2>b, <2>4, <2>8, <3>1
    <3>2. CASE m # n
      BY <1>a, <2>2, <2>4, <2>7, <2>8, <3>2
    <3> QED
      BY <3>1, <3>2
  <2> QED
    BY <1>0, <2>6, <2>9
<1>3. ASSUME NEW n \in Nodes, Renew(n) \/ Mitigate(n)
      PROVE  DrainInv'
  <2>1. broken \subseteq broken'
    BY <1>3 DEF Renew, Mitigate
  <2> QED
    BY <1>0, <1>3, <2>1 DEF Renew, Mitigate, TypeOK
<1>4. ASSUME NEW n \in Nodes, Release(n)
      PROVE  DrainInv'
  BY <1>0, <1>4 DEF Release, TypeOK
<1>5. ASSUME NEW n \in Nodes, LeadEnd(n) \/ RenewRefused(n) \/ RenewLost(n)
      PROVE  DrainInv'
  <2>1. StopLeading(n) /\ broken \subseteq broken'
    BY <1>5 DEF LeadEnd, RenewRefused, RenewLost
  <2>2. /\ \A m \in Nodes, r \in Slots :
             /\ worker'[m][r].pc = worker[m][r].pc
             /\ worker'[m][r].drain = worker[m][r].drain
             /\ worker'[m][r].keep = worker[m][r].keep
             /\ worker'[m][r].err = worker[m][r].err
        /\ UNCHANGED <<cur, runErr, cordoned>> /\ run'[n] = "release"
        /\ \A m \in Nodes : m # n => run'[m] = run[m]
    BY <2>1, StopLeadingEffect
  <2>3. CordonInv'
    BY <2>1, <2>2
  <2>4. ReturnInv'
    BY <1>a, <2>1, <2>2
  <2> QED
    BY <1>0, <2>3, <2>4
<1>6. ASSUME NEW n \in Nodes, NEW s \in Slots, NEW b \in BOOLEAN,
             \/ WorkerStep(n, s) \/ WorkEnd(n, s, b)
             \/ GetNodeFails(n, s) \/ CordonOrDrainFails(n, s) \/ UncordonFails(n, s)
      PROVE  DrainInv'
  <2>1. /\ UNCHANGED <<lease, run, drain, cur, runErr, broken>>
        /\ Active(n, s)
        /\ \A m \in Nodes, r \in Slots : <<m, r>> # <<n, s>> => worker'[m][r] = worker[m][r]
    BY <1>6, WorkerStepEffect
  <2> DEFINE w == worker[n][s]
             v == worker'[n][s]
  <2>2. /\ v.drain = w.drain
        /\ v.pc = "drain" => w.pc = "cordon" /\ cordoned'[n]
        /\ v.pc = "work" => w.pc = "drain" /\ cordoned' = cordoned
        /\ v.pc = "done" /\ v.drain /\ ~v.keep /\ ~v.err => ~cordoned'[n]
        /\ cordoned' # cordoned =>
             \/ cordoned' = [cordoned EXCEPT ![n] = TRUE] /\ v.pc = "drain"
             \/ cordoned' = [cordoned EXCEPT ![n] = FALSE] /\ v.pc = "done"
    BY <1>6, WorkerStepRecord
  <2>3. n \notin broken =>
          run[n] = "renew" /\ cur[n] = s /\ \A r \in Slots : r # s => ~Active(n, r)
    BY <2>1 DEF DrainOnlyWhileLeader
  <2>4. \A m \in Nodes : m # n => cordoned'[m] = cordoned[m]
    BY <2>2 DEF TypeOK
  <2> HIDE DEF w, v
  <2>5. CordonInv'
    <3> SUFFICES ASSUME NEW m \in Nodes \ broken, NEW r \in Slots,
                        \/ worker'[m][r].pc = "drain"
                        \/ worker'[m][r].pc = "work" /\ worker'[m][r].drain
                 PROVE  cordoned'[m]
      BY <2>1
    <3>1. CASE <<m, r>> = <<n, s>>
      BY <2>2, <3>1 DEF w, v
    <3>2. CASE m = n /\ r # s
      BY <2>1, <2>3, <3>2 DEF Active
    <3>3. CASE m # n
      BY <2>1, <2>4, <3>3
    <3> QED
      BY <3>1, <3>2, <3>3
  <2>6. ReturnInv'
    <3> SUFFICES ASSUME NEW m \in Nodes \ broken
                 PROVE  LET u == worker'[m][cur[m]]
                        IN  /\ u.pc = "done" /\ u.drain /\ ~u.keep /\ ~u.err
                                 => ~cordoned'[m]
                            /\ run[m] \in {"idle", "mitigate"} /\ ~runErr[m] => ~u.err
      BY <2>1
    <3>1. CASE m = n
      BY <2>2, <2>3, <3>1 DEF v, w
    <3>2. CASE m # n
      BY <1>a, <2>1, <2>4, <3>2
    <3> QED
      BY <3>1, <3>2
  <2> QED
    BY <1>0, <2>5, <2>6
<1>7. ASSUME NEW n \in Nodes, Uncordon(n)
      PROVE  DrainInv'
  <2>1. n \notin broken => \A r \in Slots : ~Active(n, r)
    BY <1>7 DEF Uncordon, DrainOnlyWhileLeader
  <2> QED
    BY <1>0, <1>7, <2>1 DEF Uncordon, Active, TypeOK
<1>8. ASSUME NEW n \in Nodes, ProcessEnd(n)
      PROVE  DrainInv'
  <2>1. \A m \in Nodes, r \in Slots : m # n => worker'[m][r] = worker[m][r]
    BY <1>8 DEF ProcessEnd, TypeOK
  <2>2. \A r \in Slots : worker'[n][r] = Ended
    BY <1>8 DEF ProcessEnd, TypeOK
  <2>3. Ended.pc = "done" /\ Ended.drain = FALSE /\ Ended.err = FALSE
    BY DEF Ended
  <2> QED
    BY <1>0, <1>a, <1>8, <2>1, <2>2, <2>3 DEF ProcessEnd, TypeOK
<1>9. CASE UNCHANGED vars
  BY <1>0, <1>9 DEF vars
<1> QED
  BY <1>1, <1>2, <1>3, <1>4, <1>5, <1>6, <1>7, <1>8, <1>9
     DEF Next, ElectorStep, FaultStep

\* The inductive invariant holds at first, and holds for ever.
LEMMA DrainInvariant == Spec => [](TypeOK /\ DrainInv)
<1>1. Init => TypeOK
  BY EndedType DEF Init, TypeOK, RunStates
<1>2. Init => DrainInv
  <2> SUFFICES ASSUME Init PROVE DrainInv
    OBVIOUS
  <2>1. \A n \in Nodes, s \in Slots :
          worker[n][s].pc = "done" /\ ~worker[n][s].drain /\ worker[n][s].err = FALSE
    BY DEF Init, Ended
  <2>2. \A n \in Nodes : cur[n] \in Slots /\ runErr[n] = FALSE /\ run[n] = "idle"
    BY DEF Init
  <2> QED
    BY <2>1, <2>2 DEF DrainInv, CordonInv, ReturnInv, DrainOnlyWhileLeader, Active
<1>3. TypeOK /\ DrainInv /\ [Next]_vars => TypeOK' /\ DrainInv'
  BY TypeStep, DrainStep
<1> QED
  BY <1>1, <1>2, <1>3, PTL DEF Spec

\* Unless the lead of the node was broken, f runs on a node that stays out of
\* service until f has returned.
THEOREM DrainedWhileWorking == Spec => []WorkOnDrainedNode
<1>1. DrainInv => WorkOnDrainedNode
  BY DEF DrainInv, CordonInv, WorkOnDrainedNode
<1> QED
  BY <1>1, DrainInvariant, PTL

\* Unless the lead of the node was broken, a nil error of Run means the node is
\* schedulable again, or f asked for the cordon to stay.
THEOREM NilMeansUncordoned == Spec => []NilReturnMeansUncordoned
<1>1. TypeOK /\ DrainInv => NilReturnMeansUncordoned
  BY DEF TypeOK, DrainInv, ReturnInv, NilReturnMeansUncordoned,
         DrainOnlyWhileLeader, Active
<1> QED
  BY <1>1, DrainInvariant, PTL
-----------------------------------------------------------------------------
(* Refinement of MaintenanceWindow *)

Inside == {n \in Nodes : Draining(n)}

\* Every step of the helper is a step of the maintenance windows or changes
\* none of them.
LEMMA WindowStep ==
  ASSUME TypeOK, DrainInv, [Next]_vars
  PROVE  [Window!Next]_(Window!wvars)
<1> USE DEF Inside
<1>0. DrainOnlyWhileLeader
  BY DEF DrainInv
<1> DEFINE Entered(n) == /\ Inside \subseteq broken /\ Inside' = Inside \cup {n}
                         /\ broken' = IF n \in Inside THEN broken ELSE broken \ {n}
                         /\ UNCHANGED cordoned
           Broke(n) == /\ n \in Inside /\ broken' = broken \cup {n}
                       /\ Inside' = Inside /\ UNCHANGED cordoned
           Cordoned(n) == /\ n \in Inside /\ cordoned' = [cordoned EXCEPT ![n] = TRUE]
                          /\ Inside' = Inside /\ UNCHANGED broken
           Uncordoned(n) == /\ Inside' = Inside \ {n} \/ (n \in broken /\ Inside' = Inside)
                            /\ cordoned' = [cordoned EXCEPT ![n] = FALSE]
                            /\ UNCHANGED broken
           Left(n) == /\ Inside' = Inside \ {n} /\ broken' \in {broken, broken \ {n}}
                      /\ UNCHANGED cordoned
           Same == Inside' = Inside /\ UNCHANGED <<broken, cordoned>>
<1>a. SUFFICES \/ \E n \in Nodes : \/ Entered(n) \/ Broke(n) \/ Cordoned(n)
                                   \/ Uncordoned(n) \/ Left(n)
               \/ Same
  BY DEF Window!Next, Window!wvars, Window!Enter, Window!Break, Window!Cordon,
         Window!Uncordon, Window!Leave
<1>1. ASSUME NEW n \in Nodes, NEW d \in BOOLEAN,
             \/ RunStart(n, d) \/ RunRejected(n, d) \/ Renew(n) \/ Release(n)
      PROVE  Same
  BY <1>1 DEF RunStart, RunRejected, Renew, Release, Draining, Active
<1>2. ASSUME NEW n \in Nodes, Mitigate(n)
      PROVE  Same \/ \E m \in Nodes : Broke(m)
  <2>1. Inside' = Inside /\ UNCHANGED cordoned
    BY <1>2 DEF Mitigate, Draining, Active
  <2>2. CASE broken' = broken \cup {m \in Nodes \ {n} : m = lease /\ Draining(m)}
    <3>1. CASE lease \in Nodes \ {n} /\ Draining(lease)
      <4>1. {m \in Nodes \ {n} : m = lease /\ Draining(m)} = {lease}
        BY <3>1
      <4> QED
        BY <2>1, <2>2, <3>1, <4>1
    <3>2. CASE ~(lease \in Nodes \ {n} /\ Draining(lease))
      <4>1. {m \in Nodes \ {n} : m = lease /\ Draining(m)} = {}
        BY <3>2
      <4> QED
        BY <2>1, <2>2, <4>1
    <3> QED
      BY <3>1, <3>2
  <2> QED
    BY <1>2, <2>1, <2>2 DEF Mitigate
<1>3. ASSUME NEW n \in Nodes, Acquire(n)
      PROVE  Entered(n)
  <2> DEFINE w == [Ended EXCEPT !.pc = IF drain[n] THEN "getnode" ELSE "work",
                                !.drain = drain[n]]
  <2>1. /\ \A m \in Nodes \ broken : ~Draining(m)
        /\ broken' = IF Draining(n) THEN broken ELSE broken \ {n}
    BY <1>0, <1>3, AcquireEffect
  <2>2. PICK s \in Slots :
          /\ ~Active(n, s)
          /\ worker'[n][s] = w
          /\ \A m \in Nodes, r \in Slots :
               <<m, r>> # <<n, s>> => worker'[m][r] = worker[m][r]
    BY <1>0, <1>3, AcquireEffect
  <2>3. w.pc # "done"
    BY DEF Ended
  <2> HIDE DEF w
  <2>4. Inside' = Inside \cup {n}
    BY <2>2, <2>3 DEF Draining, Active
  <2> QED
    BY <1>3, <2>1, <2>4 DEF Acquire
<1>4. ASSUME NEW n \in Nodes, LeadEnd(n) \/ RenewRefused(n) \/ RenewLost(n)
      PROVE  Same \/ Broke(n)
  <2>1. StopLeading(n)
    BY <1>4 DEF LeadEnd, RenewRefused, RenewLost
  <2>2. \A m \in Nodes, r \in Slots : Active(m, r)' <=> Active(m, r)
    BY <2>1, StopLeadingEffect DEF Active
  <2>3. Inside' = Inside /\ UNCHANGED cordoned
    BY <2>1, <2>2 DEF StopLeading, Draining
  <2> QED
    BY <1>4, <2>3 DEF LeadEnd, RenewRefused, RenewLost
<1>5. ASSUME NEW n \in Nodes, NEW s \in Slots, NEW b \in BOOLEAN,
             \/ WorkerStep(n, s) \/ WorkEnd(n, s, b)
             \/ GetNodeFails(n, s) \/ CordonOrDrainFails(n, s) \/ UncordonFails(n, s)
      PROVE  Cordoned(n) \/ Uncordoned(n) \/ Left(n) \/ Same
  <2>1. /\ UNCHANGED broken /\ Active(n, s)
        /\ \A m \in Nodes, r \in Slots : <<m, r>> # <<n, s>> => worker'[m][r] = worker[m][r]
    BY <1>5, WorkerStepEffect
  <2>2. n \notin broken => \A r \in Slots : r # s => ~Active(n, r)
    BY <1>0, <2>1 DEF DrainOnlyWhileLeader
  <2>3. n \in Inside
    BY <2>1 DEF Draining
  <2>4. worker'[n][s].pc # "done" => Inside' = Inside
    BY <2>1 DEF Active, Draining
  <2>5. worker'[n][s].pc = "done" =>
          Inside' = Inside \ {n} \/ (n \in broken /\ Inside' = Inside)
    BY <2>1, <2>2 DEF Active, Draining
  <2>6. cordoned' # cordoned =>
             \/ cordoned' = [cordoned EXCEPT ![n] = TRUE] /\ worker'[n][s].pc = "drain"
             \/ cordoned' = [cordoned EXCEPT ![n] = FALSE] /\ worker'[n][s].pc = "done"
    BY <1>5, WorkerStepRecord
  <2> HIDE DEF Inside
  <2> QED
    BY <2>1, <2>3, <2>4, <2>5, <2>6
<1>6. ASSUME NEW n \in Nodes, Uncordon(n)
      PROVE  Uncordoned(n)
  <2>1. n \notin broken => ~Draining(n)
    BY <1>0, <1>6 DEF Uncordon, DrainOnlyWhileLeader, Draining
  <2>2. Inside' = Inside
    BY <1>6 DEF Uncordon, Draining, Active
  <2> QED
    BY <1>6, <2>1, <2>2 DEF Uncordon
<1>7. ASSUME NEW n \in Nodes, ProcessEnd(n)
      PROVE  Left(n)
  <2>1. \A m \in Nodes, r \in Slots : m # n => worker'[m][r] = worker[m][r]
    BY <1>7 DEF ProcessEnd, TypeOK
  <2>2. \A r \in Slots : ~Active(n, r)'
    BY <1>7 DEF ProcessEnd, TypeOK, Active, Ended
  <2> QED
    BY <1>7, <2>1, <2>2 DEF ProcessEnd, Draining, Active
<1>8. CASE UNCHANGED vars
  BY <1>8 DEF vars, Draining, Active
<1> HIDE DEF Inside, Entered, Broke, Cordoned, Uncordoned, Left, Same
<1>9. CASE Next
  <2>1. PICK n \in Nodes :
          \/ \E d \in BOOLEAN : RunStart(n, d) \/ RunRejected(n, d)
          \/ Acquire(n) \/ ElectorStep(n)
          \/ FaultStep(n)
          \/ Uncordon(n)
          \/ ProcessEnd(n)
          \/ \E s \in Slots : WorkerStep(n, s) \/ (\E b \in BOOLEAN : WorkEnd(n, s, b))
    BY <1>9 DEF Next
  <2>2. CASE \/ \E d \in BOOLEAN : RunStart(n, d) \/ RunRejected(n, d)
             \/ Acquire(n) \/ Uncordon(n) \/ ProcessEnd(n)
    BY <1>1, <1>3, <1>6, <1>7, <2>2
  <2>3. CASE ElectorStep(n) \/ RenewLost(n)
    BY <1>1, <1>2, <1>4, <2>3 DEF ElectorStep
  <2>4. CASE \E s \in Slots : \/ GetNodeFails(n, s) \/ CordonOrDrainFails(n, s)
                             \/ UncordonFails(n, s) \/ WorkerStep(n, s)
                             \/ \E b \in BOOLEAN : WorkEnd(n, s, b)
    BY <1>5, <2>4
  <2> QED
    BY <2>1, <2>2, <2>3, <2>4 DEF FaultStep
<1> QED
  BY <1>8, <1>9

\* The helper implements MaintenanceWindow: one node at a time is inside its
\* window, beside those whose lead was broken, and only inside its window does
\* a node become unschedulable.
THEOREM ImplementsWindow == Spec => WindowSpec
<1>1. Init => Window!Init
  BY DEF Init, Window!Init, Draining, Active, Ended
<1>2. TypeOK /\ DrainInv /\ [Next]_vars => [Window!Next]_(Window!wvars)
  BY WindowStep
<1> QED
  BY <1>1, <1>2, DrainInvariant, PTL DEF Spec, WindowSpec, Window!Spec
=============================================================================
