------------------------- MODULE NodeFlowConfigProofs -------------------------
(***************************************************************************)
(* Theorems about NodeFlowConfig, for every set of rules, ports and flow   *)
(* ids and any number of edits and failures.                               *)
(***************************************************************************)
EXTENDS NodeFlowConfig, TLAPS

\* Rules that translate make requests.
LEMMA RequestsOfType ==
  ASSUME NEW rs \in SUBSET Rules, \A fr \in rs : Translates(fr)
  PROVE  RequestsOf(rs) \subseteq Requests
BY DEF RequestsOf, Requests

-----------------------------------------------------------------------------
(* Type correctness *)

\* One step of the daemon, the server or a user keeps the type invariant.
LEMMA FlowTypeStep == FlowTypeOK /\ [FlowNext]_flowVars => FlowTypeOK'
<1> USE DEF FlowTypeOK, object, daemon, failures
<1> SUFFICES ASSUME FlowTypeOK, [FlowNext]_flowVars PROVE FlowTypeOK'
  OBVIOUS
<1>f. ASSUME NEW f \in FaultKinds, FlowFault(f)
      PROVE  budget' \in Nat /\ failed' \subseteq FaultKinds
  <2>1. budget' \in Nat
    BY <1>f DEF FlowFault
  <2>2. failed' \subseteq FaultKinds
    BY <1>f DEF FlowFault
  <2> QED
    BY <2>1, <2>2
<1>k. {"ports", "refused", "undestroyed", "destroy", "reply", "watch", "crash", "server"}
        \subseteq FaultKinds
  BY DEF FaultKinds
<1>r. ASSUME RemoveObject
      PROVE  /\ edits' \in Nat /\ exists' \in BOOLEAN /\ rules' \subseteq Rules
             /\ pc' \in {"off", "idle", "delete", "create"}
             /\ toAdd' \subseteq Requests /\ toDelete' \subseteq Requests
             /\ flowSets' \in [Requests -> FlowIds \cup {NoId}]
             /\ server' \in [FlowIds -> Requests \cup {NoFlow}]
             /\ synced' \in BOOLEAN
  <2>1. edits > 0 /\ edits' = edits - 1 /\ edits \in Nat
    BY <1>r DEF RemoveObject
  <2>2. edits' \in Nat
    BY <2>1
  <2> QED
    BY <1>r, <2>2, Zenon DEF RemoveObject
<1>1. CASE SyncRules
  BY <1>1, RequestsOfType DEF SyncRules, Dequeue, GetCompliments, Known
<1>2. CASE SyncRulesFails
  BY <1>2 DEF SyncRulesFails, Dequeue, Return
<1>3. CASE DeleteAllRules
  BY <1>3 DEF DeleteAllRules, Dequeue, GetCompliments, Known
<1>4. CASE DeletesEnd
  BY <1>4 DEF DeletesEnd
<1>5. CASE CreatesEnd
  BY <1>5 DEF CreatesEnd, Return
<1>6. ASSUME NEW k \in Requests, DeleteRule(k) PROVE FlowTypeOK'
  BY <1>6 DEF DeleteRule
<1>7. ASSUME NEW k \in Requests, CreateRule(k) PROVE FlowTypeOK'
  BY <1>7 DEF CreateRule, Add
<1>8. CASE ListPortsFails
  BY <1>8, <1>f, <1>k DEF ListPortsFails, Dequeue, Return
<1>9. CASE DaemonCrash
  BY <1>9, <1>f, <1>k DEF DaemonCrash, DaemonGone, Empty
<1>10. CASE ServerRestart
  BY <1>10, <1>f, <1>k DEF ServerRestart
<1>11. CASE DeleteObjectUnseen
  BY <1>11, <1>f, <1>k, <1>r DEF DeleteObjectUnseen
<1>12. ASSUME NEW k \in Requests, DeleteRuleRefused(k) PROVE FlowTypeOK'
  BY <1>12, <1>f, <1>k DEF DeleteRuleRefused
<1>13. ASSUME NEW k \in Requests, DeleteRulePanics(k) PROVE FlowTypeOK'
  BY <1>13, <1>f, <1>k DEF DeleteRulePanics, DaemonGone, Empty
<1>14. ASSUME NEW k \in Requests, CreateRuleRefused(k) PROVE FlowTypeOK'
  BY <1>14, <1>f, <1>k DEF CreateRuleRefused, Return
<1>15. ASSUME NEW k \in Requests, CreateReplyLost(k) PROVE FlowTypeOK'
  BY <1>15, <1>f, <1>k DEF CreateReplyLost, Return
<1>16. CASE DaemonStart
  BY <1>16 DEF DaemonStart
<1>17. ASSUME NEW rs \in SUBSET Rules, WriteRules(rs) PROVE FlowTypeOK'
  BY <1>17 DEF WriteRules, Notify
<1>18. CASE DeleteObject
  BY <1>18, <1>r DEF DeleteObject, Notify
<1>19. CASE UNCHANGED flowVars
  BY <1>19 DEF flowVars
<1> QED
  BY <1>1, <1>2, <1>3, <1>4, <1>5, <1>6, <1>7, <1>8, <1>9, <1>10, <1>11, <1>12, <1>13,
     <1>14, <1>15, <1>16, <1>17, <1>18, <1>19 DEF FlowNext, ReconcileStep, FailureStep

\* The variables have their types at the start.
LEMMA FlowTypeInit == FlowInit => FlowTypeOK
BY FlowBounds DEF FlowInit, FlowTypeOK, Empty

\* The daemon, its cache and its work lists stay within their types, whatever
\* fails.
THEOREM FlowTypeCorrect == FlowSpec => []FlowTypeOK
BY FlowTypeInit, FlowTypeStep, PTL DEF FlowSpec

-----------------------------------------------------------------------------
(* The work lists and the cache *)

\* The work lists are about the cache as it is: what is to be created is not in
\* it and what is to be deleted is.
WorkListsFitCache ==
  toAdd \cap Known = {} /\ toDelete \subseteq Known

\* Add is only called for hashes that the cache does not have.
LEMMA AddIsNew ==
  ASSUME WorkListsFitCache, NEW k \in toAdd, NEW id
  PROVE  Add(k, id) = [flowSets EXCEPT ![k] = id]
BY DEF WorkListsFitCache, Add

\* The lists are computed from the cache and only they are worked off.
LEMMA WorkListsStep ==
  FlowTypeOK /\ WorkListsFitCache /\ [FlowNext]_flowVars => WorkListsFitCache'
<1> USE DEF WorkListsFitCache, Known, object, daemon
<1> SUFFICES ASSUME FlowTypeOK, WorkListsFitCache, [FlowNext]_flowVars
             PROVE  WorkListsFitCache'
  OBVIOUS
<1>t. flowSets \in [Requests -> FlowIds \cup {NoId}]
  BY DEF FlowTypeOK
<1>1. CASE SyncRules
  BY <1>1 DEF SyncRules, GetCompliments
<1>2. CASE SyncRulesFails
  BY <1>2 DEF SyncRulesFails, Return
<1>3. CASE DeleteAllRules
  BY <1>3 DEF DeleteAllRules, GetCompliments
<1>4. CASE DeletesEnd
  BY <1>4 DEF DeletesEnd
<1>5. CASE CreatesEnd
  BY <1>5 DEF CreatesEnd, Return
<1>6. ASSUME NEW k \in Requests, DeleteRule(k) PROVE WorkListsFitCache'
  BY <1>6, <1>t DEF DeleteRule
<1>7. ASSUME NEW k \in Requests, CreateRule(k) PROVE WorkListsFitCache'
  BY <1>7, <1>t, IdsAssumption DEF CreateRule, Add
<1>8. CASE ListPortsFails
  BY <1>8 DEF ListPortsFails, Return
<1>9. CASE DaemonCrash
  BY <1>9 DEF DaemonCrash, DaemonGone
<1>10. CASE ServerRestart
  BY <1>10 DEF ServerRestart
<1>11. CASE DeleteObjectUnseen
  BY <1>11 DEF DeleteObjectUnseen, RemoveObject
<1>12. ASSUME NEW k \in Requests, DeleteRuleRefused(k) PROVE WorkListsFitCache'
  BY <1>12, <1>t DEF DeleteRuleRefused
<1>13. ASSUME NEW k \in Requests, DeleteRulePanics(k) PROVE WorkListsFitCache'
  BY <1>13 DEF DeleteRulePanics, DaemonGone
<1>14. ASSUME NEW k \in Requests, CreateRuleRefused(k) PROVE WorkListsFitCache'
  BY <1>14 DEF CreateRuleRefused, Return
<1>15. ASSUME NEW k \in Requests, CreateReplyLost(k) PROVE WorkListsFitCache'
  BY <1>15 DEF CreateReplyLost, Return
<1>16. CASE DaemonStart
  BY <1>16 DEF DaemonStart
<1>17. ASSUME NEW rs \in SUBSET Rules, WriteRules(rs) PROVE WorkListsFitCache'
  BY <1>17 DEF WriteRules
<1>18. CASE DeleteObject
  BY <1>18 DEF DeleteObject, RemoveObject
<1>19. CASE UNCHANGED flowVars
  BY <1>19 DEF flowVars
<1> QED
  BY <1>1, <1>2, <1>3, <1>4, <1>5, <1>6, <1>7, <1>8, <1>9, <1>10, <1>11, <1>12, <1>13,
     <1>14, <1>15, <1>16, <1>17, <1>18, <1>19 DEF FlowNext, ReconcileStep, FailureStep

\* createRules meets only hashes the cache does not have and deleteRules only
\* hashes it has, after any failures, crashes and restarts.
LEMMA WorkListsFit == FlowSpec => []WorkListsFitCache
<1>1. FlowInit => WorkListsFitCache
  BY DEF FlowInit, WorkListsFitCache
<1> QED
  BY <1>1, WorkListsStep, FlowTypeCorrect, PTL DEF FlowSpec

-----------------------------------------------------------------------------
(* The cache and the server *)

\* A failure that happened stays on record.
LEMMA FailedGrows == [FlowNext]_flowVars => failed \subseteq failed'
<1> USE DEF failures
<1> SUFFICES ASSUME [FlowNext]_flowVars PROVE failed \subseteq failed'
  OBVIOUS
<1>f. ASSUME NEW f, FlowFault(f) PROVE failed \subseteq failed'
  BY <1>f DEF FlowFault
<1>1. ASSUME ReconcileStep PROVE failed \subseteq failed'
  BY <1>1 DEF ReconcileStep, SyncRules, SyncRulesFails, DeleteAllRules, DeletesEnd,
              CreatesEnd, DeleteRule, CreateRule
<1>2. ASSUME FailureStep PROVE failed \subseteq failed'
  BY <1>2, <1>f DEF FailureStep, ListPortsFails, DaemonCrash, ServerRestart,
                    DeleteObjectUnseen, DeleteRuleRefused, DeleteRulePanics,
                    CreateRuleRefused, CreateReplyLost
<1>3. CASE DaemonStart \/ DeleteObject \/ \E rs \in SUBSET Rules : WriteRules(rs)
  BY <1>3 DEF DaemonStart, DeleteObject, WriteRules
<1>4. CASE UNCHANGED flowVars
  BY <1>4 DEF flowVars
<1> QED
  BY <1>1, <1>2, <1>3, <1>4 DEF FlowNext

\* CachedFlowsExist and NoStrayFlows without their conditions.
CacheTrue == \A k \in Requests : flowSets[k] # NoId => server[flowSets[k]] = k

Recorded == \A id \in FlowIds : server[id] # NoFlow => flowSets[server[id]] = id

\* As long as the server keeps its flows, the records of the cache stay true.
LEMMA CachedStep ==
  FlowTypeOK /\ WorkListsFitCache /\ CachedFlowsExist /\ [FlowNext]_flowVars
    => CachedFlowsExist'
<1> USE DEF object, daemon
<1> SUFFICES ASSUME FlowTypeOK, WorkListsFitCache, CachedFlowsExist, [FlowNext]_flowVars,
                    "server" \notin failed'
             PROVE  CacheTrue'
  BY DEF CachedFlowsExist, CacheTrue
<1>s. failed \subseteq failed'
  BY FailedGrows
<1>c. CacheTrue
  BY <1>s DEF CachedFlowsExist, CacheTrue
<1> USE DEF CacheTrue
<1>t. /\ flowSets \in [Requests -> FlowIds \cup {NoId}]
      /\ server \in [FlowIds -> Requests \cup {NoFlow}]
  BY DEF FlowTypeOK
<1>u. CASE UNCHANGED <<flowSets, server>>
  BY <1>u, <1>c
<1>e. CASE flowSets' = Empty
  BY <1>e DEF Empty
<1>1. ASSUME NEW k \in Requests, DeleteRule(k) PROVE CacheTrue'
  BY <1>1, <1>c, <1>t DEF DeleteRule
<1>2. ASSUME NEW k \in Requests, CreateRule(k) PROVE CacheTrue'
  <2>1. PICK id \in FlowIds :
          /\ server[id] = NoFlow
          /\ server' = [server EXCEPT ![id] = k]
          /\ flowSets' = [flowSets EXCEPT ![k] = id]
    BY <1>2, AddIsNew DEF CreateRule
  <2>2. SUFFICES ASSUME NEW j \in Requests, flowSets'[j] # NoId
                 PROVE  server'[flowSets'[j]] = j
    OBVIOUS
  <2>3. CASE j = k
    BY <2>1, <2>3, <1>t
  <2>4. CASE j # k
    <3>1. flowSets'[j] = flowSets[j] /\ flowSets[j] \in FlowIds
      BY <2>1, <2>2, <2>4, <1>t
    <3>2. server[flowSets[j]] = j
      BY <3>1, <2>2, <1>c
    <3> QED
      BY <2>1, <3>1, <3>2, <1>t, FlowsAssumption
  <2> QED
    BY <2>3, <2>4
<1>3. ASSUME NEW k \in Requests, DeleteRuleRefused(k) PROVE CacheTrue'
  BY <1>3, <1>c, <1>t DEF DeleteRuleRefused
<1>4. ASSUME NEW k \in Requests, CreateReplyLost(k) PROVE CacheTrue'
  <2>1. PICK id \in FlowIds :
          /\ server[id] = NoFlow
          /\ server' = [server EXCEPT ![id] = k]
          /\ flowSets' = flowSets
    BY <1>4 DEF CreateReplyLost
  <2> QED
    BY <2>1, <1>c, <1>t, FlowsAssumption
<1>5. ~ServerRestart
  BY DEF ServerRestart, FlowFault
<1>6. ASSUME ReconcileStep PROVE CacheTrue'
  BY <1>6, <1>u, <1>1, <1>2
     DEF ReconcileStep, SyncRules, SyncRulesFails, DeleteAllRules, DeletesEnd, CreatesEnd
<1>7. ASSUME FailureStep PROVE CacheTrue'
  BY <1>7, <1>u, <1>e, <1>3, <1>4, <1>5
     DEF FailureStep, ListPortsFails, DaemonCrash, DaemonGone, DeleteObjectUnseen,
         RemoveObject, DeleteRulePanics, CreateRuleRefused
<1>8. CASE DaemonStart
  BY <1>8, <1>u DEF DaemonStart
<1>9. ASSUME NEW rs \in SUBSET Rules, WriteRules(rs) PROVE CacheTrue'
  BY <1>9, <1>u DEF WriteRules
<1>10. CASE DeleteObject
  BY <1>10, <1>u DEF DeleteObject, RemoveObject
<1>11. CASE UNCHANGED flowVars
  BY <1>11, <1>u DEF flowVars
<1> QED
  BY <1>6, <1>7, <1>8, <1>9, <1>10, <1>11 DEF FlowNext

\* Until the UFT server restarts by itself, deleteRules destroys the flow of the
\* rule it means, after any other failures, lost answers and crashes.
THEOREM CacheIsTrue == FlowSpec => []CachedFlowsExist
<1>1. FlowInit => CachedFlowsExist
  BY DEF FlowInit, CachedFlowsExist, Empty
<1> QED
  BY <1>1, CachedStep, WorkListsFit, FlowTypeCorrect, PTL DEF FlowSpec

-----------------------------------------------------------------------------
(* The server and the spec *)

\* What a Reconcile has in hand adds up to the spec: the known flows less those
\* to delete, with those to add, are the requests of the rules, unless a change
\* is waiting in the queue.
PlanInv ==
  /\ ~exists => rules = {}
  /\ pc = "off" => ~synced
  /\ pc = "create" => toDelete = {}
  /\ pc \in {"delete", "create"} /\ ~pending
       => (Known \ toDelete) \cup toAdd = RequestsOf(rules)
  /\ Quiet /\ synced => Known = RequestsOf(rules)

\* The steps that are left when calls are reliable.
LEMMA ReliableSteps ==
  ASSUME ReliableCalls', FlowNext
  PROVE  \/ ReconcileStep \/ ListPortsFails \/ DaemonStart \/ DeleteObject
         \/ \E k \in Requests : CreateRuleRefused(k)
         \/ \E rs \in SUBSET Rules : WriteRules(rs)
<1>f. /\ ~FlowFault("crash") /\ ~FlowFault("server") /\ ~FlowFault("watch")
      /\ ~FlowFault("undestroyed") /\ ~FlowFault("destroy") /\ ~FlowFault("reply")
  BY DEF FlowFault, ReliableCalls
<1>1. ~DaemonCrash /\ ~ServerRestart /\ ~DeleteObjectUnseen
  BY <1>f DEF DaemonCrash, ServerRestart, DeleteObjectUnseen
<1>2. ASSUME NEW k \in Requests
      PROVE  ~DeleteRuleRefused(k) /\ ~DeleteRulePanics(k) /\ ~CreateReplyLost(k)
  BY <1>f DEF DeleteRuleRefused, DeleteRulePanics, CreateReplyLost
<1> QED
  BY <1>1, <1>2 DEF FlowNext, FailureStep

\* With reliable calls no flow is created or left behind without its record.
LEMMA NoStrayStep ==
  FlowTypeOK /\ WorkListsFitCache /\ NoStrayFlows /\ [FlowNext]_flowVars => NoStrayFlows'
<1> USE DEF object, daemon
<1> SUFFICES ASSUME FlowTypeOK, WorkListsFitCache, NoStrayFlows, [FlowNext]_flowVars,
                    ReliableCalls'
             PROVE  Recorded'
  BY DEF NoStrayFlows, Recorded
<1>s. ReliableCalls
  BY FailedGrows DEF ReliableCalls
<1>c. Recorded
  BY <1>s DEF NoStrayFlows, Recorded
<1> USE DEF Recorded
<1>t. /\ flowSets \in [Requests -> FlowIds \cup {NoId}]
      /\ server \in [FlowIds -> Requests \cup {NoFlow}]
  BY DEF FlowTypeOK
<1>u. CASE UNCHANGED <<flowSets, server>>
  BY <1>u, <1>c
<1>1. ASSUME NEW k \in Requests, DeleteRule(k) PROVE Recorded'
  <2>1. /\ server' = [server EXCEPT ![flowSets[k]] = NoFlow]
        /\ flowSets' = [flowSets EXCEPT ![k] = NoId]
    BY <1>1 DEF DeleteRule
  <2>2. SUFFICES ASSUME NEW id \in FlowIds, server'[id] # NoFlow
                 PROVE  flowSets'[server'[id]] = id
    OBVIOUS
  <2>3. server'[id] = server[id] /\ id # flowSets[k]
    BY <2>1, <2>2, <1>t
  <2>4. server[id] \in Requests /\ flowSets[server[id]] = id
    BY <2>2, <2>3, <1>c, <1>t
  <2> QED
    BY <2>1, <2>3, <2>4, <1>t
<1>2. ASSUME NEW k \in Requests, CreateRule(k) PROVE Recorded'
  <2>1. PICK id \in FlowIds :
          /\ server[id] = NoFlow
          /\ server' = [server EXCEPT ![id] = k]
          /\ flowSets' = [flowSets EXCEPT ![k] = id]
    BY <1>2, AddIsNew DEF CreateRule
  <2>2. flowSets[k] = NoId
    BY <1>2 DEF CreateRule, WorkListsFitCache, Known
  <2>3. SUFFICES ASSUME NEW i \in FlowIds, server'[i] # NoFlow
                 PROVE  flowSets'[server'[i]] = i
    OBVIOUS
  <2>4. CASE i = id
    BY <2>1, <2>4, <1>t
  <2>5. CASE i # id
    <3>1. server'[i] = server[i] /\ server[i] \in Requests /\ flowSets[server[i]] = i
      BY <2>1, <2>3, <2>5, <1>c, <1>t
    <3>2. server[i] # k
      BY <3>1, <2>2, IdsAssumption
    <3> QED
      BY <3>1, <3>2, <2>1, <1>t
  <2> QED
    BY <2>4, <2>5
<1>3. ASSUME ReconcileStep PROVE Recorded'
  BY <1>3, <1>u, <1>1, <1>2
     DEF ReconcileStep, SyncRules, SyncRulesFails, DeleteAllRules, DeletesEnd, CreatesEnd
<1>4. CASE UNCHANGED flowVars
  BY <1>4, <1>u DEF flowVars
<1> QED
  BY <1>3, <1>4, <1>u, ReliableSteps
     DEF ListPortsFails, CreateRuleRefused, DaemonStart, WriteRules, DeleteObject, RemoveObject

\* With reliable calls a step of Reconcile keeps its plan, and every change of
\* the object puts a request in the queue.
LEMMA PlanStep ==
  FlowTypeOK /\ WorkListsFitCache /\ (ReliableCalls => PlanInv) /\ [FlowNext]_flowVars
    => (ReliableCalls => PlanInv)'
<1> SUFFICES ASSUME FlowTypeOK, WorkListsFitCache, ReliableCalls => PlanInv,
                    [FlowNext]_flowVars, ReliableCalls'
             PROVE  PlanInv'
  OBVIOUS
<1>p. PlanInv
  BY FailedGrows DEF ReliableCalls
<1> USE <1>p DEF PlanInv, Known, Quiet, object, daemon
<1>t. /\ flowSets \in [Requests -> FlowIds \cup {NoId}]
      /\ pc \in {"off", "idle", "delete", "create"}
  BY DEF FlowTypeOK
<1>e. RequestsOf({}) = {}
  BY DEF RequestsOf
<1>1. CASE SyncRules
  BY <1>1 DEF SyncRules, Dequeue, GetCompliments
<1>2. CASE SyncRulesFails
  BY <1>2 DEF SyncRulesFails, Dequeue, Return
<1>3. CASE DeleteAllRules
  BY <1>3, <1>e DEF DeleteAllRules, Dequeue, GetCompliments
<1>4. CASE DeletesEnd
  BY <1>4 DEF DeletesEnd
<1>5. CASE CreatesEnd
  BY <1>5 DEF CreatesEnd, Return
<1>6. ASSUME NEW k \in Requests, DeleteRule(k) PROVE PlanInv'
  <2>1. Known' = Known \ {k}
    BY <1>6, <1>t DEF DeleteRule
  <2>2. Known' \ toDelete' = Known \ toDelete
    BY <1>6, <2>1 DEF DeleteRule
  <2> QED
    BY <1>6, <2>2 DEF DeleteRule
<1>7. ASSUME NEW k \in Requests, CreateRule(k) PROVE PlanInv'
  <2>1. Known' = Known \cup {k} /\ toAdd' = toAdd \ {k} /\ k \in toAdd /\ toDelete' = {}
    BY <1>7, <1>t, AddIsNew, IdsAssumption DEF CreateRule
  <2>2. (Known' \ toDelete') \cup toAdd' = (Known \ toDelete) \cup toAdd
    BY <1>7, <2>1 DEF CreateRule
  <2> QED
    BY <1>7, <2>1, <2>2 DEF CreateRule
<1>8. CASE ListPortsFails
  BY <1>8 DEF ListPortsFails, Dequeue, Return
<1>9. ASSUME NEW k \in Requests, CreateRuleRefused(k) PROVE PlanInv'
  BY <1>9 DEF CreateRuleRefused, Return
<1>10. CASE DaemonStart
  BY <1>10 DEF DaemonStart
<1>11. ASSUME NEW rs \in SUBSET Rules, WriteRules(rs) PROVE PlanInv'
  BY <1>11 DEF WriteRules, Notify
<1>12. CASE DeleteObject
  BY <1>12 DEF DeleteObject, RemoveObject, Notify
<1>13. CASE UNCHANGED flowVars
  BY <1>13 DEF flowVars
<1> QED
  BY <1>1, <1>2, <1>3, <1>4, <1>5, <1>6, <1>7, <1>8, <1>9, <1>10, <1>11, <1>12, <1>13,
     ReliableSteps DEF ReconcileStep

\* As long as every call is answered, no flow is in the server without a record,
\* or twice.
THEOREM NothingLost == FlowSpec => []NoStrayFlows
<1>1. FlowInit => NoStrayFlows
  BY DEF FlowInit, NoStrayFlows
<1> QED
  BY <1>1, NoStrayStep, FlowTypeCorrect, WorkListsFit, PTL DEF FlowSpec

\* The plan is kept as long as every call is answered.
LEMMA PlanKept == FlowSpec => [](ReliableCalls => PlanInv)
<1>1. FlowInit => (ReliableCalls => PlanInv)
  BY DEF FlowInit, PlanInv, Quiet
<1> QED
  BY <1>1, PlanStep, FlowTypeCorrect, WorkListsFit, PTL DEF FlowSpec

\* A rule without a range is translated to what it means.
LEMMA PlainTranslation ==
  /\ FlowsOf(PlainRules) \subseteq RequestsOf(rules)
  /\ rules = PlainRules => FlowsOf(rules) = RequestsOf(rules)
<1>1. ASSUME NEW fr \in PlainRules PROVE FlowOf(fr) = getFlowCreateRequests(fr)
  BY DEF PlainRules, FlowOf, getFlowCreateRequests
<1>2. PlainRules \subseteq rules
  BY DEF PlainRules
<1> QED
  BY <1>1, <1>2 DEF FlowsOf, RequestsOf

\* As long as every call is answered, a Reconcile without error leaves the server
\* with the flows that a spec without ranges means and no others, whatever was
\* refused before.
THEOREM SyncedIsEqual == FlowSpec => []SyncedMeansEqual
<1>1. /\ FlowTypeOK /\ CachedFlowsExist /\ NoStrayFlows
      /\ (ReliableCalls => PlanInv)
      => SyncedMeansEqual
  <2> SUFFICES ASSUME FlowTypeOK, CachedFlowsExist, NoStrayFlows, ReliableCalls,
                      PlanInv, Quiet, synced, rules = PlainRules
               PROVE  Flows = FlowsOf(rules)
    BY DEF SyncedMeansEqual
  <2>1. CacheTrue /\ Recorded
    BY DEF CachedFlowsExist, NoStrayFlows, ReliableCalls, CacheTrue, Recorded
  <2>2. Flows = Known
    BY <2>1, FlowsAssumption, IdsAssumption
       DEF Flows, Known, CacheTrue, Recorded, FlowTypeOK
  <2> QED
    BY <2>2, PlainTranslation DEF PlanInv
<1> QED
  BY <1>1, PlanKept, FlowTypeCorrect, CacheIsTrue, NothingLost, PTL

-----------------------------------------------------------------------------
(* After any failure *)

\* What a Reconcile has in hand covers the spec, unless a change is waiting in
\* the queue.
CoverInv ==
  /\ ~exists => rules = {}
  /\ pc = "off" => ~synced
  /\ pc = "create" => toDelete = {}
  /\ pc \in {"delete", "create"} /\ ~pending
       => RequestsOf(rules) \subseteq (Known \ toDelete) \cup toAdd
  /\ Quiet /\ synced => RequestsOf(rules) \subseteq Known

\* No step, failures included, loses a rule of the spec from the plan.
LEMMA CoverStep ==
  FlowTypeOK /\ WorkListsFitCache /\ CoverInv /\ [FlowNext]_flowVars => CoverInv'
<1> USE DEF CoverInv, Known, Quiet, object, daemon
<1> SUFFICES ASSUME FlowTypeOK, WorkListsFitCache, CoverInv, [FlowNext]_flowVars
             PROVE  CoverInv'
  OBVIOUS
<1>t. /\ flowSets \in [Requests -> FlowIds \cup {NoId}]
      /\ pc \in {"off", "idle", "delete", "create"}
  BY DEF FlowTypeOK
<1>e. RequestsOf({}) = {}
  BY DEF RequestsOf
<1>d. ASSUME NEW k \in toDelete, toDelete' = toDelete \ {k},
             flowSets' = [flowSets EXCEPT ![k] = NoId], k \in Requests,
             pc = "delete", UNCHANGED <<object, pending, pc, toAdd, synced>>
      PROVE  CoverInv'
  <2>1. Known' = Known \ {k}
    BY <1>d, <1>t
  <2>2. Known' \ toDelete' = Known \ toDelete
    BY <1>d, <2>1
  <2> QED
    BY <1>d, <2>2
<1>1. CASE SyncRules
  BY <1>1 DEF SyncRules, Dequeue, GetCompliments
<1>2. CASE SyncRulesFails
  BY <1>2 DEF SyncRulesFails, Dequeue, Return
<1>3. CASE DeleteAllRules
  BY <1>3, <1>e DEF DeleteAllRules, Dequeue, GetCompliments
<1>4. CASE DeletesEnd
  BY <1>4 DEF DeletesEnd
<1>5. CASE CreatesEnd
  BY <1>5 DEF CreatesEnd, Return
<1>6. ASSUME NEW k \in Requests, DeleteRule(k) PROVE CoverInv'
  BY <1>6, <1>d DEF DeleteRule
<1>7. ASSUME NEW k \in Requests, CreateRule(k) PROVE CoverInv'
  <2>1. Known' = Known \cup {k} /\ toAdd' = toAdd \ {k} /\ k \in toAdd /\ toDelete' = {}
    BY <1>7, <1>t, AddIsNew, IdsAssumption DEF CreateRule
  <2>2. (Known' \ toDelete') \cup toAdd' = (Known \ toDelete) \cup toAdd
    BY <1>7, <2>1 DEF CreateRule
  <2> QED
    BY <1>7, <2>1, <2>2 DEF CreateRule
<1>8. CASE ListPortsFails
  BY <1>8 DEF ListPortsFails, Dequeue, Return
<1>9. ASSUME NEW k \in Requests, CreateRuleRefused(k) \/ CreateReplyLost(k) PROVE CoverInv'
  BY <1>9 DEF CreateRuleRefused, CreateReplyLost, Return
<1>10. ASSUME NEW k \in Requests, DeleteRuleRefused(k) PROVE CoverInv'
  BY <1>10, <1>d DEF DeleteRuleRefused
<1>11. CASE DaemonGone
  BY <1>11 DEF DaemonGone
<1>12. CASE DaemonStart
  BY <1>12 DEF DaemonStart
<1>13. ASSUME NEW rs \in SUBSET Rules, WriteRules(rs) PROVE CoverInv'
  BY <1>13 DEF WriteRules, Notify
<1>14. CASE RemoveObject
  BY <1>14, <1>e DEF RemoveObject
<1>15. CASE ServerRestart
  BY <1>15 DEF ServerRestart
<1>16. CASE UNCHANGED flowVars
  BY <1>16 DEF flowVars
<1> QED
  BY <1>1, <1>2, <1>3, <1>4, <1>5, <1>6, <1>7, <1>8, <1>9, <1>10, <1>11, <1>12, <1>13,
     <1>14, <1>15, <1>16 DEF FlowNext, ReconcileStep, FailureStep, DaemonCrash,
     DeleteRulePanics, DeleteObject, DeleteObjectUnseen

\* Until the UFT server restarts by itself, a Reconcile without error leaves every
\* rule without a range in force, after any lost answers, refused calls, panics,
\* crashes and missed deletions.
THEOREM RulesInForce == FlowSpec => []SyncedRulesInForce
<1>1. FlowInit => CoverInv
  BY DEF FlowInit, CoverInv, Quiet
<1>2. FlowTypeOK /\ CachedFlowsExist /\ CoverInv => SyncedRulesInForce
  <2> SUFFICES ASSUME FlowTypeOK, CachedFlowsExist, CoverInv, Quiet, synced,
                      "server" \notin failed
               PROVE  FlowsOf(PlainRules) \subseteq Flows
    BY DEF SyncedRulesInForce
  <2>1. CacheTrue
    BY DEF CachedFlowsExist, CacheTrue
  <2>2. Known \subseteq Flows
    BY <2>1, FlowsAssumption DEF Flows, Known, CacheTrue, FlowTypeOK
  <2> QED
    BY <2>2, PlainTranslation DEF CoverInv
<1> QED
  BY <1>1, <1>2, CoverStep, FlowTypeCorrect, WorkListsFit, CacheIsTrue, PTL DEF FlowSpec

-----------------------------------------------------------------------------
(* The order of deletes and creates *)

\* As long as every call is answered, a flow is created only when all that had to
\* go is gone, and never beside a flow of the same rule.
THEOREM DeletesFirst == FlowSpec => DeletedBeforeCreated
<1> DEFINE OneStep ==
      \A id \in FlowIds :
        ReliableCalls /\ server[id] = NoFlow /\ server'[id] # NoFlow
          => toDelete = {} /\ server'[id] \notin Flows
<1>1. /\ FlowTypeOK /\ WorkListsFitCache /\ NoStrayFlows
      /\ (ReliableCalls => PlanInv) /\ [FlowNext]_flowVars
      => [OneStep]_flowVars
  <2> SUFFICES ASSUME FlowTypeOK, WorkListsFitCache, NoStrayFlows, PlanInv, ReliableCalls,
                      [FlowNext]_flowVars,
                      NEW id \in FlowIds, server[id] = NoFlow, server'[id] # NoFlow
               PROVE  toDelete = {} /\ server'[id] \notin Flows
    BY DEF OneStep
  <2>t. /\ flowSets \in [Requests -> FlowIds \cup {NoId}]
        /\ server \in [FlowIds -> Requests \cup {NoFlow}]
    BY DEF FlowTypeOK
  <2>1. PICK k \in Requests : CreateRule(k) \/ CreateReplyLost(k)
    <3>1. CASE server' = server
      BY <3>1
    <3>2. CASE \E k \in Requests : DeleteRule(k) \/ DeleteRulePanics(k)
      BY <3>2, <2>t DEF DeleteRule, DeleteRulePanics
    <3>3. CASE ServerRestart
      BY <3>3 DEF ServerRestart
    <3>4. CASE UNCHANGED flowVars
      BY <3>1, <3>4 DEF flowVars
    <3>5. CASE ReconcileStep
      BY <3>1, <3>2, <3>5 DEF ReconcileStep, SyncRules, SyncRulesFails, DeleteAllRules,
                              DeletesEnd, CreatesEnd
    <3>6. CASE FailureStep
      BY <3>1, <3>2, <3>3, <3>6 DEF FailureStep, ListPortsFails, DaemonCrash,
            DeleteObjectUnseen, RemoveObject, DeleteRuleRefused, CreateRuleRefused
    <3>7. CASE DaemonStart \/ DeleteObject \/ \E rs \in SUBSET Rules : WriteRules(rs)
      BY <3>1, <3>7 DEF DaemonStart, DeleteObject, RemoveObject, WriteRules
    <3> QED
      BY <3>4, <3>5, <3>6, <3>7 DEF FlowNext
  <2>2. pc = "create" /\ k \in toAdd
    BY <2>1 DEF CreateRule, CreateReplyLost
  <2>3. server'[id] = k
    BY <2>1, <2>t DEF CreateRule, CreateReplyLost
  <2>4. k \notin Flows
    BY <2>2, <2>t, FlowsAssumption, IdsAssumption
       DEF Flows, NoStrayFlows, WorkListsFitCache, Known
  <2> QED
    BY <2>2, <2>3, <2>4 DEF PlanInv
<1> QED
  BY <1>1, PlanKept, FlowTypeCorrect, WorkListsFit, NothingLost, PTL
     DEF FlowSpec, DeletedBeforeCreated
=============================================================================
