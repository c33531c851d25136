------------------------- MODULE ClusterFlowConfigProofs -------------------------
(***************************************************************************)
(* Theorems about ClusterFlowConfig, for any number of objects, nodes and  *)
(* pods, any specs and labels, and any changes in the middle of a          *)
(* Reconcile.                                                              *)
(***************************************************************************)
EXTENDS ClusterFlowConfig, FiniteSetTheorems, TLAPS

-----------------------------------------------------------------------------
(* Records *)

\* The rules that the controller makes, and what it holds of a node.
MadeRule == [rule : Rule, addr : Addresses \cup {None}]
Works == [Nodes -> (SUBSET MadeRule) \cup {None}]

PodLists == UNION {[P -> Pod] : P \in SUBSET Pods}
ConfigLists == UNION {[C -> SUBSET Rule] : C \in SUBSET Configs}

PCs == {"idle", "pods", "list", "build", "write", "clean"}

RecRecord ==
  [pc : PCs, req : Configs \cup {None}, sel : Selector \cup {None}, pods : PodLists, list : ConfigLists,
   work : Works, stale : SUBSET Nodes, todo : SUBSET Nodes]

\* A record of Reconcile, by its fields.
RecIs(r, pc, req, sel, pods, list, work, stale, todo) ==
  /\ r \in RecRecord /\ r.pc = pc /\ r.req = req /\ r.sel = sel /\ r.pods = pods
  /\ r.list = list /\ r.work = work /\ r.stale = stale /\ r.todo = todo

RecordsOK ==
  /\ cfc \in [Configs -> Spec \cup {None}]
  /\ pod \in [Pods -> Pod \cup {None}]
  /\ nfc \in NodeFlowConfigs
  /\ queue \subseteq Configs
  /\ hashMap \in [Configs -> [Nodes -> SUBSET MadeRule]]
  /\ rec \in RecRecord
  /\ writers \in [Nodes -> SUBSET Selector]
  /\ edits \in Nat /\ budget \in Nat /\ failed \subseteq Faults \cup Consequences

\* Where Reconcile is says which of its variables mean something.
StepsOK ==
  /\ rec.pc # "idle" => rec.req \in Configs
  /\ rec.pc \in {"pods", "list", "build", "write"} => rec.sel \in Selector
  /\ rec.pc \notin {"build", "write"} => rec.work = NoEntry
  /\ IF rec.pc = "clean" THEN rec.todo \subseteq NodesOf(rec.req) ELSE rec.todo = {}

TypeInv == RecordsOK /\ StepsOK

\* An empty list is one.
LEMMA EmptyLists == <<>> \in PodLists /\ <<>> \in ConfigLists
<1>1. <<>> \in [{} -> Pod] /\ <<>> \in [{} -> SUBSET Rule]
  OBVIOUS
<1>2. {} \in SUBSET Pods /\ {} \in SUBSET Configs
  OBVIOUS
<1> QED
  BY <1>1, <1>2 DEF PodLists, ConfigLists

\* Reconcile without a request.
LEMMA IdleIs == RecIs(Idle, "idle", None, None, <<>>, <<>>, NoEntry, {}, {})
<1>1. NoEntry \in Works
  BY DEF NoEntry, Works
<1> QED
  BY <1>1, EmptyLists DEF RecIs, RecRecord, Idle, PCs

\* Lists, by the functions they are.
LEMMA ListsAre ==
  /\ \A P \in SUBSET Pods : [P -> Pod] \subseteq PodLists
  /\ \A C \in SUBSET Configs : [C -> SUBSET Rule] \subseteq ConfigLists
BY DEF PodLists, ConfigLists

\* A list without one of its pods.
LEMMA DropIs ==
  ASSUME NEW f \in PodLists, NEW x
  PROVE  /\ Drop(f, x) \in PodLists
         /\ DOMAIN Drop(f, x) = DOMAIN f \ {x} /\ \A p \in DOMAIN f \ {x} : Drop(f, x)[p] = f[p]
         /\ DOMAIN f \subseteq Pods /\ \A p \in DOMAIN f : f[p] \in Pod
<1>1. PICK P \in SUBSET Pods : f \in [P -> Pod]
  BY DEF PodLists
<1>2. Drop(f, x) \in [P \ {x} -> Pod] /\ P \ {x} \in SUBSET Pods
  BY <1>1 DEF Drop
<1>3. DOMAIN Drop(f, x) = DOMAIN f \ {x} /\ \A p \in DOMAIN f \ {x} : Drop(f, x)[p] = f[p]
  BY DEF Drop
<1> QED
  BY <1>1, <1>2, <1>3 DEF PodLists

\* The listed objects are objects with rules.
LEMMA ListIs ==
  ASSUME NEW f \in ConfigLists
  PROVE  DOMAIN f \subseteq Configs /\ \A c \in DOMAIN f : f[c] \in SUBSET Rule
BY DEF ConfigLists

\* Rules are translated into rules that the controller makes.
LEMMA NodeRulesMade ==
  ASSUME NEW p \in Pod, NEW rs \in SUBSET Rule
  PROVE  NodeRules(rs, p) \in SUBSET MadeRule
<1>1. \A r \in rs : Translated(r, p) \in MadeRule
  BY DEF Translated, MadeRule, Rule, Pod
<1> QED
  BY <1>1 DEF NodeRules

-----------------------------------------------------------------------------
(* What the steps of Reconcile do to its variables *)

\* Reconcile goes on to the pods of an object that is there, or cleans up.
LEMMA GetEffect ==
  ASSUME TypeInv, NEW c \in Configs, ReconcileGet(c)
  PROVE  /\ rec.pc = "idle" /\ c \in queue /\ queue' = queue \ {c}
         /\ UNCHANGED <<cfc, pod, nfc, hashMap, writers, edits, budget, failed>>
         /\ \/ /\ cfc[c] # None /\ cfc[c].sel \in Selector
               /\ RecIs(rec', "pods", c, cfc[c].sel, <<>>, <<>>, NoEntry, {}, {})
            \/ /\ cfc[c] = None
               /\ RecIs(rec', "clean", c, None, <<>>, <<>>, NoEntry, {}, NodesOf(c))
<1>1. /\ rec.pc = "idle" /\ c \in queue /\ queue' = queue \ {c}
      /\ UNCHANGED <<cfc, pod, nfc, hashMap, writers, edits, budget, failed>>
  BY DEF ReconcileGet, api, bounds
<1>2. CASE cfc[c] # None
  <2>1. PICK s \in Selector : s = cfc[c].sel
    BY <1>2 DEF TypeInv, RecordsOK, Spec
  <2>2. rec' = [Idle EXCEPT !.pc = "pods", !.req = c, !.sel = s]
    BY <1>2, <2>1 DEF ReconcileGet
  <2>3. RecIs(rec', "pods", c, s, <<>>, <<>>, NoEntry, {}, {})
    BY <2>2, IdleIs DEF RecIs, RecRecord, PCs
  <2> QED
    BY <1>1, <1>2, <2>1, <2>3
<1>3. CASE cfc[c] = None
  <2>1. PICK t \in SUBSET Nodes : t = NodesOf(c)
    BY DEF NodesOf
  <2>2. rec' = [Idle EXCEPT !.pc = "clean", !.req = c, !.todo = t]
    BY <1>3, <2>1 DEF ReconcileGet
  <2>3. RecIs(rec', "clean", c, None, <<>>, <<>>, NoEntry, {}, t)
    BY <2>2, IdleIs DEF RecIs, RecRecord, PCs
  <2> QED
    BY <1>1, <1>3, <2>1, <2>3
<1> QED
  BY <1>2, <1>3

\* The pods that match, or none and the object is cleaned up.
LEMMA ListPodsEffect ==
  ASSUME TypeInv, ListPods
  PROVE  /\ rec.pc = "pods"
         /\ UNCHANGED <<cfc, pod, nfc, queue, hashMap, writers, edits, budget, failed>>
         /\ \/ \E ps : /\ RecIs(rec', "list", rec.req, rec.sel, ps, rec.list, rec.work, rec.stale, rec.todo)
                       /\ DOMAIN ps = {p \in There(pod) : SelectorMatches(rec.sel, pod[p])}
                       /\ \A p \in DOMAIN ps : ps[p] = pod[p]
            \/ /\ RecIs(rec', "clean", rec.req, rec.sel, rec.pods, rec.list, rec.work, rec.stale, NodesOf(rec.req))
               /\ \A p \in There(pod) : ~SelectorMatches(rec.sel, pod[p])
<1> DEFINE matching == {p \in There(pod) : SelectorMatches(rec.sel, pod[p])}
<1>1. /\ rec.pc = "pods"
      /\ UNCHANGED <<cfc, pod, nfc, queue, hashMap, writers, edits, budget, failed>>
  BY DEF ListPods, api, bounds
<1>2. rec \in RecRecord
  BY DEF TypeInv, RecordsOK
<1>3. CASE matching # {}
  <2>1. matching \in SUBSET Pods /\ \A p \in matching : pod[p] \in Pod
    BY DEF TypeInv, RecordsOK, There
  <2>2. PICK ps \in PodLists : ps = [p \in matching |-> pod[p]]
    <3> DEFINE f == [p \in matching |-> pod[p]]
    <3>1. f \in [matching -> Pod]
      BY <2>1
    <3>2. f \in PodLists
      BY <2>1, <3>1, ListsAre
    <3> QED
      BY <3>2
  <2>3. rec' = [rec EXCEPT !.pc = "list", !.pods = ps]
    BY <1>3, <2>2 DEF ListPods
  <2>4. RecIs(rec', "list", rec.req, rec.sel, ps, rec.list, rec.work, rec.stale, rec.todo)
    BY <1>2, <2>3 DEF RecIs, RecRecord, PCs
  <2>5. DOMAIN ps = matching /\ \A p \in DOMAIN ps : ps[p] = pod[p]
    BY <2>2
  <2> QED
    BY <1>1, <2>4, <2>5
<1>4. CASE matching = {}
  <2>1. PICK t \in SUBSET Nodes : t = NodesOf(rec.req)
    BY DEF NodesOf
  <2>2. rec' = [rec EXCEPT !.pc = "clean", !.todo = t]
    BY <1>4, <2>1 DEF ListPods
  <2>3. RecIs(rec', "clean", rec.req, rec.sel, rec.pods, rec.list, rec.work, rec.stale, t)
    BY <1>2, <2>2 DEF RecIs, RecRecord, PCs
  <2>4. \A p \in There(pod) : ~SelectorMatches(rec.sel, pod[p])
    BY <1>4
  <2> QED
    BY <1>1, <2>1, <2>3, <2>4
<1> QED
  BY <1>3, <1>4

\* The objects that are there with the selector.
LEMMA ListConfigsEffect ==
  ASSUME TypeInv, ListConfigs
  PROVE  /\ rec.pc = "list"
         /\ UNCHANGED <<cfc, pod, nfc, queue, hashMap, writers, edits, budget, failed>>
         /\ \E l : /\ RecIs(rec', "build", rec.req, rec.sel, rec.pods, l, rec.work, rec.stale, rec.todo)
                   /\ \A c \in DOMAIN l : cfc[c] # None /\ l[c] = cfc[c].rules
                   /\ \A c \in Configs : cfc[c] # None /\ cfc[c].sel = rec.sel => c \in DOMAIN l
<1> DEFINE same == {c \in There(cfc) : cfc[c].sel = rec.sel}
<1>1. /\ rec.pc = "list"
      /\ UNCHANGED <<cfc, pod, nfc, queue, hashMap, writers, edits, budget, failed>>
  BY DEF ListConfigs, api, bounds
<1>2. rec \in RecRecord
  BY DEF TypeInv, RecordsOK
<1>3. same \in SUBSET Configs /\ \A c \in same : cfc[c] # None /\ cfc[c].rules \in SUBSET Rule
  BY DEF TypeInv, RecordsOK, There, Spec
<1>4. PICK l \in ConfigLists : l = [c \in same |-> cfc[c].rules]
  <2> DEFINE f == [c \in same |-> cfc[c].rules]
  <2>1. f \in [same -> SUBSET Rule]
    BY <1>3
  <2>2. f \in ConfigLists
    BY <1>3, <2>1, ListsAre
  <2> QED
    BY <2>2
<1>5. rec' = [rec EXCEPT !.pc = "build", !.list = l]
  BY <1>4 DEF ListConfigs
<1>6. RecIs(rec', "build", rec.req, rec.sel, rec.pods, l, rec.work, rec.stale, rec.todo)
  BY <1>2, <1>5 DEF RecIs, RecRecord, PCs
<1>7. \A c \in DOMAIN l : cfc[c] # None /\ l[c] = cfc[c].rules
  BY <1>3, <1>4
<1>8. \A c \in Configs : cfc[c] # None /\ cfc[c].sel = rec.sel => c \in DOMAIN l
  BY <1>4 DEF There, TypeInv, RecordsOK
<1> QED
  BY <1>1, <1>6, <1>7, <1>8

\* The variables outside of Reconcile that UpdateSpec and its likes leave alone.
BuildRest == UNCHANGED <<cfc, pod, nfc, queue, writers, edits, budget>>

\* A pod is done: its node has the rules ws now, or is left as it is.
PodDone(p, work) ==
  /\ rec.pc = "build" /\ p \in DOMAIN rec.pods
  /\ \E st \in SUBSET Nodes :
       RecIs(rec', "build", rec.req, rec.sel, Drop(rec.pods, p), rec.list, work, st, rec.todo)

\* The rules of a node are those that are recorded for it.
LEMMA UpdateSpecEffect ==
  ASSUME TypeInv, NEW p \in Pods, UpdateSpec(p)
  PROVE  /\ BuildRest /\ failed' = failed
         /\ \E n \in Nodes, ws \in SUBSET MadeRule :
              /\ PodDone(p, [rec.work EXCEPT ![n] = ws])
              /\ hashMap' \in [Configs -> [Nodes -> SUBSET MadeRule]]
              /\ \A c \in Configs, m \in Nodes \ {n} : hashMap'[c][m] = hashMap[c][m]
              /\ \A c \in Configs \ DOMAIN rec.list : hashMap'[c] = hashMap[c]
              /\ ws \subseteq UNION {hashMap'[c][n] : c \in Configs}
              /\ n = rec.pods[p].node
              /\ \A c \in DOMAIN rec.list : /\ hashMap'[c][n] = NodeRules(rec.list[c], rec.pods[p])
                                            /\ hashMap'[c][n] \subseteq ws
<1>1. /\ BuildRest /\ failed' = failed /\ rec.pc = "build" /\ p \in DOMAIN rec.pods
      /\ rec.pods[p].node # None
  BY DEF UpdateSpec, api, bounds, BuildRest
<1>2. PICK r \in RecRecord : r = rec
  BY DEF TypeInv, RecordsOK
<1>3. r.pods \in PodLists /\ r.list \in ConfigLists /\ r.work \in Works
  BY DEF RecRecord
<1>4. PICK q \in Pod : q = r.pods[p]
  BY <1>1, <1>2, <1>3, DropIs
<1>5. PICK n \in Nodes : n = q.node
  BY <1>1, <1>2, <1>4 DEF Pod
<1>6. PICK h \in [DOMAIN r.list -> SUBSET MadeRule] : \A c \in DOMAIN r.list : h[c] = NodeRules(r.list[c], q)
  <2> DEFINE f == [c \in DOMAIN r.list |-> NodeRules(r.list[c], q)]
  <2>1. f \in [DOMAIN r.list -> SUBSET MadeRule]
    BY <1>3, ListIs, NodeRulesMade
  <2> QED
    BY <2>1
<1>7. PICK ws \in SUBSET MadeRule : ws = UNION {h[c] : c \in DOMAIN r.list}
  BY <1>6
<1>8. PICK ps \in PodLists : ps = Drop(r.pods, p)
  BY <1>3, DropIs
<1>9. PICK w \in Works : w = [r.work EXCEPT ![n] = ws]
  BY <1>3 DEF Works
<1>09. PICK st \in SUBSET Nodes : st = Outdated(n)
  BY <1>2 DEF Outdated, RecRecord
<1>10. rec' = [r EXCEPT !.pods = ps, !.work = w, !.stale = st]
  <2>1. PICK us : us = UNION {NodeRules(rec.list[c], rec.pods[p]) : c \in DOMAIN rec.list}
    OBVIOUS
  <2>2. rec' = [rec EXCEPT !.pods = Drop(rec.pods, p), !.work = [rec.work EXCEPT ![rec.pods[p].node] = us],
                           !.stale = Outdated(rec.pods[p].node)]
    BY <2>1 DEF UpdateSpec
  <2>3. us = ws
    <3>1. \A c \in DOMAIN r.list : NodeRules(rec.list[c], rec.pods[p]) = h[c]
      BY <1>2, <1>4, <1>6
    <3>2. {NodeRules(rec.list[c], rec.pods[p]) : c \in DOMAIN rec.list} = {h[c] : c \in DOMAIN r.list}
      BY <1>2, <3>1
    <3> QED
      BY <1>7, <2>1, <3>2
  <2> QED
    BY <1>09, <1>2, <1>4, <1>5, <1>8, <1>9, <2>2, <2>3
<1>11. RecIs(rec', "build", r.req, r.sel, ps, r.list, w, st, r.todo)
  BY <1>1, <1>2, <1>10 DEF RecIs, RecRecord
<1>12. DOMAIN r.list \subseteq Configs
  BY <1>3, ListIs
<1>13. hashMap' = [c \in Configs |-> IF c \in DOMAIN r.list THEN [hashMap[c] EXCEPT ![n] = h[c]]
                                     ELSE hashMap[c]]
  BY <1>2, <1>4, <1>5, <1>6 DEF UpdateSpec
<1>14. hashMap \in [Configs -> [Nodes -> SUBSET MadeRule]]
  BY DEF TypeInv, RecordsOK
<1>15. /\ hashMap' \in [Configs -> [Nodes -> SUBSET MadeRule]]
       /\ \A c \in Configs, m \in Nodes \ {n} : hashMap'[c][m] = hashMap[c][m]
       /\ \A c \in Configs \ DOMAIN r.list : hashMap'[c] = hashMap[c]
       /\ \A c \in DOMAIN r.list : hashMap'[c][n] = h[c]
  BY <1>6, <1>12, <1>13, <1>14
<1>16. ws \subseteq UNION {hashMap'[c][n] : c \in Configs}
  BY <1>7, <1>12, <1>15
<1>17. n = rec.pods[p].node
  BY <1>2, <1>4, <1>5
<1>18. \A c \in DOMAIN rec.list : /\ hashMap'[c][n] = NodeRules(rec.list[c], rec.pods[p])
                                  /\ hashMap'[c][n] \subseteq ws
  BY <1>2, <1>4, <1>6, <1>7, <1>15
<1>19. PodDone(p, [rec.work EXCEPT ![n] = ws])
  BY <1>1, <1>2, <1>8, <1>9, <1>11 DEF PodDone
<1> QED
  BY <1>1, <1>2, <1>15, <1>16, <1>17, <1>18, <1>19

\* A pod is passed over after some of its rules were made: its node is as before
\* or has those, and only listed objects are recorded.
LEMMA UpdateSpecFailsEffect ==
  ASSUME TypeInv, NEW p \in Pods, UpdateSpecFails(p)
  PROVE  /\ BuildRest /\ failed' = failed \cup {"skipped"}
         /\ \E w \in Works : PodDone(p, w)
         /\ hashMap' \in [Configs -> [Nodes -> SUBSET MadeRule]]
         /\ \A c \in Configs \ DOMAIN rec.list : hashMap'[c] = hashMap[c]
<1>1. /\ BuildRest /\ failed' = failed \cup {"skipped"} /\ rec.pc = "build" /\ p \in DOMAIN rec.pods
      /\ rec.pods[p].node # None
  BY DEF UpdateSpecFails, api, BuildRest
<1>2. PICK r \in RecRecord : r = rec
  BY DEF TypeInv, RecordsOK
<1>3. r.pods \in PodLists /\ r.list \in ConfigLists /\ r.work \in Works
  BY DEF RecRecord
<1>4. PICK q \in Pod : q = r.pods[p]
  BY <1>1, <1>2, <1>3, DropIs
<1>5. PICK n \in Nodes : n = q.node
  BY <1>1, <1>2, <1>4 DEF Pod
<1>6. DOMAIN r.list \subseteq Configs /\ \A c \in DOMAIN r.list : r.list[c] \in SUBSET Rule
  BY <1>3, ListIs
<1>7. PICK done \in SUBSET DOMAIN r.list, part \in SUBSET Rule :
        /\ hashMap' = [c \in Configs |->
             IF c \in done THEN [hashMap[c] EXCEPT ![n] = NodeRules(r.list[c], q)] ELSE hashMap[c]]
        /\ rec' = [r EXCEPT !.pods = Drop(r.pods, p),
             !.work = [r.work EXCEPT ![n] = IF r.work[n] = None THEN None
                         ELSE (UNION {NodeRules(r.list[c], q) : c \in done}) \cup NodeRules(part, q)]]
  <2> DEFINE fine(c) == {s \in rec.list[c] : Translatable(s, rec.pods[p])}
             bad == {c \in DOMAIN rec.list : fine(c) # rec.list[c]}
  <2>1. PICK b \in bad, done \in SUBSET (DOMAIN rec.list \ bad) :
          \E part \in SUBSET fine(b) :
            /\ hashMap' = [c \in Configs |->
                 IF c \in done THEN [hashMap[c] EXCEPT ![rec.pods[p].node] = NodeRules(rec.list[c], rec.pods[p])]
                 ELSE hashMap[c]]
            /\ rec' = [rec EXCEPT !.pods = Drop(rec.pods, p),
                 !.work[rec.pods[p].node] = IF rec.work[rec.pods[p].node] = None THEN None
                             ELSE (UNION {NodeRules(rec.list[c], rec.pods[p]) : c \in done})
                                    \cup NodeRules(part, rec.pods[p])]
    BY DEF UpdateSpecFails
  <2>2. \A part \in SUBSET fine(b) : part \in SUBSET Rule
    BY <1>2, <1>6
  <2>3. done \in SUBSET DOMAIN r.list
    BY <1>2
  <2> HIDE DEF fine, bad
  <2>4. PICK part \in SUBSET fine(b) :
            /\ hashMap' = [c \in Configs |->
                 IF c \in done THEN [hashMap[c] EXCEPT ![rec.pods[p].node] = NodeRules(rec.list[c], rec.pods[p])]
                 ELSE hashMap[c]]
            /\ rec' = [rec EXCEPT !.pods = Drop(rec.pods, p),
                 !.work[rec.pods[p].node] = IF rec.work[rec.pods[p].node] = None THEN None
                             ELSE (UNION {NodeRules(rec.list[c], rec.pods[p]) : c \in done})
                                    \cup NodeRules(part, rec.pods[p])]
    BY <2>1
  <2>5. PICK us : us = IF rec.work[rec.pods[p].node] = None THEN None
                       ELSE (UNION {NodeRules(rec.list[c], rec.pods[p]) : c \in done})
                              \cup NodeRules(part, rec.pods[p])
    OBVIOUS
  <2>6. rec' = [rec EXCEPT !.pods = Drop(rec.pods, p), !.work = [rec.work EXCEPT ![rec.pods[p].node] = us]]
    BY <2>4, <2>5
  <2>7. rec' = [r EXCEPT !.pods = Drop(r.pods, p), !.work = [r.work EXCEPT ![n] = us]]
    BY <1>2, <1>4, <1>5, <2>6
  <2>8. us = IF r.work[n] = None THEN None
             ELSE (UNION {NodeRules(r.list[c], q) : c \in done}) \cup NodeRules(part, q)
    BY <1>2, <1>4, <1>5, <2>5
  <2>9. hashMap' = [c \in Configs |->
             IF c \in done THEN [hashMap[c] EXCEPT ![n] = NodeRules(r.list[c], q)] ELSE hashMap[c]]
    BY <1>2, <1>4, <1>5, <2>4
  <2> QED
    BY <2>2, <2>3, <2>7, <2>8, <2>9
<1>8. PICK x \in SUBSET MadeRule : x = (UNION {NodeRules(r.list[c], q) : c \in done}) \cup NodeRules(part, q)
  <2>1. \A c \in done : NodeRules(r.list[c], q) \in SUBSET MadeRule
    BY <1>6, NodeRulesMade
  <2>2. NodeRules(part, q) \in SUBSET MadeRule
    BY <1>6, NodeRulesMade
  <2>3. PICK y \in SUBSET MadeRule : y = UNION {NodeRules(r.list[c], q) : c \in done}
    BY <2>1
  <2>4. PICK z \in SUBSET MadeRule : z = NodeRules(part, q)
    BY <2>2
  <2>5. y \cup z \in SUBSET MadeRule
    OBVIOUS
  <2>6. y \cup z = (UNION {NodeRules(r.list[c], q) : c \in done}) \cup NodeRules(part, q)
    BY <2>3, <2>4
  <2> QED
    BY <2>5, <2>6
<1>9. PICK ws \in (SUBSET MadeRule) \cup {None} : ws = IF r.work[n] = None THEN None ELSE x
  OBVIOUS
<1>10. PICK w \in Works : w = [r.work EXCEPT ![n] = ws]
  BY <1>3 DEF Works
<1>11. PICK ps \in PodLists : ps = Drop(r.pods, p)
  BY <1>3, DropIs
<1>12. rec' = [r EXCEPT !.pods = ps, !.work = w]
  BY <1>7, <1>8, <1>9, <1>10, <1>11
<1>13. RecIs(rec', "build", r.req, r.sel, ps, r.list, w, r.stale, r.todo) /\ r.stale \in SUBSET Nodes
  BY <1>1, <1>2, <1>12 DEF RecIs, RecRecord
<1>14. hashMap \in [Configs -> [Nodes -> SUBSET MadeRule]]
  BY DEF TypeInv, RecordsOK
<1>15. /\ hashMap' \in [Configs -> [Nodes -> SUBSET MadeRule]]
       /\ \A c \in Configs \ DOMAIN r.list : hashMap'[c] = hashMap[c]
  <2>1. \A c \in done : NodeRules(r.list[c], q) \in SUBSET MadeRule
    BY <1>6, NodeRulesMade
  <2> QED
    BY <1>6, <1>7, <1>14, <2>1
<1> QED
  BY <1>1, <1>2, <1>11, <1>13, <1>15 DEF PodDone

\* What a failure uses up, and leaves a note of.
LEMMA FaultEffect ==
  ASSUME NEW k, Fault(k), budget \in Nat
  PROVE  budget' \in Nat /\ failed' = failed \cup {k} /\ k \in Faults /\ edits' = edits
BY DEF Fault

\* A pod is passed over.
LEMMA SkipEffect ==
  ASSUME TypeInv, NEW p \in Pods, SkipPod(p) \/ ReadFails(p)
  PROVE  /\ PodDone(p, rec.work) /\ UNCHANGED <<cfc, pod, nfc, queue, hashMap, writers, edits>>
         /\ \/ UNCHANGED <<budget, failed>>
            \/ budget' \in Nat /\ failed' = failed \cup {"read"} /\ "read" \in Faults
<1>1. PICK r \in RecRecord : r = rec
  BY DEF TypeInv, RecordsOK
<1>2. PICK ps \in PodLists : ps = Drop(r.pods, p)
  BY DropIs DEF RecRecord
<1>3. /\ rec.pc = "build" /\ p \in DOMAIN rec.pods /\ rec' = [r EXCEPT !.pods = ps]
      /\ UNCHANGED <<cfc, pod, nfc, queue, hashMap, writers>>
  BY <1>1, <1>2 DEF SkipPod, ReadFails, api
<1>4. RecIs(rec', "build", r.req, r.sel, ps, r.list, r.work, r.stale, r.todo) /\ r.stale \in SUBSET Nodes
  BY <1>1, <1>3 DEF RecIs, RecRecord
<1>5. budget \in Nat
  BY DEF TypeInv, RecordsOK
<1>6. \/ UNCHANGED <<edits, budget, failed>>
      \/ edits' = edits /\ budget' \in Nat /\ failed' = failed \cup {"read"} /\ "read" \in Faults
  BY <1>5, FaultEffect DEF SkipPod, ReadFails, bounds
<1> QED
  BY <1>1, <1>2, <1>3, <1>4, <1>6 DEF PodDone

\* Reconcile writes what it built.
LEMMA BuildEndsEffect ==
  ASSUME TypeInv, BuildEnds
  PROVE  /\ rec.pc = "build" /\ UNCHANGED <<cfc, pod, nfc, queue, hashMap, writers, edits, budget, failed>>
         /\ RecIs(rec', "write", rec.req, rec.sel, rec.pods, rec.list, rec.work, rec.stale, rec.todo)
<1>1. PICK r \in RecRecord : r = rec
  BY DEF TypeInv, RecordsOK
<1>2. rec' = [r EXCEPT !.pc = "write"] /\ rec.pc = "build"
      /\ UNCHANGED <<cfc, pod, nfc, queue, hashMap, writers, edits, budget, failed>>
  BY <1>1 DEF BuildEnds, goto, api, bounds
<1>3. RecIs(rec', "write", r.req, r.sel, r.pods, r.list, r.work, r.stale, r.todo)
  BY <1>2 DEF RecIs, RecRecord, PCs
<1> QED
  BY <1>1, <1>2, <1>3

\* A node is written, or not; its copy is done with.
LEMMA WriteEffect ==
  ASSUME TypeInv, NEW n \in Nodes, Write(n) \/ WriteConflict(n) \/ WriteFails(n)
  PROVE  /\ rec.pc = "write" /\ rec.work[n] # None /\ rec.work[n] \in SUBSET MadeRule
         /\ RecIs(rec', "write", rec.req, rec.sel, rec.pods, rec.list, [rec.work EXCEPT ![n] = None],
                  rec.stale, rec.todo)
         /\ UNCHANGED <<cfc, pod, queue, hashMap, edits>>
         /\ \/ /\ nfc' = [nfc EXCEPT ![n] = rec.work[n]]
               /\ writers' \in [Nodes -> SUBSET Selector] /\ UNCHANGED <<budget, failed>>
               /\ writers' = [writers EXCEPT ![n] = writers[n] \cup {rec.sel}]
            \/ UNCHANGED <<nfc, writers, budget>> /\ failed' = failed \cup {"stale"}
            \/ /\ UNCHANGED <<nfc, writers>> /\ budget' \in Nat
               /\ failed' = failed \cup {"refused"} /\ "refused" \in Faults
<1>1. PICK r \in RecRecord : r = rec
  BY DEF TypeInv, RecordsOK
<1>2. PICK w \in Works : w = [r.work EXCEPT ![n] = None]
  BY DEF RecRecord, Works
<1>3. /\ r.pc = "write" /\ r.work[n] # None /\ rec' = [r EXCEPT !.work = w]
      /\ UNCHANGED <<cfc, pod, queue, hashMap>>
  BY <1>1, <1>2 DEF Write, WriteConflict, WriteFails, api
<1>4. RecIs(rec', "write", r.req, r.sel, r.pods, r.list, w, r.stale, r.todo)
  BY <1>3 DEF RecIs, RecRecord
<1>5. r.work[n] \in SUBSET MadeRule
  BY <1>3 DEF RecRecord, Works
<1>6. /\ budget \in Nat /\ writers \in [Nodes -> SUBSET Selector] /\ r.sel \in Selector
  BY <1>1, <1>3 DEF TypeInv, RecordsOK, StepsOK
<1>7. CASE Write(n)
  <2>1. nfc' = [nfc EXCEPT ![n] = r.work[n]] /\ UNCHANGED <<edits, budget, failed>>
        /\ writers' = [writers EXCEPT ![n] = writers[n] \cup {r.sel}]
    BY <1>1, <1>7 DEF Write, Put, bounds
  <2>2. writers' \in [Nodes -> SUBSET Selector]
    BY <1>6, <2>1
  <2> QED
    BY <1>1, <1>2, <1>3, <1>4, <1>5, <2>1, <2>2
<1>8. CASE WriteConflict(n)
  BY <1>1, <1>2, <1>3, <1>4, <1>5, <1>8 DEF WriteConflict, api
<1>9. CASE WriteFails(n)
  <2>1. Fault("refused") /\ UNCHANGED <<nfc, writers>>
    BY <1>9 DEF WriteFails, api
  <2> QED
    BY <1>1, <1>2, <1>3, <1>4, <1>5, <1>6, <2>1, FaultEffect
<1> QED
  BY <1>7, <1>8, <1>9

\* A node is cleaned of the recorded rules, or not.
LEMMA CleanEffect ==
  ASSUME TypeInv, NEW n \in Nodes, Clean(n) \/ CleanUnseen(n) \/ CleanFails(n)
  PROVE  /\ rec.pc = "clean" /\ n \in rec.todo
         /\ RecIs(rec', "clean", rec.req, rec.sel, rec.pods, rec.list, rec.work, rec.stale, rec.todo \ {n})
         /\ UNCHANGED <<cfc, pod, queue, hashMap, writers, edits>>
         /\ \/ /\ nfc' = [nfc EXCEPT ![n] = IF nfc[n] = None THEN None ELSE nfc[n] \ hashMap[rec.req][n]]
               /\ UNCHANGED <<budget, failed>>
            \/ \E k \in {"stale"} \cup ({"refused", "read"} \cap Faults) :
                 UNCHANGED nfc /\ budget' \in Nat /\ failed' = failed \cup {k}
<1>1. PICK r \in RecRecord : r = rec
  BY DEF TypeInv, RecordsOK
<1>2. PICK t \in SUBSET Nodes : t = r.todo \ {n}
  BY DEF RecRecord
<1>3. /\ r.pc = "clean" /\ n \in r.todo /\ rec' = [r EXCEPT !.todo = t]
      /\ UNCHANGED <<cfc, pod, queue, hashMap, writers>>
  BY <1>1, <1>2 DEF Clean, CleanUnseen, CleanFails, api
<1>4. RecIs(rec', "clean", r.req, r.sel, r.pods, r.list, r.work, r.stale, t)
  BY <1>3 DEF RecIs, RecRecord
<1>5. CASE Clean(n)
  <2>1. /\ nfc' = [nfc EXCEPT ![n] = IF nfc[n] = None THEN None ELSE nfc[n] \ hashMap[r.req][n]]
        /\ UNCHANGED <<edits, budget, failed>>
    BY <1>1, <1>5 DEF Clean, Put, bounds
  <2> QED
    BY <1>1, <1>2, <1>3, <1>4, <2>1
<1>6. CASE CleanFails(n)
  <2>1. PICK k \in {"refused", "read"} : Fault(k) /\ UNCHANGED nfc
    BY <1>6 DEF CleanFails, api
  <2>2. budget \in Nat
    BY DEF TypeInv, RecordsOK
  <2> QED
    BY <1>1, <1>2, <1>3, <1>4, <2>1, <2>2, FaultEffect
<1>7. CASE CleanUnseen(n)
  <2>1. UNCHANGED <<nfc, edits, budget>> /\ failed' = failed \cup {"stale"} /\ budget \in Nat
    BY <1>7 DEF CleanUnseen, api, TypeInv, RecordsOK
  <2> QED
    BY <1>1, <1>2, <1>3, <1>4, <2>1
<1> QED
  BY <1>5, <1>6, <1>7

\* Reconcile returns an error; its request comes back.
LEMMA RetryEffect ==
  ASSUME TypeInv, ListFails \/ \E n \in Nodes : CleanConflict(n)
  PROVE  /\ rec.pc \in {"pods", "list", "clean"} /\ rec' = Idle /\ queue' = queue \cup {rec.req}
         /\ UNCHANGED <<cfc, pod, nfc, hashMap, writers, edits>>
         /\ budget' \in Nat /\ failed \subseteq failed' /\ failed' \subseteq failed \cup Faults
<1>1. /\ rec.pc \in {"pods", "list", "clean"} /\ rec' = Idle /\ queue' = queue \cup {rec.req}
      /\ UNCHANGED <<cfc, pod, nfc, hashMap, writers>>
  BY DEF ListFails, CleanConflict, RetryLater, return, api
<1>2. UNCHANGED bounds \/ \E k : Fault(k)
  BY DEF ListFails, CleanConflict, Conflicts
<1>3. budget \in Nat
  BY DEF TypeInv, RecordsOK
<1>4. CASE UNCHANGED bounds
  BY <1>1, <1>3, <1>4 DEF bounds
<1>5. CASE \E k : Fault(k)
  BY <1>1, <1>3, <1>5, FaultEffect
<1> QED
  BY <1>2, <1>4, <1>5

\* Reconcile ends, with everything written or cleaned.
LEMMA EndEffect ==
  ASSUME TypeInv, WriteEnds \/ CleanEnds
  PROVE  /\ rec' = Idle /\ UNCHANGED <<cfc, pod, nfc, queue, writers, edits, budget, failed>>
         /\ \/ rec.pc = "write" /\ rec.work = NoEntry /\ UNCHANGED hashMap
            \/ rec.pc = "clean" /\ rec.todo = {} /\ hashMap' = [hashMap EXCEPT ![rec.req] = NoHashes]
BY DEF WriteEnds, CleanEnds, return, api, bounds

\* The operator starts with nothing in its memory and every object in its queue.
LEMMA RestartEffect ==
  ASSUME TypeInv, Restart
  PROVE  /\ rec' = Idle /\ hashMap' = [c \in Configs |-> NoHashes] /\ queue' = There(cfc)
         /\ UNCHANGED <<cfc, pod, nfc, writers, edits>>
         /\ budget' \in Nat /\ failed' = failed \cup {"restart"} /\ "restart" \in Faults
<1>1. budget \in Nat
  BY DEF TypeInv, RecordsOK
<1>2. /\ rec' = Idle /\ hashMap' = [c \in Configs |-> NoHashes] /\ queue' = There(cfc)
      /\ UNCHANGED <<cfc, pod, nfc, writers>> /\ Fault("restart")
  BY DEF Restart, api
<1> QED
  BY <1>1, <1>2, FaultEffect

\* A user's rule comes to a node; Reconcile's copy of it may be old from now on.
LEMMA NodeRuleEffect ==
  ASSUME TypeInv, NEW n \in Nodes, NEW u \in UserRules, WriteNodeRule(n, u)
  PROVE  /\ nfc[n] # None /\ nfc' = [nfc EXCEPT ![n] = nfc[n] \cup {u}]
         /\ \E st : RecIs(rec', rec.pc, rec.req, rec.sel, rec.pods, rec.list, rec.work, st, rec.todo)
         /\ UNCHANGED <<cfc, pod, queue, hashMap, writers, budget, failed>>
         /\ edits' \in Nat
<1>1. PICK r \in RecRecord : r = rec
  BY DEF TypeInv, RecordsOK
<1>2. PICK st \in SUBSET Nodes : st = IF r.work[n] = None THEN r.stale ELSE r.stale \cup {n}
  BY DEF RecRecord
<1>3. rec' = [r EXCEPT !.stale = st]
  BY <1>1, <1>2 DEF WriteNodeRule
<1>4. RecIs(rec', r.pc, r.req, r.sel, r.pods, r.list, r.work, st, r.todo)
  BY <1>3 DEF RecIs, RecRecord
<1>5. /\ nfc[n] # None /\ nfc' = [nfc EXCEPT ![n] = nfc[n] \cup {u}]
      /\ UNCHANGED <<cfc, pod, queue, hashMap, writers, budget, failed>>
  BY DEF WriteNodeRule, Put
<1>6. edits \in Nat /\ edits > 0 /\ edits' = edits - 1
  BY DEF WriteNodeRule, TypeInv, RecordsOK
<1>7. edits' \in Nat
  BY <1>6
<1> QED
  BY <1>1, <1>4, <1>5, <1>7

\* Only the cache changes, or nothing.
QuietStep == UNCHANGED <<cfc, pod, nfc, queue, hashMap, rec, writers, edits, budget, failed>>

\* The cache catches up.
LEMMA Quiet ==
  ASSUME UNCHANGED clusterVars \/ \E n \in Nodes : CacheUpdate(n)
  PROVE  QuietStep
BY DEF CacheUpdate, QuietStep, clusterVars, api, bounds

\* The changes that the controller is told of.
EventStep ==
  \/ \E c \in Configs : \E s \in Specs[c] \cup {None} : WriteConfig(c, s)
  \/ \E p \in Pods, s \in PodStates \cup {None} : WritePod(p, s)
  \/ Resync

\* Objects and pods change, and the informers tell: the queue only grows, and an
\* object that is changed is in it.
LEMMA EventEffect ==
  ASSUME TypeInv, EventStep
  PROVE  /\ cfc' \in [Configs -> Spec \cup {None}] /\ pod' \in [Pods -> Pod \cup {None}]
         /\ queue \subseteq queue' /\ queue' \subseteq Configs
         /\ \A c \in Configs : cfc'[c] = cfc[c] \/ c \in queue'
         /\ UNCHANGED <<nfc, hashMap, rec, writers, budget>>
         /\ failed \subseteq failed' /\ failed' \subseteq failed \cup {"unheard"}
         /\ edits' \in Nat
<1>1. /\ cfc \in [Configs -> Spec \cup {None}] /\ pod \in [Pods -> Pod \cup {None}]
      /\ queue \subseteq Configs /\ edits \in Nat
  BY DEF TypeInv, RecordsOK
<1>2. There(cfc) \subseteq Configs /\ \A p : mapPodsToRequests(p) \subseteq Configs
  BY <1>1 DEF There, mapPodsToRequests
<1>3. ASSUME Edit PROVE edits' \in Nat /\ UNCHANGED <<nfc, hashMap, rec, writers, budget>>
  BY <1>1, <1>3 DEF Edit
<1>4. CASE \E c \in Configs : \E s \in Specs[c] \cup {None} : WriteConfig(c, s)
  <2>1. PICK c \in Configs, s \in Spec \cup {None} : WriteConfig(c, s)
    BY <1>4, SpecsAssumption
  <2>2. /\ cfc' = [cfc EXCEPT ![c] = s] /\ queue' = queue \cup {c} /\ Edit
        /\ UNCHANGED <<pod, failed>>
    BY <2>1 DEF WriteConfig
  <2> QED
    BY <1>1, <1>3, <2>2
<1>5. CASE \E p \in Pods, s \in PodStates \cup {None} : WritePod(p, s)
  <2>1. PICK p \in Pods, s \in Pod \cup {None} : WritePod(p, s)
    BY <1>5, SpecsAssumption
  <2>2. pod' = [pod EXCEPT ![p] = s] /\ Edit /\ UNCHANGED cfc
        /\ failed \subseteq failed' /\ failed' \subseteq failed \cup {"unheard"}
    BY <2>1 DEF WritePod
  <2>3. queue' \in {queue, queue \cup mapPodsToRequests(pod[p]),
                    queue \cup mapPodsToRequests(pod[p]) \cup mapPodsToRequests(s)}
    <3>1. queue' = CASE pod[p] = None -> queue
                [] pod[p] # None /\ s = None -> queue \cup mapPodsToRequests(pod[p])
                [] OTHER -> IF PodUpdateCounts(pod[p], s)
                              THEN queue \cup mapPodsToRequests(pod[p]) \cup mapPodsToRequests(s)
                              ELSE queue
      BY <2>1 DEF WritePod
    <3>2. PICK b \in BOOLEAN : b = PodUpdateCounts(pod[p], s)
      BY DEF PodUpdateCounts
    <3> QED
      BY <3>1, <3>2
  <2>4. queue \subseteq queue' /\ queue' \subseteq Configs
    BY <1>1, <1>2, <2>3
  <2> QED
    BY <1>1, <1>3, <2>2, <2>4
<1>6. CASE Resync
  BY <1>1, <1>2, <1>6 DEF Resync, api, bounds
<1> QED
  BY <1>4, <1>5, <1>6 DEF EventStep

-----------------------------------------------------------------------------
(* The invariants *)

\* What no user wrote is recorded, on the nodes and in what is about to be
\* written; and a node that is already cleaned has no rule of the request left.
RecordedInv ==
  failed \subseteq MemoryKept =>
    /\ \A n \in Nodes : nfc[n] # None /\ rec.work[n] = None =>
                         nfc[n] \ UserRules \subseteq Recorded(Configs, n)
    /\ \A n \in Nodes : rec.work[n] # None => rec.work[n] \subseteq Recorded(Configs, n)
    /\ rec.pc = "clean" =>
         \A n \in Nodes \ rec.todo : nfc[n] # None => nfc[n] \cap hashMap[rec.req][n] = {}

\* An object that is gone and has hashes left waits for its cleanup, or has it;
\* and an object that goes after Reconcile listed it waits for its turn.
GoneInv ==
  /\ \A c \in Configs : cfc[c] = None /\ NodesOf(c) # {} =>
                         c \in queue \/ (rec.pc = "clean" /\ rec.req = c)
  /\ rec.pc \in {"build", "write"} => \A c \in DOMAIN rec.list : cfc[c] # None \/ c \in queue

-----------------------------------------------------------------------------
(* Types *)

\* The invariant that gives every variable its type holds at the start.
LEMMA TypeInit == ASSUME ClusterInit PROVE TypeInv
<1>1. rec \in RecRecord /\ rec.pc = "idle" /\ rec.work = NoEntry /\ rec.todo = {}
  BY IdleIs DEF ClusterInit, RecIs
<1>2. cfc \in [Configs -> Spec \cup {None}]
  BY InitAssumption DEF ClusterInit
<1>3. pod \in [Pods -> Pod \cup {None}]
  BY InitAssumption, SpecsAssumption DEF ClusterInit
<1>4. nfc \in NodeFlowConfigs
  BY DEF ClusterInit, NoEntry, NodeFlowConfigs
<1>5. queue \subseteq Configs
  BY <1>2 DEF ClusterInit, There
<1>6. hashMap \in [Configs -> [Nodes -> SUBSET MadeRule]]
  BY DEF ClusterInit, NoHashes
<1>7. /\ writers \in [Nodes -> SUBSET Selector]
      /\ edits \in Nat /\ budget \in Nat /\ failed \subseteq Faults \cup Consequences
  BY BoundsAssumption DEF ClusterInit
<1> QED
  BY <1>1, <1>2, <1>3, <1>4, <1>5, <1>6, <1>7 DEF TypeInv, RecordsOK, StepsOK

\* Every step keeps the types.
LEMMA TypeStep == ASSUME TypeInv, [ClusterNext]_clusterVars PROVE TypeInv'
<1>1. ASSUME NEW c \in Configs, ReconcileGet(c) PROVE TypeInv'
  BY <1>1, GetEffect DEF TypeInv, RecordsOK, StepsOK, RecIs, NodesOf, NoEntry
<1>2. CASE ListPods
  BY <1>2, ListPodsEffect DEF TypeInv, RecordsOK, StepsOK, RecIs, NodesOf, NoEntry
<1>3. CASE ListConfigs
  BY <1>3, ListConfigsEffect DEF TypeInv, RecordsOK, StepsOK, RecIs, NodesOf, NoEntry
<1>4. ASSUME NEW p \in Pods, UpdateSpec(p) PROVE TypeInv'
  BY <1>4, UpdateSpecEffect DEF TypeInv, RecordsOK, StepsOK, RecIs, PodDone, BuildRest
<1>5. ASSUME NEW p \in Pods, UpdateSpecFails(p) PROVE TypeInv'
  BY <1>5, UpdateSpecFailsEffect DEF TypeInv, RecordsOK, StepsOK, RecIs, PodDone, BuildRest, Consequences
<1>6. ASSUME NEW p \in Pods, SkipPod(p) \/ ReadFails(p) PROVE TypeInv'
  BY <1>6, SkipEffect DEF TypeInv, RecordsOK, StepsOK, RecIs, PodDone
<1>7. CASE BuildEnds
  BY <1>7, BuildEndsEffect DEF TypeInv, RecordsOK, StepsOK, RecIs
<1>8. ASSUME NEW n \in Nodes, Write(n) \/ WriteConflict(n) \/ WriteFails(n) PROVE TypeInv'
  <2>1. nfc' \in NodeFlowConfigs
    BY <1>8, WriteEffect DEF TypeInv, RecordsOK, NodeFlowConfigs, NodeRule, MadeRule
  <2>2. StepsOK'
    BY <1>8, WriteEffect DEF TypeInv, StepsOK, RecIs
  <2>3. /\ writers' \in [Nodes -> SUBSET Selector] /\ budget' \in Nat
        /\ failed' \subseteq Faults \cup Consequences
    BY <1>8, WriteEffect DEF TypeInv, RecordsOK, Consequences
  <2> QED
    BY <1>8, <2>1, <2>2, <2>3, WriteEffect DEF TypeInv, RecordsOK, RecIs
<1>9. ASSUME NEW n \in Nodes, Clean(n) \/ CleanUnseen(n) \/ CleanFails(n) PROVE TypeInv'
  <2>1. nfc' \in NodeFlowConfigs
    <3>1. nfc \in NodeFlowConfigs
      BY DEF TypeInv, RecordsOK
    <3>2. PICK x \in (SUBSET NodeRule) \cup {None} : x = IF nfc[n] = None THEN None ELSE nfc[n] \ hashMap[rec.req][n]
      BY <3>1 DEF NodeFlowConfigs
    <3>3. nfc' = [nfc EXCEPT ![n] = x] \/ nfc' = nfc
      BY <1>9, <3>2, CleanEffect
    <3> QED
      BY <3>1, <3>3 DEF NodeFlowConfigs
  <2>2. StepsOK'
    BY <1>9, CleanEffect DEF TypeInv, StepsOK, RecIs, NodesOf, NoEntry
  <2> QED
    BY <1>9, <2>1, <2>2, CleanEffect DEF TypeInv, RecordsOK, RecIs, Consequences
<1>10. CASE ListFails \/ \E n \in Nodes : CleanConflict(n)
  BY <1>10, RetryEffect, IdleIs DEF TypeInv, RecordsOK, StepsOK, RecIs, NoEntry
<1>11. CASE WriteEnds \/ CleanEnds
  <2>1. hashMap' \in [Configs -> [Nodes -> SUBSET MadeRule]]
    BY <1>11, EndEffect DEF TypeInv, RecordsOK, NoHashes
  <2> QED
    BY <1>11, <2>1, EndEffect, IdleIs DEF TypeInv, RecordsOK, StepsOK, RecIs, NoEntry
<1>12. CASE Restart
  <2>1. hashMap' \in [Configs -> [Nodes -> SUBSET MadeRule]] /\ queue' \subseteq Configs
    BY <1>12, RestartEffect DEF TypeInv, RecordsOK, NoHashes, There
  <2> QED
    BY <1>12, <2>1, RestartEffect, IdleIs DEF TypeInv, RecordsOK, StepsOK, RecIs, NoEntry
<1>13. ASSUME NEW n \in Nodes, NEW u \in UserRules, WriteNodeRule(n, u) PROVE TypeInv'
  <2>1. nfc' \in NodeFlowConfigs
    BY <1>13, NodeRuleEffect DEF TypeInv, RecordsOK, NodeFlowConfigs, NodeRule
  <2>2. StepsOK'
    BY <1>13, NodeRuleEffect DEF TypeInv, StepsOK, RecIs, NodesOf, NoEntry
  <2> QED
    BY <1>13, <2>1, <2>2, NodeRuleEffect DEF TypeInv, RecordsOK, RecIs
<1>14. CASE EventStep
  BY <1>14, EventEffect DEF TypeInv, RecordsOK, StepsOK, NodesOf, NoEntry, Consequences
<1>15. CASE QuietStep
  BY <1>15 DEF TypeInv, RecordsOK, StepsOK, NodesOf, NoEntry, QuietStep
<1> QED
  BY <1>1, <1>2, <1>3, <1>4, <1>5, <1>6, <1>7, <1>8, <1>9, <1>10, <1>11, <1>12, <1>13, <1>14, <1>15, Quiet
  DEF ClusterNext, ReconcileStep, FailureStep, EditStep, InformerStep, EventStep

CacheOK == cache \in [Nodes -> {"current", "old", "absent"}]

\* The cache of a node is current, old or absent, and only writes, the informer and
\* a restart touch it.
LEMMA CacheStep == ASSUME CacheOK, [ClusterNext]_clusterVars PROVE CacheOK'
<1>1. ASSUME NEW n \in Nodes, NEW rs, Put(n, rs) PROVE CacheOK'
  BY <1>1 DEF Put, CacheOK
<1>2. ASSUME NEW c \in Configs, ReconcileGet(c) PROVE cache' = cache
  BY <1>2 DEF ReconcileGet, api
<1>3. CASE ListPods \/ ListConfigs \/ BuildEnds \/ WriteEnds \/ CleanEnds \/ ListFails \/ Resync
  BY <1>3 DEF ListPods, ListConfigs, BuildEnds, WriteEnds, CleanEnds, ListFails, Resync, api, CacheOK
<1>4. ASSUME NEW p \in Pods, UpdateSpec(p) \/ UpdateSpecFails(p) \/ SkipPod(p) \/ ReadFails(p)
      PROVE  cache' = cache
  BY <1>4 DEF UpdateSpec, UpdateSpecFails, SkipPod, ReadFails, api
<1>5. ASSUME NEW n \in Nodes, WriteConflict(n) \/ WriteFails(n) \/ CleanUnseen(n) \/ CleanFails(n) \/ CleanConflict(n)
      PROVE  cache' = cache
  BY <1>5 DEF WriteConflict, WriteFails, CleanUnseen, CleanFails, CleanConflict, api
<1>6. ASSUME NEW n \in Nodes, Write(n) \/ Clean(n) \/ \E u \in UserRules : WriteNodeRule(n, u)
      PROVE  CacheOK'
  BY <1>1, <1>6 DEF Write, Clean, WriteNodeRule
<1>7. ASSUME NEW n \in Nodes, CacheUpdate(n) PROVE CacheOK'
  BY <1>7 DEF CacheUpdate, CacheOK
<1>8. CASE Restart
  BY <1>8 DEF Restart, UpToDate, CacheOK
<1>9. CASE \/ \E c \in Configs : \E s \in Specs[c] \cup {None} : WriteConfig(c, s)
           \/ \E p \in Pods, s \in PodStates \cup {None} : WritePod(p, s)
  BY <1>9 DEF WriteConfig, WritePod, Edit, CacheOK
<1>10. CASE UNCHANGED clusterVars
  BY <1>10 DEF clusterVars, api, CacheOK
<1>11. ASSUME cache' = cache PROVE CacheOK'
  BY <1>11 DEF CacheOK
<1> QED
  BY <1>2, <1>3, <1>4, <1>5, <1>6, <1>7, <1>8, <1>9, <1>10, <1>11
  DEF ClusterNext, ReconcileStep, FailureStep, EditStep, InformerStep

\* The types of the model, from those of the proof.
LEMMA TypeImplies == ASSUME TypeInv, CacheOK PROVE ClusterTypeOK
<1>1. MadeRule \subseteq NodeRule
  BY DEF MadeRule, NodeRule
<1>2. hashMap \in [Configs -> [Nodes -> SUBSET NodeRule]]
  BY <1>1 DEF TypeInv, RecordsOK
<1>3. rec.work \in NodeFlowConfigs
  BY <1>1 DEF TypeInv, RecordsOK, RecRecord, Works, NodeFlowConfigs
<1>4. /\ DOMAIN rec.pods \subseteq Pods /\ \A p \in DOMAIN rec.pods : rec.pods[p] \in Pod
      /\ DOMAIN rec.list \subseteq Configs /\ \A c \in DOMAIN rec.list : rec.list[c] \in SUBSET Rule
  <2>1. rec.pods \in PodLists /\ rec.list \in ConfigLists
    BY DEF TypeInv, RecordsOK, RecRecord
  <2> QED
    BY <2>1, DropIs, ListIs
<1>5. /\ rec.pc \in PCs /\ rec.req \in Configs \cup {None} /\ rec.sel \in Selector \cup {None}
      /\ rec.todo \subseteq Nodes /\ rec.stale \subseteq Nodes
  BY DEF TypeInv, RecordsOK, RecRecord
<1>6. rec.todo # {} => rec.todo \subseteq NodesOf(rec.req)
  BY DEF TypeInv, StepsOK
<1> QED
  BY <1>2, <1>3, <1>4, <1>5, <1>6 DEF ClusterTypeOK, TypeInv, RecordsOK, PCs, CacheOK

-----------------------------------------------------------------------------
(* Objects that are gone *)

\* Nothing is recorded at the start.
LEMMA GoneInit == ASSUME ClusterInit PROVE GoneInv
<1>1. \A c \in Configs : NodesOf(c) = {}
  BY DEF ClusterInit, NodesOf, NoHashes
<1>2. rec.pc = "idle"
  BY IdleIs DEF ClusterInit, RecIs
<1> QED
  BY <1>1, <1>2 DEF GoneInv

\* A step that leaves objects, hashes and queue alone, and Reconcile with the
\* request and list it had.
LEMMA GoneKept ==
  ASSUME GoneInv, UNCHANGED <<cfc, hashMap, queue>>,
         rec'.pc = "clean" \/ rec.pc # "clean", rec'.req = rec.req, rec'.list = rec.list,
         rec'.pc \in {"build", "write"} => rec.pc \in {"build", "write"}
  PROVE  GoneInv'
<1>1. \A c \in Configs : NodesOf(c)' = NodesOf(c)
  BY DEF NodesOf
<1> QED
  BY <1>1 DEF GoneInv

\* Every step keeps the objects that are gone in the queue until they are clean.
LEMMA GoneStep == ASSUME TypeInv, GoneInv, [ClusterNext]_clusterVars PROVE GoneInv'
<1>1. ASSUME NEW c \in Configs, ReconcileGet(c) PROVE GoneInv'
  <2>1. \A d \in Configs : NodesOf(d)' = NodesOf(d)
    BY <1>1, GetEffect DEF NodesOf
  <2> QED
    BY <1>1, <2>1, GetEffect DEF GoneInv, RecIs
<1>2. CASE ListPods
  BY <1>2, GoneKept, ListPodsEffect DEF RecIs, GoneInv, NodesOf
<1>3. CASE ListConfigs
  <2>1. \A d \in Configs : NodesOf(d)' = NodesOf(d)
    BY <1>3, ListConfigsEffect DEF NodesOf
  <2>2. UNCHANGED <<cfc, queue>> /\ rec.pc = "list" /\ rec'.pc = "build"
        /\ \A c \in DOMAIN rec'.list : cfc[c] # None
    BY <1>3, ListConfigsEffect DEF RecIs
  <2> QED
    BY <2>1, <2>2 DEF GoneInv
<1>4. ASSUME NEW p \in Pods, UpdateSpec(p) \/ UpdateSpecFails(p) PROVE GoneInv'
  <2>1. /\ rec.pc = "build" /\ rec'.pc = "build" /\ rec'.list = rec.list
        /\ UNCHANGED <<cfc, queue>> /\ \A c \in Configs \ DOMAIN rec.list : hashMap'[c] = hashMap[c]
    BY <1>4, UpdateSpecEffect, UpdateSpecFailsEffect DEF PodDone, BuildRest, RecIs
  <2>2. \A c \in Configs \ DOMAIN rec.list : NodesOf(c)' = NodesOf(c)
    BY <2>1 DEF NodesOf
  <2> QED
    BY <2>1, <2>2 DEF GoneInv
<1>5. ASSUME NEW p \in Pods, SkipPod(p) \/ ReadFails(p) PROVE GoneInv'
  BY <1>5, GoneKept, SkipEffect DEF RecIs, PodDone
<1>6. CASE BuildEnds
  BY <1>6, GoneKept, BuildEndsEffect DEF RecIs
<1>7. ASSUME NEW n \in Nodes, Write(n) \/ WriteConflict(n) \/ WriteFails(n) PROVE GoneInv'
  BY <1>7, GoneKept, WriteEffect DEF RecIs
<1>8. ASSUME NEW n \in Nodes, Clean(n) \/ CleanUnseen(n) \/ CleanFails(n) PROVE GoneInv'
  BY <1>8, GoneKept, CleanEffect DEF RecIs
<1>9. CASE ListFails \/ \E n \in Nodes : CleanConflict(n)
  <2>1. \A d \in Configs : NodesOf(d)' = NodesOf(d)
    BY <1>9, RetryEffect DEF NodesOf
  <2> QED
    BY <1>9, <2>1, RetryEffect, IdleIs DEF GoneInv, RecIs
<1>10. CASE WriteEnds \/ CleanEnds
  <2>1. rec'.pc = "idle" /\ UNCHANGED <<cfc, queue>>
    BY <1>10, EndEffect, IdleIs DEF RecIs
  <2>2. CASE rec.pc = "write" /\ UNCHANGED hashMap
    <3>1. \A d \in Configs : NodesOf(d)' = NodesOf(d)
      BY <2>2 DEF NodesOf
    <3> QED
      BY <2>1, <2>2, <3>1 DEF GoneInv
  <2>3. CASE rec.pc = "clean" /\ hashMap' = [hashMap EXCEPT ![rec.req] = NoHashes]
    <3>1. rec.req \in Configs /\ hashMap \in [Configs -> [Nodes -> SUBSET MadeRule]]
      BY <2>3 DEF TypeInv, RecordsOK, StepsOK
    <3>2. /\ \A d \in {rec.req} : NodesOf(d)' = {}
          /\ \A d \in Configs \ {rec.req} : NodesOf(d)' = NodesOf(d)
      BY <2>3, <3>1 DEF NodesOf, NoHashes
    <3> QED
      BY <2>1, <2>3, <3>2 DEF GoneInv
  <2> QED
    BY <1>10, <2>2, <2>3, EndEffect
<1>11. CASE Restart
  <2>1. \A d \in Configs : NodesOf(d)' = {}
    BY <1>11, RestartEffect DEF NodesOf, NoHashes
  <2> QED
    BY <1>11, <2>1, RestartEffect, IdleIs DEF GoneInv, RecIs
<1>12. ASSUME NEW n \in Nodes, NEW u \in UserRules, WriteNodeRule(n, u) PROVE GoneInv'
  BY <1>12, GoneKept, NodeRuleEffect DEF RecIs
<1>13. CASE EventStep
  <2>1. \A d \in Configs : NodesOf(d)' = NodesOf(d)
    BY <1>13, EventEffect DEF NodesOf
  <2>2. DOMAIN rec.list \subseteq Configs
    BY ListIs DEF TypeInv, RecordsOK, RecRecord
  <2> QED
    BY <1>13, <2>1, <2>2, EventEffect DEF GoneInv
<1>14. CASE QuietStep
  BY <1>14, GoneKept DEF QuietStep
<1> QED
  BY <1>1, <1>2, <1>3, <1>4, <1>5, <1>6, <1>7, <1>8, <1>9, <1>10, <1>11, <1>12, <1>13, <1>14, Quiet
  DEF ClusterNext, ReconcileStep, FailureStep, EditStep, InformerStep, EventStep

-----------------------------------------------------------------------------
(* Rules that are recorded *)

\* The rules of users are none that the controller makes; no set of rules is None.
LEMMA RulesApart ==
  ASSUME TypeInv
  PROVE  /\ \A c \in Configs, n \in Nodes : hashMap[c][n] \cap UserRules = {}
         /\ \A rs \in SUBSET MadeRule : rs # None
<1>1. \A c \in Configs, n \in Nodes : hashMap[c][n] \subseteq MadeRule
  BY DEF TypeInv, RecordsOK
<1>2. UserRules \cap MadeRule = {}
  BY UserAssumption DEF MadeRule
<1>3. \A rs \in SUBSET MadeRule : rs \in SUBSET NodeRule
  BY DEF MadeRule, NodeRule
<1> QED
  BY <1>1, <1>2, <1>3, RulesAssumption

\* There is nothing on the nodes at the start.
LEMMA RecordedInit == ASSUME ClusterInit PROVE RecordedInv
<1>1. rec.pc = "idle" /\ rec.work = NoEntry /\ nfc = NoEntry
  BY IdleIs DEF ClusterInit, RecIs
<1> QED
  BY <1>1 DEF RecordedInv, NoEntry

\* A step that leaves the nodes, what is recorded and what is to be written alone,
\* and forgets no failure.
LEMMA RecordedKept ==
  ASSUME RecordedInv, UNCHANGED <<nfc, hashMap>>, failed \subseteq failed', rec'.work = rec.work,
         rec'.pc # "clean" \/ (rec.pc = "clean" /\ rec'.req = rec.req /\ rec'.todo = rec.todo)
  PROVE  RecordedInv'
<1>1. \A n \in Nodes : Recorded(Configs, n)' = Recorded(Configs, n)
  BY DEF Recorded
<1> QED
  BY <1>1 DEF RecordedInv

\* Every step records what it makes, and forgets only what it has cleaned.
LEMMA RecordedStep == ASSUME TypeInv, TypeInv', RecordedInv, [ClusterNext]_clusterVars PROVE RecordedInv'
<1>1. ASSUME NEW c \in Configs, ReconcileGet(c) PROVE RecordedInv'
  <2>1. rec'.work = rec.work /\ UNCHANGED <<nfc, hashMap, failed>>
    BY <1>1, GetEffect DEF TypeInv, StepsOK, RecIs
  <2>2. CASE rec'.pc # "clean"
    BY <2>1, <2>2, RecordedKept
  <2>3. CASE rec'.pc = "clean"
    <3>1. rec'.req = c /\ rec'.todo = NodesOf(c)
      BY <1>1, <2>3, GetEffect DEF RecIs
    <3>2. \A n \in Nodes \ rec'.todo : hashMap[c][n] = {}
      BY <3>1 DEF NodesOf
    <3>3. \A n \in Nodes : Recorded(Configs, n)' = Recorded(Configs, n)
      BY <2>1 DEF Recorded
    <3> QED
      BY <2>1, <3>1, <3>2, <3>3 DEF RecordedInv
  <2> QED
    BY <2>2, <2>3
<1>2. CASE ListPods
  <2>1. rec'.work = rec.work /\ UNCHANGED <<nfc, hashMap, failed>> /\ rec'.req = rec.req
    BY <1>2, ListPodsEffect DEF RecIs
  <2>2. CASE rec'.pc # "clean"
    BY <2>1, <2>2, RecordedKept
  <2>3. CASE rec'.pc = "clean"
    <3>1. rec'.todo = NodesOf(rec.req)
      BY <1>2, <2>3, ListPodsEffect DEF RecIs
    <3>2. \A n \in Nodes \ rec'.todo : hashMap[rec.req][n] = {}
      BY <3>1 DEF NodesOf
    <3>3. \A n \in Nodes : Recorded(Configs, n)' = Recorded(Configs, n)
      BY <2>1 DEF Recorded
    <3> QED
      BY <2>1, <3>2, <3>3 DEF RecordedInv
  <2> QED
    BY <2>2, <2>3
<1>3. CASE ListConfigs
  BY <1>3, ListConfigsEffect, RecordedKept DEF RecIs
<1>4. ASSUME NEW p \in Pods, UpdateSpec(p) PROVE RecordedInv'
  <2>1. PICK n \in Nodes, ws \in SUBSET MadeRule :
              /\ PodDone(p, [rec.work EXCEPT ![n] = ws])
              /\ hashMap' \in [Configs -> [Nodes -> SUBSET MadeRule]]
              /\ \A c \in Configs, m \in Nodes \ {n} : hashMap'[c][m] = hashMap[c][m]
              /\ \A c \in Configs \ DOMAIN rec.list : hashMap'[c] = hashMap[c]
              /\ ws \subseteq UNION {hashMap'[c][n] : c \in Configs}
              /\ n = rec.pods[p].node
              /\ \A c \in DOMAIN rec.list : /\ hashMap'[c][n] = NodeRules(rec.list[c], rec.pods[p])
                                            /\ hashMap'[c][n] \subseteq ws
    BY <1>4, UpdateSpecEffect
  <2>2. nfc' = nfc /\ failed' = failed
    BY <1>4, UpdateSpecEffect DEF BuildRest
  <2>3. rec'.pc = "build" /\ rec'.work = [rec.work EXCEPT ![n] = ws]
    BY <2>1 DEF PodDone, RecIs
  <2>4. rec'.work[n] = ws /\ \A m \in Nodes \ {n} : rec'.work[m] = rec.work[m]
    BY <2>3 DEF TypeInv, RecordsOK, RecRecord, Works
  <2>5. \A m \in Nodes \ {n} : Recorded(Configs, m)' = Recorded(Configs, m)
    BY <2>1 DEF Recorded
  <2>6. ws \subseteq Recorded(Configs, n)'
    BY <2>1 DEF Recorded
  <2>7. ws # None
    BY RulesApart
  <2> QED
    BY <2>2, <2>3, <2>4, <2>5, <2>6, <2>7 DEF RecordedInv
<1>5. ASSUME NEW p \in Pods, UpdateSpecFails(p) PROVE RecordedInv'
  BY <1>5, UpdateSpecFailsEffect DEF RecordedInv, MemoryKept, Retried
<1>6. ASSUME NEW p \in Pods, SkipPod(p) \/ ReadFails(p) PROVE RecordedInv'
  BY <1>6, SkipEffect, RecordedKept DEF RecIs, PodDone
<1>7. CASE BuildEnds
  BY <1>7, BuildEndsEffect, RecordedKept DEF RecIs
<1>8. ASSUME NEW n \in Nodes, Write(n) \/ WriteConflict(n) \/ WriteFails(n) PROVE RecordedInv'
  <2>1. CASE nfc' = [nfc EXCEPT ![n] = rec.work[n]] /\ UNCHANGED failed
    <3>1. /\ rec'.pc = "write" /\ rec'.work = [rec.work EXCEPT ![n] = None] /\ UNCHANGED hashMap
          /\ rec.work[n] # None
      BY <1>8, WriteEffect DEF RecIs
    <3>2. rec'.work[n] = None /\ \A m \in Nodes \ {n} : rec'.work[m] = rec.work[m]
      BY <3>1 DEF TypeInv, RecordsOK, RecRecord, Works
    <3>3. nfc'[n] = rec.work[n] /\ \A m \in Nodes \ {n} : nfc'[m] = nfc[m]
      BY <2>1 DEF TypeInv, RecordsOK, NodeFlowConfigs
    <3>4. \A m \in Nodes : Recorded(Configs, m)' = Recorded(Configs, m)
      BY <3>1 DEF Recorded
    <3> QED
      BY <2>1, <3>1, <3>2, <3>3, <3>4 DEF RecordedInv
  <2>2. CASE failed' = failed \cup {"stale"} \/ failed' = failed \cup {"refused"}
    BY <2>2 DEF RecordedInv, MemoryKept, Retried
  <2> QED
    BY <1>8, <2>1, <2>2, WriteEffect
<1>9. ASSUME NEW n \in Nodes, Clean(n) \/ CleanUnseen(n) \/ CleanFails(n) PROVE RecordedInv'
  <2>1. CASE /\ nfc' = [nfc EXCEPT ![n] = IF nfc[n] = None THEN None ELSE nfc[n] \ hashMap[rec.req][n]]
             /\ UNCHANGED failed
    <3>1. /\ rec.pc = "clean" /\ rec'.pc = "clean" /\ rec'.work = rec.work /\ rec'.req = rec.req
          /\ rec'.todo = rec.todo \ {n} /\ UNCHANGED hashMap
      BY <1>9, CleanEffect DEF RecIs
    <3>2. /\ nfc'[n] = IF nfc[n] = None THEN None ELSE nfc[n] \ hashMap[rec.req][n]
          /\ \A m \in Nodes \ {n} : nfc'[m] = nfc[m]
      BY <2>1 DEF TypeInv, RecordsOK, NodeFlowConfigs
    <3>3. \A m \in Nodes : Recorded(Configs, m)' = Recorded(Configs, m)
      BY <3>1 DEF Recorded
    <3>4. \A m \in Nodes \ {n} :
            (nfc[m] # None => nfc[m] \cap hashMap[rec.req][m] = {}) =>
              (nfc'[m] # None => nfc'[m] \cap hashMap'[rec'.req][m] = {})
      BY <3>1, <3>2
    <3>5. nfc'[n] # None => nfc'[n] \cap hashMap'[rec'.req][n] = {} /\ nfc[n] # None /\ nfc'[n] \subseteq nfc[n]
      BY <3>1, <3>2
    <3> QED
      BY <2>1, <3>1, <3>2, <3>3, <3>4, <3>5 DEF RecordedInv
  <2>2. CASE \E k \in {"stale", "refused", "read"} : failed' = failed \cup {k}
    BY <2>2 DEF RecordedInv, MemoryKept, Retried
  <2> QED
    BY <1>9, <2>1, <2>2, CleanEffect
<1>10. CASE ListFails \/ \E n \in Nodes : CleanConflict(n)
  <2>1. rec'.pc = "idle" /\ rec'.work = rec.work /\ UNCHANGED <<nfc, hashMap>> /\ failed \subseteq failed'
    BY <1>10, RetryEffect, IdleIs DEF RecIs, TypeInv, StepsOK
  <2> QED
    BY <2>1, RecordedKept
<1>11. CASE WriteEnds \/ CleanEnds
  <2>1. rec'.pc = "idle" /\ rec'.work = NoEntry /\ UNCHANGED <<nfc, failed>>
    BY <1>11, EndEffect, IdleIs DEF RecIs
  <2>2. CASE rec.pc = "write" /\ rec.work = NoEntry /\ UNCHANGED hashMap
    BY <2>1, <2>2, RecordedKept
  <2>3. CASE rec.pc = "clean" /\ rec.todo = {} /\ hashMap' = [hashMap EXCEPT ![rec.req] = NoHashes]
    <3>1. /\ rec.req \in Configs /\ hashMap \in [Configs -> [Nodes -> SUBSET MadeRule]]
          /\ rec.work = NoEntry
      BY <2>3 DEF TypeInv, RecordsOK, StepsOK
    <3>2. \A c \in Configs \ {rec.req} : hashMap'[c] = hashMap[c]
      BY <2>3, <3>1
    <3>3. ASSUME NEW n \in Nodes, nfc[n] # None, failed \subseteq MemoryKept,
                 NEW x \in nfc[n], x \notin UserRules
          PROVE  x \in Recorded(Configs, n)'
      <4>1. x \in Recorded(Configs, n) /\ x \notin hashMap[rec.req][n]
        BY <2>3, <3>1, <3>3 DEF RecordedInv, NoEntry
      <4>2. PICK c \in Configs : x \in hashMap[c][n]
        BY <4>1 DEF Recorded
      <4>3. x \in hashMap'[c][n]
        BY <3>2, <4>1, <4>2
      <4> QED
        BY <4>3 DEF Recorded
    <3>4. \A n \in Nodes : rec'.work[n] = None
      BY <2>1 DEF NoEntry
    <3> QED
      BY <2>1, <3>3, <3>4 DEF RecordedInv
  <2> QED
    BY <1>11, <2>2, <2>3, EndEffect
<1>12. CASE Restart
  BY <1>12, RestartEffect DEF RecordedInv, MemoryKept, Retried
<1>13. ASSUME NEW n \in Nodes, NEW u \in UserRules, WriteNodeRule(n, u) PROVE RecordedInv'
  <2>1. /\ rec'.pc = rec.pc /\ rec'.work = rec.work /\ rec'.req = rec.req /\ rec'.todo = rec.todo
        /\ UNCHANGED <<hashMap, failed>> /\ nfc[n] # None
    BY <1>13, NodeRuleEffect DEF RecIs
  <2>2. nfc'[n] = nfc[n] \cup {u} /\ \A m \in Nodes \ {n} : nfc'[m] = nfc[m]
    BY <1>13, NodeRuleEffect DEF TypeInv, RecordsOK, NodeFlowConfigs
  <2>3. \A m \in Nodes : Recorded(Configs, m)' = Recorded(Configs, m)
    BY <2>1 DEF Recorded
  <2>4. rec.pc = "clean" => u \notin hashMap[rec.req][n]
    BY RulesApart DEF TypeInv, StepsOK
  <2> QED
    BY <2>1, <2>2, <2>3, <2>4 DEF RecordedInv
<1>14. CASE EventStep
  BY <1>14, EventEffect, RecordedKept
<1>15. CASE QuietStep
  BY <1>15, RecordedKept DEF QuietStep
<1> QED
  BY <1>1, <1>2, <1>3, <1>4, <1>5, <1>6, <1>7, <1>8, <1>9, <1>10, <1>11, <1>12, <1>13, <1>14, <1>15, Quiet
  DEF ClusterNext, ReconcileStep, FailureStep, EditStep, InformerStep, EventStep

-----------------------------------------------------------------------------
(* The theorems *)

ClusterInv == TypeInv /\ CacheOK /\ GoneInv /\ RecordedInv

\* The three invariants hold in every state, whatever fails and whoever changes
\* objects, pods and nodes in the middle of a Reconcile.
LEMMA ClusterInvHolds == ClusterSpec => []ClusterInv
<1>1. ClusterInit => ClusterInv
  BY TypeInit, GoneInit, RecordedInit DEF ClusterInv, ClusterInit, CacheOK, UpToDate
<1>2. ClusterInv /\ [ClusterNext]_clusterVars => ClusterInv'
  BY TypeStep, CacheStep, GoneStep, RecordedStep DEF ClusterInv
<1> QED
  BY <1>1, <1>2, PTL DEF ClusterSpec

\* Cluster2NodeRulesHashMap knows every rule of every node that no user wrote, as
\* long as no failure was only logged: Reconcile can find what it has to remove.
THEOREM RulesRecorded == ClusterSpec => []RulesAreRecorded
<1>1. ClusterInv => RulesAreRecorded
  BY DEF ClusterInv, RecordedInv, RulesAreRecorded
<1> QED
  BY <1>1, ClusterInvHolds, PTL

\* When Reconcile has come to rest, the nodes hold no rule of an object that was
\* deleted, even when it was deleted between the lists and the writes of another
\* object's Reconcile, or while conflicts sent its cleanup back.
THEOREM DeletedGone == ClusterSpec => []DeletedIsGone
<1>1. ClusterInv => DeletedIsGone
  <2>1. SUFFICES ASSUME ClusterInv, failed \subseteq MemoryKept, rec = Idle, queue = {},
                        NEW n \in Nodes, nfc[n] # None, NEW x \in nfc[n], x \notin UserRules
                 PROVE  x \in Recorded(There(cfc), n)
    BY TypeImplies DEF ClusterInv, DeletedIsGone
  <2>2. rec.work[n] = None /\ rec.pc = "idle"
    BY <2>1, IdleIs DEF RecIs, NoEntry
  <2>3. PICK c \in Configs : x \in hashMap[c][n]
    BY <2>1, <2>2 DEF ClusterInv, RecordedInv, Recorded
  <2>4. NodesOf(c) # {}
    BY <2>3 DEF NodesOf
  <2>5. cfc[c] # None
    BY <2>1, <2>2, <2>4 DEF ClusterInv, GoneInv
  <2>6. c \in There(cfc)
    BY <2>5, <2>1 DEF There, ClusterInv, TypeInv, RecordsOK
  <2> QED
    BY <2>3, <2>6 DEF Recorded
<1> QED
  BY <1>1, ClusterInvHolds, PTL

-----------------------------------------------------------------------------
(* What rests is reflected: the invariants *)

\* A rule that users may give object c.
Used(c, r) == \E s \in Specs[c] : r \in s.rules

\* The objects are what users write, and the controller records for an object
\* only rules that it had; a pod that runs is on a node.
OriginInv ==
  /\ \A c \in Configs : cfc[c] # None => cfc[c] \in Specs[c]
  /\ \A p \in Pods : pod[p] # None /\ pod[p].phase = "Running" => pod[p].node # None
  /\ failed \subseteq Retried =>
       /\ \A c \in DOMAIN rec.list : \A r \in rec.list[c] : Used(c, r)
       /\ \A c \in Configs, n \in Nodes : \A x \in hashMap[c][n] : Used(c, x.rule)

Selects(c, p) == pod[p] # None /\ SelectorMatches(cfc[c].sel, pod[p])

\* p runs on n, and is the only pod there that c selects.
Sole(c, n, p) ==
  /\ Selects(c, p) /\ pod[p].phase = "Running" /\ pod[p].node = n
  /\ \A q \in Pods \ {p} : Selects(c, q) => pod[q].node # n

\* The node has the rules of c for pod p, from a Reconcile for its selector.
Has(c, n, p) ==
  /\ nfc[n] # None /\ NodeRules(OwnRules(c), pod[p]) \subseteq nfc[n]
  /\ cfc[c].sel \in writers[n]

\* A listed pod is still one that is selected, and if it runs, it is as it was.
StillListed(q) ==
  /\ pod[q] # None /\ SelectorMatches(rec.sel, pod[q])
  /\ rec.pods[q].node \in {None, pod[q].node}
  /\ pod[q].phase = "Running" => rec.pods[q].addr = pod[q].addr /\ rec.pods[q].node = pod[q].node

Serving == {"pods", "list", "build", "write"}

\* What the lists of Reconcile say of an object that is not in the queue is still so.
ListedInv(c) ==
  /\ rec.req = c /\ rec.pc \in Serving => rec.sel = cfc[c].sel
  /\ rec.req = c /\ rec.pc = "clean" => \A p \in Pods : Selects(c, p) => pod[p].phase # "Running"
  /\ rec.pc \in {"list", "build"} /\ rec.sel = cfc[c].sel => \A q \in DOMAIN rec.pods : StillListed(q)
  /\ rec.pc = "build" /\ rec.sel = cfc[c].sel => c \in DOMAIN rec.list /\ rec.list[c] = cfc[c].rules

\* A Reconcile for the selector of c comes to pod p, and makes the rules of c for it;
\* the node has them already, or the Reconcile of c is on its way to write them.
ReachesInv(c, n, p) ==
  /\ rec.pc = "list" /\ rec.sel = cfc[c].sel => p \in DOMAIN rec.pods
  /\ rec.pc = "build" /\ rec.sel = cfc[c].sel => p \in DOMAIN rec.pods \/ rec.work[n] # None
  /\ rec.pc \in {"build", "write"} /\ rec.sel = cfc[c].sel /\ rec.work[n] # None =>
       NodeRules(cfc[c].rules, pod[p]) \subseteq rec.work[n]
  /\ \/ \E s, t \in writers[n] : s # t
     \/ Has(c, n, p)
     \/ rec.req = c /\ rec.pc \in {"pods", "list", "build"}
     \/ rec.req = c /\ rec.pc = "write" /\ rec.work[n] # None

RestInv ==
  failed \subseteq Retried =>
    \A c \in Configs : cfc[c] # None /\ c \notin queue =>
      /\ ListedInv(c)
      /\ \A n \in Nodes, p \in Pods : Sole(c, n, p) => ReachesInv(c, n, p)

-----------------------------------------------------------------------------
(* What rests is reflected: where rules come from *)

\* A rule made from a rule of an object is one of that object.
LEMMA RuleOfMade ==
  ASSUME NEW rs, NEW p, NEW x \in NodeRules(rs, p)
  PROVE  x.rule \in rs
<1>1. PICK r \in rs : x = Translated(r, p)
  BY DEF NodeRules
<1> QED
  BY <1>1 DEF Translated

\* The objects there are at the start are the users'.
LEMMA OriginInit == ASSUME ClusterInit PROVE OriginInv
<1>1. rec.list = <<>>
  BY IdleIs DEF ClusterInit, RecIs
<1>2. \A c \in Configs, n \in Nodes : hashMap[c][n] = {}
  BY DEF ClusterInit, NoHashes
<1>3. \A c \in Configs : cfc[c] # None => cfc[c] \in Specs[c]
  BY InitAssumption DEF ClusterInit
<1>4. \A p \in Pods : pod[p] # None /\ pod[p].phase = "Running" => pod[p].node # None
  <2>1. \A p \in Pods : pod[p] \in PodStates \cup {None}
    BY InitAssumption DEF ClusterInit
  <2> QED
    BY <2>1, PodsAssumption
<1> QED
  BY <1>1, <1>2, <1>3, <1>4 DEF OriginInv

\* A step that leaves objects, pods and hashes alone, and the list, unless it drops it.
LEMMA OriginKept ==
  ASSUME OriginInv, UNCHANGED <<cfc, pod, hashMap>>, rec'.list \in {rec.list, <<>>}, failed \subseteq failed'
  PROVE  OriginInv'
BY DEF OriginInv

\* Whatever the controller records of an object was one of its rules.
LEMMA OriginStep == ASSUME TypeInv, OriginInv, [ClusterNext]_clusterVars PROVE OriginInv'
<1>0. Idle.list = <<>>
  BY IdleIs DEF RecIs
<1>1. ASSUME NEW c \in Configs, ReconcileGet(c) PROVE OriginInv'
  BY <1>1, GetEffect, OriginKept DEF RecIs
<1>2. CASE ListPods
  BY <1>2, ListPodsEffect, OriginKept DEF RecIs
<1>3. CASE ListConfigs
  <2>1. /\ UNCHANGED <<cfc, pod, hashMap, failed>>
        /\ \A c \in DOMAIN rec'.list : cfc[c] # None /\ rec'.list[c] = cfc[c].rules
    BY <1>3, ListConfigsEffect DEF RecIs
  <2>2. DOMAIN rec'.list \subseteq Configs
    BY <1>3, ListConfigsEffect, ListIs DEF RecIs, RecRecord
  <2>3. \A c \in DOMAIN rec'.list : \A r \in rec'.list[c] : Used(c, r)
    BY <2>1, <2>2 DEF OriginInv, Used
  <2> QED
    BY <2>1, <2>3 DEF OriginInv
<1>4. ASSUME NEW p \in Pods, UpdateSpec(p) PROVE OriginInv'
  <2>1. PICK n \in Nodes, ws \in SUBSET MadeRule :
              /\ PodDone(p, [rec.work EXCEPT ![n] = ws])
              /\ hashMap' \in [Configs -> [Nodes -> SUBSET MadeRule]]
              /\ \A c \in Configs, m \in Nodes \ {n} : hashMap'[c][m] = hashMap[c][m]
              /\ \A c \in Configs \ DOMAIN rec.list : hashMap'[c] = hashMap[c]
              /\ ws \subseteq UNION {hashMap'[c][n] : c \in Configs}
              /\ n = rec.pods[p].node
              /\ \A c \in DOMAIN rec.list : /\ hashMap'[c][n] = NodeRules(rec.list[c], rec.pods[p])
                                            /\ hashMap'[c][n] \subseteq ws
    BY <1>4, UpdateSpecEffect
  <2>2. UNCHANGED <<cfc, pod, failed>> /\ rec'.list = rec.list
    BY <1>4, <2>1, UpdateSpecEffect DEF BuildRest, PodDone, RecIs
  <2>3. ASSUME failed \subseteq Retried, NEW c \in Configs, NEW m \in Nodes, NEW x \in hashMap'[c][m]
        PROVE  Used(c, x.rule)
    <3>1. CASE m = n /\ c \in DOMAIN rec.list
      <4>1. x.rule \in rec.list[c]
        BY <2>1, <2>3, <3>1, RuleOfMade
      <4> QED
        BY <2>3, <3>1, <4>1 DEF OriginInv
    <3>2. CASE m # n \/ c \notin DOMAIN rec.list
      <4>1. x \in hashMap[c][m]
        BY <2>1, <2>3, <3>2
      <4> QED
        BY <2>3, <4>1 DEF OriginInv
    <3> QED
      BY <3>1, <3>2
  <2> QED
    BY <2>2, <2>3 DEF OriginInv
<1>5. ASSUME NEW p \in Pods, UpdateSpecFails(p) PROVE OriginInv'
  <2>1. BuildRest /\ failed' = failed \cup {"skipped"}
    BY <1>5, UpdateSpecFailsEffect
  <2>2. ~(failed' \subseteq Retried)
    BY <2>1 DEF Retried
  <2> QED
    BY <2>1, <2>2 DEF OriginInv, BuildRest
<1>6. ASSUME NEW p \in Pods, SkipPod(p) \/ ReadFails(p) PROVE OriginInv'
  BY <1>6, SkipEffect, OriginKept DEF RecIs, PodDone
<1>7. CASE BuildEnds
  BY <1>7, BuildEndsEffect, OriginKept DEF RecIs
<1>8. ASSUME NEW n \in Nodes, Write(n) \/ WriteConflict(n) \/ WriteFails(n) PROVE OriginInv'
  BY <1>8, WriteEffect, OriginKept DEF RecIs
<1>9. ASSUME NEW n \in Nodes, Clean(n) \/ CleanUnseen(n) \/ CleanFails(n) PROVE OriginInv'
  BY <1>9, CleanEffect, OriginKept DEF RecIs
<1>10. CASE ListFails \/ \E n \in Nodes : CleanConflict(n)
  BY <1>0, <1>10, RetryEffect, OriginKept
<1>11. CASE WriteEnds \/ CleanEnds
  <2>1. rec'.list = <<>> /\ UNCHANGED <<cfc, pod, failed>>
    BY <1>0, <1>11, EndEffect
  <2>2. CASE UNCHANGED hashMap
    BY <2>1, <2>2, OriginKept
  <2>3. CASE rec.pc = "clean" /\ hashMap' = [hashMap EXCEPT ![rec.req] = NoHashes]
    <3>1. hashMap \in [Configs -> [Nodes -> SUBSET MadeRule]]
      BY DEF TypeInv, RecordsOK
    <3>2. \A c \in Configs, n \in Nodes : hashMap'[c][n] \subseteq hashMap[c][n]
      BY <2>3, <3>1 DEF NoHashes
    <3> QED
      BY <2>1, <3>2 DEF OriginInv
  <2> QED
    BY <1>11, <2>2, <2>3, EndEffect
<1>12. CASE Restart
  BY <1>12, RestartEffect DEF OriginInv, Retried
<1>13. ASSUME NEW n \in Nodes, NEW u \in UserRules, WriteNodeRule(n, u) PROVE OriginInv'
  BY <1>13, NodeRuleEffect, OriginKept DEF RecIs
<1>14. ASSUME NEW c \in Configs, NEW s \in Specs[c] \cup {None}, WriteConfig(c, s) PROVE OriginInv'
  <2>1. cfc' = [cfc EXCEPT ![c] = s] /\ UNCHANGED <<pod, hashMap, rec, failed>>
    BY <1>14 DEF WriteConfig, Edit
  <2>2. \A d \in Configs : cfc'[d] # None => cfc'[d] \in Specs[d]
    BY <2>1 DEF OriginInv, TypeInv, RecordsOK
  <2> QED
    BY <2>1, <2>2 DEF OriginInv
<1>15. ASSUME NEW p \in Pods, NEW s \in PodStates \cup {None}, WritePod(p, s) PROVE OriginInv'
  <2>1. pod' = [pod EXCEPT ![p] = s] /\ UNCHANGED <<cfc, hashMap, rec>> /\ failed \subseteq failed'
    BY <1>15 DEF WritePod, Edit
  <2>2. \A q \in Pods : pod'[q] # None /\ pod'[q].phase = "Running" => pod'[q].node # None
    BY <2>1, PodsAssumption DEF OriginInv, TypeInv, RecordsOK
  <2> QED
    BY <2>1, <2>2 DEF OriginInv
<1>16. CASE Resync
  BY <1>16, OriginKept DEF Resync, api, bounds
<1>17. CASE QuietStep
  BY <1>17, OriginKept DEF QuietStep
<1> QED
  BY <1>1, <1>2, <1>3, <1>4, <1>5, <1>6, <1>7, <1>8, <1>9, <1>10, <1>11, <1>12, <1>13, <1>14, <1>15, <1>16, <1>17, Quiet
  DEF ClusterNext, ReconcileStep, FailureStep, EditStep, InformerStep

-----------------------------------------------------------------------------
(* What rests is reflected: what the controller hears of *)

\* Of an object that is not in the queue afterwards, the controller has heard
\* before; only its own Reconcile takes it out.
LEMMA QueueStep ==
  ASSUME TypeInv, [ClusterNext]_clusterVars, NEW c \in Configs, c \notin queue'
  PROVE  /\ failed \subseteq failed'
         /\ failed' \subseteq Retried => cfc'[c] = cfc[c] /\ (c \notin queue \/ ReconcileGet(c))
<1>1. ASSUME NEW d \in Configs, ReconcileGet(d)
      PROVE  failed' = failed /\ cfc' = cfc /\ (c \notin queue \/ d = c)
  BY <1>1, GetEffect
<1>2. CASE ListPods \/ ListConfigs \/ BuildEnds \/ WriteEnds \/ CleanEnds
  BY <1>2, ListPodsEffect, ListConfigsEffect, BuildEndsEffect, EndEffect
<1>3. ASSUME NEW p \in Pods, UpdateSpec(p) \/ UpdateSpecFails(p) \/ SkipPod(p) \/ ReadFails(p)
      PROVE  failed \subseteq failed' /\ UNCHANGED <<cfc, queue>>
  BY <1>3, UpdateSpecEffect, UpdateSpecFailsEffect, SkipEffect DEF BuildRest
<1>4. ASSUME NEW n \in Nodes, Write(n) \/ WriteConflict(n) \/ WriteFails(n) \/ Clean(n) \/ CleanUnseen(n) \/ CleanFails(n)
      PROVE  failed \subseteq failed' /\ UNCHANGED <<cfc, queue>>
  BY <1>4, WriteEffect, CleanEffect
<1>5. CASE ListFails \/ \E n \in Nodes : CleanConflict(n)
  BY <1>5, RetryEffect
<1>6. CASE Restart
  BY <1>6, RestartEffect DEF Retried
<1>7. ASSUME NEW n \in Nodes, NEW u \in UserRules, WriteNodeRule(n, u)
      PROVE  failed' = failed /\ UNCHANGED <<cfc, queue>>
  BY <1>7, NodeRuleEffect
<1>8. CASE EventStep
  BY <1>8, EventEffect
<1>9. CASE QuietStep
  BY <1>9 DEF QuietStep
<1> QED
  BY <1>1, <1>2, <1>3, <1>4, <1>5, <1>6, <1>7, <1>8, <1>9, Quiet
  DEF ClusterNext, ReconcileStep, FailureStep, EditStep, InformerStep, EventStep

\* A pod as the controller sees it, if it runs.
SameRunning(old, new) ==
  old # None /\ old.phase = "Running" /\ old.labels = new.labels /\ old.addr = new.addr /\ old.node = new.node

\* Pods that an object selects, and that change without a request for it: one
\* that runs afterwards ran before, and none is lost.
LEMMA Unheard ==
  ASSUME TypeInv, OriginInv, EventStep, failed' \subseteq Retried,
         NEW c \in Configs, cfc[c] # None, cfc'[c] = cfc[c], c \notin queue', NEW q \in Pods
  PROVE  /\ Selects(c, q)' /\ pod'[q].phase = "Running" => SameRunning(pod[q], pod'[q])
         /\ Selects(c, q) => /\ pod'[q] # None /\ pod'[q].labels = pod[q].labels
                             /\ pod[q].node \in {None, pod'[q].node}
<1>1. pod \in [Pods -> Pod \cup {None}]
  BY DEF TypeInv, RecordsOK
<1>2. CASE pod'[q] = pod[q]
  BY <1>1, <1>2 DEF Selects, SameRunning
<1>3. CASE pod'[q] # pod[q]
  <2>1. PICK p \in Pods, s \in PodStates \cup {None} : WritePod(p, s)
    BY <1>3 DEF EventStep, WriteConfig, Resync, api
  <2>2. pod' = [pod EXCEPT ![p] = s]
    BY <2>1 DEF WritePod
  <2>3. p = q /\ pod'[q] = s
    BY <1>1, <1>3, <2>2
  <2>4. PICK o \in Pod \cup {None} : o = pod[q]
    BY <1>1
  <2>5. s \in Pod \cup {None}
    BY SpecsAssumption
  <2>6. /\ o # s
        /\ o = None /\ s # None => s.phase = "Pending"
        /\ o # None /\ s # None => s.phase \in NextPhases(o.phase)
        /\ o # None /\ s # None => o.node \in {None, s.node}
    BY <1>3, <2>1, <2>3, <2>4 DEF WritePod
  <2>7. /\ o # None /\ s = None => queue' = queue \cup mapPodsToRequests(o)
        /\ o # None /\ s # None /\ PodUpdateCounts(o, s) =>
             queue' = queue \cup mapPodsToRequests(o) \cup mapPodsToRequests(s)
    <3>1. queue' = CASE o = None -> queue
                     [] o # None /\ s = None -> queue \cup mapPodsToRequests(o)
                     [] OTHER -> IF PodUpdateCounts(o, s)
                                   THEN queue \cup mapPodsToRequests(o) \cup mapPodsToRequests(s)
                                   ELSE queue
      BY <2>1, <2>3, <2>4 DEF WritePod
    <3> QED
      BY <3>1
  <2>8. \A x : SelectorMatches(cfc[c].sel, x) => c \in mapPodsToRequests(x)
    BY DEF SelectorMatches, mapPodsToRequests, There, TypeInv, RecordsOK
  <2>9. o # None /\ s # None /\ ~PodUpdateCounts(o, s) => s.labels = o.labels
    <3>1. o # None /\ s # None /\ o.labels # s.labels /\ ~PodUpdateCounts(o, s) => "unheard" \in failed'
      BY <2>1, <2>3, <2>4 DEF WritePod
    <3> QED
      BY <3>1 DEF Retried
  <2>10. o # None /\ o.phase = "Running" => o.node # None
    BY <2>4 DEF OriginInv
  <2>11. \A x \in Pod : "Running" \in NextPhases(x.phase) => x.phase \in {"Pending", "Running"}
    BY DEF Pod, NextPhases
  <2>12. ASSUME Selects(c, q)', pod'[q].phase = "Running" PROVE SameRunning(pod[q], pod'[q])
    <3>1. s # None /\ s.phase = "Running" /\ c \in mapPodsToRequests(s)
      BY <2>3, <2>8, <2>12 DEF Selects
    <3>2. o # None
      BY <2>6, <3>1
    <3>3. ~PodUpdateCounts(o, s)
      BY <2>7, <3>1, <3>2
    <3>4. o.phase = "Running" /\ o.labels = s.labels /\ o.addr = s.addr
      BY <2>6, <2>11, <3>1, <3>2, <3>3 DEF PodUpdateCounts
    <3>5. o.node = s.node
      BY <2>6, <2>10, <3>1, <3>2, <3>4
    <3> QED
      BY <2>3, <2>4, <3>2, <3>4, <3>5 DEF SameRunning
  <2>13. ASSUME Selects(c, q)
         PROVE  pod'[q] # None /\ pod'[q].labels = pod[q].labels /\ pod[q].node \in {None, pod'[q].node}
    <3>1. o # None /\ c \in mapPodsToRequests(o)
      BY <2>4, <2>8, <2>13 DEF Selects
    <3>2. s # None
      BY <2>7, <3>1
    <3>3. ~PodUpdateCounts(o, s)
      BY <2>7, <3>1, <3>2
    <3>4. s.labels = o.labels
      BY <2>9, <3>1, <3>2, <3>3
    <3> QED
      BY <2>3, <2>4, <2>6, <3>1, <3>2, <3>4
  <2> QED
    BY <2>12, <2>13
<1> QED
  BY <1>2, <1>3

\* What is made for a pod depends on its addresses only.
LEMMA SameAddresses ==
  ASSUME NEW o, NEW s, o.addr = s.addr, NEW rs
  PROVE  NodeRules(rs, o) = NodeRules(rs, s)
<1>1. \A r : Translated(r, o) = Translated(r, s)
  BY DEF Translated
<1> QED
  BY <1>1 DEF NodeRules

\* A pod that is alone for an object after an event was so before, with the same
\* addresses; what an object selects, it still selects.
LEMMA SoleBefore ==
  ASSUME TypeInv, OriginInv, EventStep, failed' \subseteq Retried,
         NEW c \in Configs, cfc[c] # None, cfc'[c] = cfc[c], c \notin queue'
  PROVE  /\ \A q \in Pods : Selects(c, q) => Selects(c, q)'
         /\ \A n \in Nodes, p \in Pods :
              Sole(c, n, p)' => Sole(c, n, p) /\ pod[p] # None /\ pod'[p].addr = pod[p].addr
<1>1. ASSUME NEW q \in Pods, Selects(c, q) PROVE Selects(c, q)'
  BY <1>1, Unheard DEF Selects, SelectorMatches
<1>2. ASSUME NEW n \in Nodes, NEW p \in Pods, Sole(c, n, p)'
      PROVE  Sole(c, n, p) /\ pod[p] # None /\ pod'[p].addr = pod[p].addr
  <2>1. SameRunning(pod[p], pod'[p]) /\ Selects(c, p)' /\ pod'[p].node = n
    BY <1>2, Unheard DEF Sole
  <2>2. Selects(c, p)
    BY <2>1 DEF Selects, SameRunning, SelectorMatches
  <2>3. ASSUME NEW q \in Pods \ {p}, Selects(c, q), pod[q].node = n PROVE FALSE
    <3>1. Selects(c, q)' /\ pod[q].node \in {None, pod'[q].node}
      BY <1>1, <2>3, Unheard
    <3>2. pod'[q].node = n
      BY <2>3, <3>1, RulesAssumption
    <3> QED
      BY <1>2, <3>1, <3>2 DEF Sole
  <2> QED
    BY <2>1, <2>2, <2>3 DEF Sole, SameRunning
<1> QED
  BY <1>1, <1>2

-----------------------------------------------------------------------------
(* What rests is reflected: the steps *)

\* The lists are as good as they were, when the objects and pods are the same and
\* Reconcile goes on with the lists it has.
LEMMA ListedKept ==
  ASSUME NEW c \in Configs, ListedInv(c), cfc'[c] = cfc[c], pod' = pod,
         rec'.req = rec.req, rec'.sel = rec.sel,
         rec'.pc = rec.pc \/ (rec.pc = "build" /\ rec'.pc = "write"),
         rec'.list = rec.list, DOMAIN rec'.pods \subseteq DOMAIN rec.pods,
         \A q \in DOMAIN rec'.pods : rec'.pods[q] = rec.pods[q]
  PROVE  ListedInv(c)'
<1>1. \A p \in Pods : Selects(c, p)' <=> Selects(c, p)
  BY DEF Selects
<1>2. \A q \in DOMAIN rec'.pods : StillListed(q) => StillListed(q)'
  BY DEF StillListed
<1>3. rec'.pc \in Serving => rec.pc \in Serving
  BY DEF Serving
<1> QED
  BY <1>1, <1>2, <1>3 DEF ListedInv

\* The lists say what there is, and of an object that is not in the queue they
\* go on to.
LEMMA ListedStep ==
  ASSUME TypeInv, OriginInv, RestInv, [ClusterNext]_clusterVars,
         failed' \subseteq Retried, NEW c \in Configs, cfc'[c] # None, c \notin queue'
  PROVE  ListedInv(c)'
<1>0. /\ failed \subseteq Retried /\ cfc'[c] = cfc[c] /\ cfc[c] # None
      /\ c \notin queue \/ ReconcileGet(c)
      /\ c \notin queue => ListedInv(c)
  BY QueueStep DEF RestInv
<1>01. Idle.pc = "idle"
  BY IdleIs DEF RecIs
<1>1. ASSUME NEW d \in Configs, ReconcileGet(d) PROVE ListedInv(c)'
  <2>1. cfc' = cfc /\ rec'.pc \in {"pods", "clean"} /\ rec'.req = d
        /\ (rec'.pc = "pods" => rec'.sel = cfc[d].sel)
        /\ (rec'.pc = "clean" => cfc[d] = None)
    BY <1>1, GetEffect DEF RecIs
  <2> QED
    BY <1>0, <2>1 DEF ListedInv
<1>2. CASE ListPods
  <2>1. rec.pc = "pods" /\ UNCHANGED <<cfc, pod, queue>> /\ rec'.req = rec.req /\ rec'.sel = rec.sel
    BY <1>2, ListPodsEffect DEF RecIs
  <2>2. c \notin queue /\ ListedInv(c)
    BY <1>0, <2>1 DEF ReconcileGet
  <2>3. rec.req = c => rec.sel = cfc[c].sel
    BY <2>1, <2>2 DEF ListedInv, Serving
  <2>4. CASE rec'.pc = "list" /\ DOMAIN rec'.pods = {p \in There(pod) : SelectorMatches(rec.sel, pod[p])}
             /\ \A p \in DOMAIN rec'.pods : rec'.pods[p] = pod[p]
    <3>1. \A q \in DOMAIN rec'.pods : StillListed(q)'
      BY <2>1, <2>4 DEF StillListed, There
    <3> QED
      BY <1>0, <2>1, <2>3, <2>4, <3>1 DEF ListedInv
  <2>5. CASE rec'.pc = "clean" /\ \A p \in There(pod) : ~SelectorMatches(rec.sel, pod[p])
    <3>1. rec.req = c => \A p \in Pods : ~Selects(c, p)'
      BY <1>0, <2>1, <2>3, <2>5 DEF Selects, There, TypeInv, RecordsOK
    <3> QED
      BY <1>0, <2>1, <2>5, <3>1 DEF ListedInv, Serving
  <2> QED
    BY <1>2, <2>4, <2>5, ListPodsEffect DEF RecIs
<1>3. CASE ListConfigs
  <2>1. /\ rec.pc = "list" /\ UNCHANGED <<cfc, pod, queue>> /\ rec'.req = rec.req /\ rec'.sel = rec.sel
        /\ rec'.pc = "build" /\ rec'.pods = rec.pods
        /\ \A d \in DOMAIN rec'.list : rec'.list[d] = cfc[d].rules
        /\ \A d \in Configs : cfc[d] # None /\ cfc[d].sel = rec.sel => d \in DOMAIN rec'.list
    BY <1>3, ListConfigsEffect DEF RecIs
  <2>2. c \notin queue /\ ListedInv(c)
    BY <1>0, <2>1 DEF ReconcileGet
  <2>3. \A q : StillListed(q) => StillListed(q)'
    BY <2>1 DEF StillListed
  <2> QED
    BY <1>0, <2>1, <2>2, <2>3 DEF ListedInv, Serving
<1>4. ASSUME NEW p \in Pods, UpdateSpec(p) \/ SkipPod(p) \/ ReadFails(p) PROVE ListedInv(c)'
  <2>1. /\ rec.pc = "build" /\ rec'.pc = "build" /\ rec'.req = rec.req /\ rec'.sel = rec.sel
        /\ rec'.list = rec.list /\ rec'.pods = Drop(rec.pods, p) /\ pod' = pod
    BY <1>4, UpdateSpecEffect, SkipEffect DEF PodDone, RecIs, BuildRest
  <2>2. rec.pods \in PodLists
    BY DEF TypeInv, RecordsOK, RecRecord
  <2>3. DOMAIN rec'.pods \subseteq DOMAIN rec.pods /\ \A q \in DOMAIN rec'.pods : rec'.pods[q] = rec.pods[q]
    <3>1. /\ DOMAIN Drop(rec.pods, p) = DOMAIN rec.pods \ {p}
          /\ \A q \in DOMAIN rec.pods \ {p} : Drop(rec.pods, p)[q] = rec.pods[q]
      BY <2>2, DropIs
    <3> QED
      BY <2>1, <3>1
  <2>4. ListedInv(c)
    BY <1>0, <2>1 DEF ReconcileGet
  <2> QED
    BY <1>0, <2>1, <2>3, <2>4, ListedKept
<1>5. ASSUME NEW p \in Pods, UpdateSpecFails(p) PROVE FALSE
  BY <1>5, UpdateSpecFailsEffect DEF Retried
<1>6. CASE BuildEnds
  <2>1. ListedInv(c)
    BY <1>0, <1>6 DEF ReconcileGet, BuildEnds
  <2> QED
    BY <1>0, <1>6, <2>1, ListedKept, BuildEndsEffect DEF RecIs
<1>7. ASSUME NEW n \in Nodes, Write(n) \/ WriteConflict(n) \/ WriteFails(n) PROVE ListedInv(c)'
  <2>1. ListedInv(c)
    BY <1>0, <1>7, WriteEffect DEF ReconcileGet
  <2> QED
    BY <1>0, <1>7, <2>1, ListedKept, WriteEffect DEF RecIs
<1>8. ASSUME NEW n \in Nodes, Clean(n) \/ CleanUnseen(n) \/ CleanFails(n) PROVE ListedInv(c)'
  <2>1. ListedInv(c)
    BY <1>0, <1>8, CleanEffect DEF ReconcileGet
  <2> QED
    BY <1>0, <1>8, <2>1, ListedKept, CleanEffect DEF RecIs
<1>9. CASE \/ ListFails \/ (\E n \in Nodes : CleanConflict(n)) \/ WriteEnds \/ CleanEnds \/ Restart
  <2>1. rec'.pc = "idle"
    BY <1>01, <1>9, RetryEffect, EndEffect, RestartEffect
  <2> QED
    BY <2>1 DEF ListedInv, Serving
<1>10. ASSUME NEW n \in Nodes, NEW u \in UserRules, WriteNodeRule(n, u) PROVE ListedInv(c)'
  <2>1. UNCHANGED <<pod, queue>>
    BY <1>10, NodeRuleEffect
  <2>2. ListedInv(c)
    BY <1>0, <2>1 DEF ReconcileGet, TypeInv, RecordsOK
  <2> QED
    BY <1>0, <1>10, <2>1, <2>2, ListedKept, NodeRuleEffect DEF RecIs
<1>11. CASE EventStep
  <2>1. c \notin queue /\ rec' = rec
    BY <1>11, EventEffect
  <2>2. ListedInv(c)
    BY <1>0, <2>1
  <2>3. \A q \in Pods : Selects(c, q) => Selects(c, q)'
    BY <1>0, <1>11, SoleBefore
  <2>4. ASSUME rec.req = c, rec.pc = "clean", NEW p \in Pods, Selects(c, p)', pod'[p].phase = "Running"
        PROVE  FALSE
    <3>1. SameRunning(pod[p], pod'[p])
      BY <1>0, <1>11, <2>4, Unheard
    <3>2. Selects(c, p)
      BY <1>0, <2>4, <3>1 DEF Selects, SameRunning, SelectorMatches
    <3> QED
      BY <2>2, <2>4, <3>1, <3>2 DEF ListedInv, SameRunning
  <2>5. ASSUME rec.sel = cfc[c].sel, NEW q \in DOMAIN rec.pods, StillListed(q) PROVE StillListed(q)'
    <3>1. q \in Pods
      BY DropIs DEF TypeInv, RecordsOK, RecRecord
    <3>2. Selects(c, q) /\ Selects(c, q)'
      BY <2>3, <2>5, <3>1 DEF Selects, StillListed
    <3>3. pod[q].node \in {None, pod'[q].node}
      BY <1>0, <1>11, <3>1, <3>2, Unheard
    <3>4. rec.pods[q].node \in {None, pod'[q].node}
      BY <2>5, <3>3 DEF StillListed
    <3>5. pod'[q].phase = "Running" => rec.pods[q].addr = pod'[q].addr /\ rec.pods[q].node = pod'[q].node
      <4>1. pod'[q].phase = "Running" => SameRunning(pod[q], pod'[q])
        BY <1>0, <1>11, <3>1, <3>2, Unheard
      <4> QED
        BY <2>5, <4>1 DEF SameRunning, StillListed
    <3> QED
      BY <1>0, <2>1, <2>5, <3>2, <3>4, <3>5 DEF StillListed, Selects
  <2> QED
    BY <1>0, <2>1, <2>2, <2>4, <2>5 DEF ListedInv
<1>12. CASE QuietStep
  <2>1. UNCHANGED <<cfc, pod, queue, rec>>
    BY <1>12 DEF QuietStep
  <2>2. ListedInv(c)
    BY <1>0, <2>1
  <2> QED
    BY <1>0, <2>1, <2>2, ListedKept
<1> QED
  BY <1>1, <1>2, <1>3, <1>4, <1>5, <1>6, <1>7, <1>8, <1>9, <1>10, <1>11, <1>12, Quiet
  DEF ClusterNext, ReconcileStep, FailureStep, EditStep, InformerStep, EventStep

\* Objects and pods are the same, and so are those that are alone.
LEMMA SameObjects ==
  ASSUME NEW c \in Configs, cfc'[c] = cfc[c], pod' = pod
  PROVE  /\ \A n \in Nodes, p \in Pods : Sole(c, n, p)' <=> Sole(c, n, p)
         /\ OwnRules(c)' = OwnRules(c)
<1>1. \A p \in Pods : Selects(c, p)' <=> Selects(c, p)
  BY DEF Selects
<1> QED
  BY <1>1 DEF Sole, OwnRules

\* A node that has the rules of an object keeps them, unless its rules are changed.
LEMMA HasKept ==
  ASSUME NEW c \in Configs, NEW n \in Nodes, NEW p, Has(c, n, p),
         cfc'[c] = cfc[c], pod'[p].addr = pod[p].addr,
         nfc'[n] # None, nfc[n] \subseteq nfc'[n], writers'[n] = writers[n]
  PROVE  Has(c, n, p)'
<1>1. OwnRules(c)' = OwnRules(c)
  BY DEF OwnRules
<1>2. NodeRules(OwnRules(c), pod'[p]) = NodeRules(OwnRules(c), pod[p])
  BY SameAddresses
<1> QED
  BY <1>1, <1>2 DEF Has

\* A step that leaves the node, the pods and what Reconcile knows of them alone.
LEMMA ReachesKept ==
  ASSUME NEW c \in Configs, NEW n \in Nodes, NEW p \in Pods, ReachesInv(c, n, p),
         cfc'[c] = cfc[c], pod'[p].addr = pod[p].addr,
         nfc[n] # None => nfc'[n] # None /\ nfc[n] \subseteq nfc'[n], writers'[n] = writers[n],
         rec'.req = rec.req, rec'.sel = rec.sel, rec'.pc = rec.pc,
         rec'.work[n] = rec.work[n],
         rec.pc \in {"list", "build"} /\ p \in DOMAIN rec.pods => p \in DOMAIN rec'.pods
  PROVE  ReachesInv(c, n, p)'
<1>1. Has(c, n, p) => Has(c, n, p)'
  BY HasKept DEF Has
<1>2. NodeRules(cfc[c].rules, pod'[p]) = NodeRules(cfc[c].rules, pod[p])
  BY SameAddresses
<1> QED
  BY <1>1, <1>2 DEF ReachesInv

\* A Reconcile for the selector of an object that comes to its pod makes the rules
\* of that pod.
LEMMA MakesItsRules ==
  ASSUME TypeInv, NEW c \in Configs, ListedInv(c), NEW n \in Nodes, NEW p \in Pods, Sole(c, n, p),
         rec.pc = "build", rec.sel = cfc[c].sel,
         NEW q \in Pods, q \in DOMAIN rec.pods, rec.pods[q].node = n
  PROVE  q = p /\ rec.pods[q].addr = pod[p].addr /\ c \in DOMAIN rec.list /\ rec.list[c] = cfc[c].rules
<1>1. StillListed(q) /\ c \in DOMAIN rec.list /\ rec.list[c] = cfc[c].rules
  BY DEF ListedInv
<1>2. n # None
  BY RulesAssumption
<1>3. Selects(c, q) /\ pod[q].node = n
  BY <1>1, <1>2 DEF Selects, StillListed
<1>4. q = p
  BY <1>3 DEF Sole
<1> QED
  BY <1>1, <1>4 DEF Sole, StillListed

\* The rules of an object that is not in the queue are on their way to the node of
\* a pod that is alone there, or have arrived.
LEMMA ReachesStep ==
  ASSUME TypeInv, TypeInv', OriginInv, RestInv, [ClusterNext]_clusterVars,
         failed' \subseteq Retried, NEW c \in Configs, cfc'[c] # None, c \notin queue',
         NEW n \in Nodes, NEW p \in Pods, Sole(c, n, p)'
  PROVE  ReachesInv(c, n, p)'
<1>0. /\ failed \subseteq Retried /\ cfc'[c] = cfc[c] /\ cfc[c] # None
      /\ c \notin queue \/ ReconcileGet(c)
      /\ c \notin queue => ListedInv(c) /\ (Sole(c, n, p) => ReachesInv(c, n, p))
  BY QueueStep DEF RestInv
<1>01. Idle.pc = "idle"
  BY IdleIs DEF RecIs
<1>02. rec.work \in Works /\ nfc \in NodeFlowConfigs /\ rec.pods \in PodLists
  BY DEF TypeInv, RecordsOK, RecRecord
<1>03. ASSUME pod' = pod, rec.pc # "idle" \/ queue' = queue
       PROVE  Sole(c, n, p) /\ ListedInv(c) /\ ReachesInv(c, n, p)
  <2>1. Sole(c, n, p)
    BY <1>0, <1>03, SameObjects
  <2>2. c \notin queue
    BY <1>0, <1>03 DEF ReconcileGet
  <2> QED
    BY <1>0, <2>1, <2>2
<1>1. ASSUME NEW d \in Configs, ReconcileGet(d) PROVE ReachesInv(c, n, p)'
  <2>1. /\ rec.pc = "idle" /\ rec'.pc \in {"pods", "clean"} /\ rec'.req = d
        /\ (rec'.pc = "clean" => cfc[d] = None)
        /\ queue' = queue \ {d} /\ UNCHANGED <<cfc, pod, nfc, writers>>
    BY <1>1, GetEffect DEF RecIs
  <2>2. CASE c = d
    BY <1>0, <2>1, <2>2 DEF ReachesInv
  <2>3. CASE c # d
    <3>1. c \notin queue /\ Sole(c, n, p)
      BY <1>0, <2>1, <2>3, SameObjects
    <3>2. (\E s, t \in writers[n] : s # t) \/ Has(c, n, p)
      BY <1>0, <2>1, <3>1 DEF ReachesInv
    <3>3. Has(c, n, p) => Has(c, n, p)'
      BY <1>0, <2>1, HasKept DEF Has
    <3> QED
      BY <2>1, <3>2, <3>3 DEF ReachesInv
  <2> QED
    BY <2>2, <2>3
<1>2. CASE ListPods
  <2>1. /\ rec.pc = "pods" /\ UNCHANGED <<cfc, pod, nfc, writers, queue>>
        /\ rec'.req = rec.req /\ rec'.sel = rec.sel
    BY <1>2, ListPodsEffect DEF RecIs
  <2>2. Sole(c, n, p) /\ ListedInv(c) /\ ReachesInv(c, n, p)
    BY <1>03, <2>1
  <2>3. Has(c, n, p) => Has(c, n, p)'
    BY <1>0, <2>1, HasKept DEF Has
  <2>4. p \in There(pod) /\ SelectorMatches(cfc[c].sel, pod[p])
    BY <2>2 DEF Sole, Selects, There, TypeInv, RecordsOK
  <2>5. CASE rec'.pc = "list" /\ DOMAIN rec'.pods = {q \in There(pod) : SelectorMatches(rec.sel, pod[q])}
    BY <1>0, <2>1, <2>2, <2>3, <2>4, <2>5 DEF ReachesInv
  <2>6. CASE rec'.pc = "clean" /\ \A q \in There(pod) : ~SelectorMatches(rec.sel, pod[q])
    <3>1. rec.req # c
      BY <2>1, <2>2, <2>4, <2>6 DEF ListedInv, Serving
    <3> QED
      BY <1>0, <2>1, <2>2, <2>3, <2>6, <3>1 DEF ReachesInv
  <2> QED
    BY <1>2, <2>5, <2>6, ListPodsEffect DEF RecIs
<1>3. CASE ListConfigs
  <2>1. /\ rec.pc = "list" /\ UNCHANGED <<cfc, pod, nfc, writers, queue>>
        /\ rec'.req = rec.req /\ rec'.sel = rec.sel /\ rec'.pc = "build" /\ rec'.pods = rec.pods
        /\ rec'.work = rec.work
    BY <1>3, ListConfigsEffect DEF RecIs
  <2>2. Sole(c, n, p) /\ ListedInv(c) /\ ReachesInv(c, n, p)
    BY <1>03, <2>1
  <2>3. Has(c, n, p) => Has(c, n, p)'
    BY <1>0, <2>1, HasKept DEF Has
  <2>4. rec'.work[n] = None
    BY <2>1 DEF TypeInv, StepsOK, NoEntry
  <2> QED
    BY <1>0, <2>1, <2>2, <2>3, <2>4 DEF ReachesInv
<1>4. ASSUME NEW q \in Pods, UpdateSpec(q) PROVE ReachesInv(c, n, p)'
  <2>1. PICK m \in Nodes, ws \in SUBSET MadeRule :
              /\ PodDone(q, [rec.work EXCEPT ![m] = ws])
              /\ hashMap' \in [Configs -> [Nodes -> SUBSET MadeRule]]
              /\ \A d \in Configs, k \in Nodes \ {m} : hashMap'[d][k] = hashMap[d][k]
              /\ \A d \in Configs \ DOMAIN rec.list : hashMap'[d] = hashMap[d]
              /\ ws \subseteq UNION {hashMap'[d][m] : d \in Configs}
              /\ m = rec.pods[q].node
              /\ \A d \in DOMAIN rec.list : /\ hashMap'[d][m] = NodeRules(rec.list[d], rec.pods[q])
                                            /\ hashMap'[d][m] \subseteq ws
    BY <1>4, UpdateSpecEffect
  <2>2. /\ rec.pc = "build" /\ q \in DOMAIN rec.pods /\ rec'.pc = "build"
        /\ rec'.req = rec.req /\ rec'.sel = rec.sel
        /\ rec'.pods = Drop(rec.pods, q) /\ rec'.work = [rec.work EXCEPT ![m] = ws]
        /\ UNCHANGED <<cfc, pod, nfc, writers, queue>>
    BY <1>4, <2>1, UpdateSpecEffect DEF BuildRest, PodDone, RecIs
  <2>3. Sole(c, n, p) /\ ListedInv(c) /\ ReachesInv(c, n, p)
    BY <1>03, <2>2
  <2>4. p \in DOMAIN rec.pods /\ p # q => p \in DOMAIN rec'.pods
    <3>1. DOMAIN Drop(rec.pods, q) = DOMAIN rec.pods \ {q}
      BY <1>02, DropIs
    <3> QED
      BY <2>2, <3>1
  <2>5. rec'.work[m] = ws /\ \A k \in Nodes \ {m} : rec'.work[k] = rec.work[k]
    BY <1>02, <2>2 DEF Works
  <2>6. ws # None
    BY RulesApart
  <2>7. CASE rec.sel # cfc[c].sel
    <3>1. rec.req # c
      BY <2>2, <2>3, <2>7 DEF ListedInv, Serving
    <3>2. Has(c, n, p) => Has(c, n, p)'
      BY <1>0, <2>2, HasKept DEF Has
    <3> QED
      BY <1>0, <2>2, <2>3, <2>7, <3>1, <3>2 DEF ReachesInv
  <2>8. CASE rec.sel = cfc[c].sel /\ m = n
    <3>1. q = p /\ rec.pods[q].addr = pod[p].addr /\ c \in DOMAIN rec.list /\ rec.list[c] = cfc[c].rules
      <4>1. rec.pods[q].node = n
        BY <2>1, <2>8
      <4> QED
        BY <2>2, <2>3, <2>8, <4>1, MakesItsRules
    <3>2. NodeRules(cfc[c].rules, rec.pods[q]) = NodeRules(cfc[c].rules, pod[p])
      BY <3>1, SameAddresses
    <3>3. NodeRules(cfc[c].rules, pod[p]) \subseteq rec'.work[n]
      BY <2>1, <2>5, <2>8, <3>1, <3>2
    <3>4. Has(c, n, p) => Has(c, n, p)'
      BY <1>0, <2>2, HasKept DEF Has
    <3> QED
      BY <1>0, <2>2, <2>3, <2>5, <2>6, <2>8, <3>3, <3>4 DEF ReachesInv
  <2>9. CASE rec.sel = cfc[c].sel /\ m # n
    <3>1. p # q \/ p \notin DOMAIN rec.pods
      <4>1. p \in DOMAIN rec.pods => rec.pods[p].node = n
        BY <2>2, <2>3, <2>9 DEF ListedInv, StillListed, Sole
      <4> QED
        BY <2>1, <2>9, <4>1
    <3> QED
      BY <1>0, <2>2, <2>3, <2>4, <2>5, <2>9, <3>1, ReachesKept
  <2> QED
    BY <2>7, <2>8, <2>9
<1>5. ASSUME NEW q \in Pods, UpdateSpecFails(q) \/ ReadFails(q) PROVE FALSE
  <2>1. "skipped" \in failed' \/ "read" \in failed'
    BY <1>5 DEF UpdateSpecFails, ReadFails, Fault
  <2> QED
    BY <2>1 DEF Retried
<1>6. ASSUME NEW q \in Pods, SkipPod(q) PROVE ReachesInv(c, n, p)'
  <2>1. /\ rec.pc = "build" /\ q \in DOMAIN rec.pods /\ rec'.pc = "build"
        /\ rec'.req = rec.req /\ rec'.sel = rec.sel
        /\ rec'.pods = Drop(rec.pods, q) /\ rec'.work = rec.work
        /\ UNCHANGED <<cfc, pod, nfc, writers, queue>>
    BY <1>6, SkipEffect DEF PodDone, RecIs
  <2>2. Sole(c, n, p) /\ ListedInv(c) /\ ReachesInv(c, n, p)
    BY <1>03, <2>1
  <2>3. p \in DOMAIN rec.pods /\ p # q => p \in DOMAIN rec'.pods
    <3>1. DOMAIN Drop(rec.pods, q) = DOMAIN rec.pods \ {q}
      BY <1>02, DropIs
    <3> QED
      BY <2>1, <3>1
  <2>4. CASE rec.sel # cfc[c].sel
    <3>1. rec.req # c
      BY <2>1, <2>2, <2>4 DEF ListedInv, Serving
    <3>2. Has(c, n, p) => Has(c, n, p)'
      BY <1>0, <2>1, HasKept DEF Has
    <3> QED
      BY <1>0, <2>1, <2>2, <2>4, <3>1, <3>2 DEF ReachesInv
  <2>5. CASE rec.sel = cfc[c].sel
    <3>1. rec.list # <<>>
      BY <2>1, <2>2, <2>5 DEF ListedInv
    <3>2. rec.pods[q].node = None
      BY <1>6, <3>1 DEF SkipPod
    <3>3. p \in DOMAIN rec.pods => rec.pods[p].node = n
      BY <2>1, <2>2, <2>5 DEF ListedInv, StillListed, Sole
    <3>4. p # q
      BY <2>1, <3>2, <3>3, RulesAssumption
    <3> QED
      BY <1>0, <2>1, <2>2, <2>3, <3>4, ReachesKept
  <2> QED
    BY <2>4, <2>5
<1>7. CASE BuildEnds
  <2>1. /\ rec.pc = "build" /\ rec'.pc = "write" /\ rec'.req = rec.req /\ rec'.sel = rec.sel
        /\ rec'.work = rec.work /\ rec.pods = <<>> /\ UNCHANGED <<cfc, pod, nfc, writers, queue>>
    BY <1>7, BuildEndsEffect DEF RecIs, BuildEnds
  <2>2. Sole(c, n, p) /\ ListedInv(c) /\ ReachesInv(c, n, p)
    BY <1>03, <2>1
  <2>3. Has(c, n, p) => Has(c, n, p)'
    BY <1>0, <2>1, HasKept DEF Has
  <2>4. rec.sel = cfc[c].sel => rec.work[n] # None
    BY <2>1, <2>2 DEF ReachesInv
  <2>5. rec.req = c => rec.sel = cfc[c].sel
    BY <2>1, <2>2 DEF ListedInv, Serving
  <2> QED
    BY <1>0, <2>1, <2>2, <2>3, <2>4, <2>5 DEF ReachesInv
<1>8. ASSUME NEW m \in Nodes, WriteConflict(m) \/ WriteFails(m) PROVE FALSE
  BY <1>8 DEF WriteConflict, WriteFails, Fault, Retried

<1>9. ASSUME NEW m \in Nodes, Write(m) PROVE ReachesInv(c, n, p)'
  <2>1. /\ rec.pc = "write" /\ rec'.pc = "write" /\ rec'.req = rec.req /\ rec'.sel = rec.sel
        /\ rec.work[m] # None /\ rec'.work = [rec.work EXCEPT ![m] = None]
        /\ UNCHANGED <<cfc, pod, queue>>
    BY <1>9, WriteEffect DEF RecIs
  <2>2. nfc' = [nfc EXCEPT ![m] = rec.work[m]] /\ writers' = [writers EXCEPT ![m] = writers[m] \cup {rec.sel}]
    BY <1>9 DEF Write, Put
  <2>3. writers \in [Nodes -> SUBSET Selector]
    BY DEF TypeInv, RecordsOK
  <2>4. Sole(c, n, p) /\ ListedInv(c) /\ ReachesInv(c, n, p)
    BY <1>03, <2>1
  <2>5. CASE m # n
    <3>1. nfc'[n] = nfc[n] /\ writers'[n] = writers[n] /\ rec'.work[n] = rec.work[n]
      BY <1>02, <2>1, <2>2, <2>3, <2>5 DEF NodeFlowConfigs, Works
    <3> QED
      BY <1>0, <2>1, <2>4, <3>1, ReachesKept
  <2>6. CASE m = n
    <3>1. nfc'[n] = rec.work[n] /\ writers'[n] = writers[n] \cup {rec.sel} /\ rec'.work[n] = None
      BY <1>02, <2>1, <2>2, <2>3, <2>6 DEF NodeFlowConfigs, Works
    <3>2. CASE rec.sel = cfc[c].sel
      <4>1. NodeRules(cfc[c].rules, pod[p]) \subseteq nfc'[n]
        BY <2>1, <2>4, <2>6, <3>1, <3>2 DEF ReachesInv
      <4>2. OwnRules(c)' = OwnRules(c) /\ OwnRules(c) \subseteq cfc[c].rules
        BY <1>0 DEF OwnRules
      <4>3. NodeRules(OwnRules(c), pod[p]) \subseteq NodeRules(cfc[c].rules, pod[p])
        BY <4>2 DEF NodeRules
      <4>4. Has(c, n, p)'
        BY <1>0, <2>1, <2>6, <3>1, <3>2, <4>1, <4>2, <4>3 DEF Has
      <4> QED
        BY <2>1, <3>1, <4>4 DEF ReachesInv
    <3>3. CASE rec.sel # cfc[c].sel
      <4>1. rec.req # c
        BY <2>1, <2>4, <3>3 DEF ListedInv, Serving
      <4>2. (\E s, t \in writers[n] : s # t) \/ cfc[c].sel \in writers[n]
        BY <2>1, <2>4, <4>1 DEF ReachesInv, Has
      <4>3. \E s, t \in writers'[n] : s # t
        BY <3>1, <3>3, <4>2
      <4> QED
        BY <1>0, <2>1, <3>3, <4>3 DEF ReachesInv
    <3> QED
      BY <3>2, <3>3
  <2> QED
    BY <2>5, <2>6
<1>10. ASSUME rec.pc = "clean", Sole(c, n, p), ListedInv(c) PROVE rec.req # c
  BY <1>10 DEF ListedInv, Sole
<1>11. ASSUME NEW m \in Nodes, CleanFails(m) \/ CleanUnseen(m) PROVE FALSE
  BY <1>11 DEF CleanFails, CleanUnseen, Fault, Retried
<1>12. ASSUME NEW m \in Nodes, Clean(m) PROVE ReachesInv(c, n, p)'
  <2>1. /\ rec.pc = "clean" /\ rec'.pc = "clean" /\ rec'.req = rec.req /\ rec'.sel = rec.sel
        /\ rec'.work = rec.work /\ UNCHANGED <<cfc, pod, queue, writers>>
    BY <1>12, CleanEffect DEF RecIs
  <2>2. nfc' = [nfc EXCEPT ![m] = IF nfc[m] = None THEN None ELSE nfc[m] \ hashMap[rec.req][m]]
    BY <1>12 DEF Clean, Put
  <2>3. Sole(c, n, p) /\ ListedInv(c) /\ ReachesInv(c, n, p)
    BY <1>03, <2>1
  <2>4. rec.req # c /\ rec.req \in Configs
    BY <1>10, <2>1, <2>3 DEF TypeInv, StepsOK
  <2>5. CASE m # n
    <3>1. nfc'[n] = nfc[n]
      BY <1>02, <2>2, <2>5 DEF NodeFlowConfigs
    <3> QED
      BY <1>0, <2>1, <2>3, <3>1, ReachesKept
  <2>6. CASE m = n /\ Has(c, n, p)
    <3>1. nfc'[n] = nfc[n] \ hashMap[rec.req][n] /\ nfc[n] \in SUBSET NodeRule
      BY <1>02, <2>2, <2>6 DEF NodeFlowConfigs, Has
    <3>2. nfc'[n] # None
      <4>1. nfc'[n] \in SUBSET NodeRule
        BY <3>1
      <4> QED
        BY <4>1, RulesAssumption
    <3>3. ASSUME NEW x \in NodeRules(OwnRules(c), pod[p]), x \in hashMap[rec.req][n] PROVE FALSE
      <4>1. x.rule \in OwnRules(c)
        BY RuleOfMade
      <4>2. Used(rec.req, x.rule)
        BY <1>0, <2>4, <3>3 DEF OriginInv
      <4> QED
        BY <2>4, <4>1, <4>2 DEF OwnRules, Used
    <3>4. NodeRules(OwnRules(c), pod[p]) \subseteq nfc'[n]
      BY <2>6, <3>1, <3>3 DEF Has
    <3>5. OwnRules(c)' = OwnRules(c)
      BY <1>0 DEF OwnRules
    <3>6. Has(c, n, p)'
      BY <1>0, <2>1, <2>6, <3>2, <3>4, <3>5 DEF Has
    <3> QED
      BY <2>1, <3>6 DEF ReachesInv
  <2>7. CASE \E s, t \in writers[n] : s # t
    BY <2>1, <2>7 DEF ReachesInv
  <2> QED
    BY <2>1, <2>3, <2>4, <2>5, <2>6, <2>7 DEF ReachesInv
<1>13. CASE \/ ListFails \/ (\E m \in Nodes : CleanConflict(m)) \/ WriteEnds \/ CleanEnds
  <2>1. rec'.pc = "idle" /\ rec.pc # "idle" /\ UNCHANGED <<pod, nfc, writers>>
    BY <1>01, <1>13, RetryEffect, EndEffect
  <2>2. Sole(c, n, p) /\ ListedInv(c) /\ ReachesInv(c, n, p)
    BY <1>03, <2>1
  <2>3. rec.req = c => rec.pc = "write" /\ rec.work[n] = None
    <3>1. CASE ListFails \/ \E m \in Nodes : CleanConflict(m)
      BY <3>1, RetryEffect
    <3>2. CASE WriteEnds
      BY <3>2 DEF WriteEnds, NoEntry
    <3>3. CASE CleanEnds
      BY <1>10, <2>2, <3>3 DEF CleanEnds
    <3> QED
      BY <1>13, <3>1, <3>2, <3>3
  <2>4. (\E s, t \in writers[n] : s # t) \/ Has(c, n, p)
    BY <2>2, <2>3 DEF ReachesInv
  <2>5. Has(c, n, p) => Has(c, n, p)'
    BY <1>0, <2>1, HasKept DEF Has
  <2> QED
    BY <2>1, <2>4, <2>5 DEF ReachesInv
<1>14. CASE Restart
  BY <1>14, RestartEffect DEF Retried
<1>15. ASSUME NEW m \in Nodes, NEW u \in UserRules, WriteNodeRule(m, u) PROVE ReachesInv(c, n, p)'
  <2>1. /\ rec'.pc = rec.pc /\ rec'.req = rec.req /\ rec'.sel = rec.sel /\ rec'.pods = rec.pods
        /\ rec'.work = rec.work /\ nfc[m] # None /\ nfc' = [nfc EXCEPT ![m] = nfc[m] \cup {u}]
        /\ UNCHANGED <<pod, queue, writers>>
    BY <1>15, NodeRuleEffect DEF RecIs
  <2>2. Sole(c, n, p) /\ ReachesInv(c, n, p)
    BY <1>03, <2>1
  <2>3. nfc[n] # None => nfc[n] \subseteq nfc'[n]
    BY <1>02, <2>1 DEF NodeFlowConfigs
  <2>4. nfc[n] # None => nfc'[n] # None
    <3>1. nfc[m] \cup {u} \in SUBSET NodeRule
      BY <1>02, <2>1 DEF NodeFlowConfigs, NodeRule
    <3>2. nfc[m] \cup {u} # None
      BY <3>1, RulesAssumption
    <3> QED
      BY <1>02, <2>1, <3>2 DEF NodeFlowConfigs
  <2> QED
    BY <1>0, <2>1, <2>2, <2>3, <2>4, ReachesKept
<1>16. CASE EventStep
  <2>1. c \notin queue /\ UNCHANGED <<rec, nfc, writers>>
    BY <1>16, EventEffect
  <2>2. Sole(c, n, p) /\ pod'[p].addr = pod[p].addr
    BY <1>0, <1>16, SoleBefore
  <2> QED
    BY <1>0, <2>1, <2>2, ReachesKept
<1>17. CASE QuietStep
  <2>1. UNCHANGED <<cfc, pod, nfc, writers, queue, rec>>
    BY <1>17 DEF QuietStep
  <2>2. Sole(c, n, p) /\ ReachesInv(c, n, p)
    BY <1>03, <2>1
  <2> QED
    BY <1>0, <2>1, <2>2, ReachesKept
<1> QED
  BY <1>1, <1>2, <1>3, <1>4, <1>5, <1>6, <1>7, <1>8, <1>9, <1>11, <1>12, <1>13, <1>14, <1>15, <1>16, <1>17, Quiet
  DEF ClusterNext, ReconcileStep, FailureStep, EditStep, InformerStep, EventStep

\* The controller starts with a request for every object.
LEMMA RestInit == ASSUME ClusterInit PROVE RestInv
<1>1. \A c \in Configs : cfc[c] # None => c \in queue
  BY TypeInit DEF ClusterInit, There, TypeInv, RecordsOK
<1> QED
  BY <1>1 DEF RestInv

\* Every step keeps the invariant.
LEMMA RestStep ==
  ASSUME TypeInv, TypeInv', OriginInv, RestInv, [ClusterNext]_clusterVars
  PROVE  RestInv'
BY ListedStep, ReachesStep DEF RestInv

-----------------------------------------------------------------------------
(* What rests is reflected: the theorem *)

WritersFinite == \A n \in Nodes : IsFiniteSet(writers[n])

\* A node is written for one selector after the other.
LEMMA WritersStep == ASSUME TypeInv, WritersFinite, [ClusterNext]_clusterVars PROVE WritersFinite'
<1>1. ASSUME NEW n \in Nodes, Write(n) PROVE WritersFinite'
  <2>1. writers' = [writers EXCEPT ![n] = writers[n] \cup {rec.sel}] /\ writers \in [Nodes -> SUBSET Selector]
    BY <1>1 DEF Write, TypeInv, RecordsOK
  <2>2. IsFiniteSet(writers[n] \cup {rec.sel})
    BY FS_AddElement DEF WritersFinite
  <2> QED
    BY <2>1, <2>2 DEF WritersFinite
<1>2. ASSUME writers' = writers PROVE WritersFinite'
  BY <1>2 DEF WritersFinite
<1>3. ASSUME NEW p \in Pods, UpdateSpec(p) \/ UpdateSpecFails(p) \/ SkipPod(p) \/ ReadFails(p)
      PROVE  writers' = writers
  BY <1>3 DEF UpdateSpec, UpdateSpecFails, SkipPod, ReadFails
<1>4. ASSUME NEW n \in Nodes,
             WriteConflict(n) \/ WriteFails(n) \/ Clean(n) \/ CleanUnseen(n)
               \/ CleanFails(n) \/ CleanConflict(n)
      PROVE  writers' = writers
  BY <1>4 DEF WriteConflict, WriteFails, Clean, CleanUnseen, CleanFails, CleanConflict
<1>5. ASSUME NEW c \in Configs, ReconcileGet(c) PROVE writers' = writers
  BY <1>5 DEF ReconcileGet
<1>6. CASE ListPods \/ ListConfigs \/ BuildEnds \/ WriteEnds \/ CleanEnds \/ ListFails \/ Restart
  BY <1>2, <1>6 DEF ListPods, ListConfigs, BuildEnds, WriteEnds, CleanEnds, ListFails, Restart
<1>7. ASSUME NEW n \in Nodes, NEW u \in UserRules, WriteNodeRule(n, u) PROVE writers' = writers
  BY <1>7 DEF WriteNodeRule
<1>8. CASE EventStep
  BY <1>2, <1>8, EventEffect
<1>9. CASE QuietStep
  BY <1>2, <1>9 DEF QuietStep
<1> QED
  BY <1>1, <1>2, <1>3, <1>4, <1>5, <1>6, <1>7, <1>8, <1>9, Quiet
  DEF ClusterNext, ReconcileStep, FailureStep, EditStep, InformerStep, EventStep

\* A set with at most one member has no two.
LEMMA AtMostOne ==
  ASSUME NEW S, IsFiniteSet(S), Cardinality(S) <= 1, NEW s \in S, NEW t \in S
  PROVE  s = t
<1>1. SUFFICES ASSUME s # t PROVE FALSE
  OBVIOUS
<1>2. IsFiniteSet({s}) /\ Cardinality({s}) = 1
  BY FS_Singleton
<1>3. Cardinality({s} \cup {t}) = 2
  <2>1. t \notin {s}
    BY <1>1
  <2>2. Cardinality({s} \cup {t}) = IF t \in {s} THEN Cardinality({s}) ELSE Cardinality({s}) + 1
    BY <1>2, FS_AddElement
  <2> QED
    BY <1>2, <2>1, <2>2
<1>4. {s} \cup {t} \in SUBSET S
  OBVIOUS
<1>5. Cardinality({s} \cup {t}) <= Cardinality(S) /\ Cardinality(S) \in Nat
  BY <1>4, FS_Subset, FS_CardinalityType
<1> QED
  BY <1>3, <1>5

\* When the controller has come to rest, the node of every pod that is alone there
\* has the rules of all objects that select it, however objects, pods and nodes
\* changed in the middle of a Reconcile and however often it was tried again: no
\* event that matters is dropped and no stale list is the last word, but for new
\* labels of pods that do not run, and copies that the cache was behind with.
THEOREM RestIsReflected == ClusterSpec => []RestMeansReflected
<1> DEFINE Inv == TypeInv /\ OriginInv /\ WritersFinite /\ RestInv
<1>1. ClusterInit => Inv
  <2>1. ClusterInit => WritersFinite
    BY FS_EmptySet DEF ClusterInit, WritersFinite
  <2> QED
    BY <2>1, TypeInit, OriginInit, RestInit
<1>2. Inv /\ [ClusterNext]_clusterVars => Inv'
  BY TypeStep, OriginStep, WritersStep, RestStep
<1>3. Inv => RestMeansReflected
  <2>1. SUFFICES ASSUME Inv, failed \subseteq Retried, rec = Idle, queue = {},
                        \A n \in Nodes : Cardinality(writers[n]) <= 1,
                        NEW n \in Nodes, NEW p \in Pods, OnlyPod(n, p),
                        NEW c \in There(cfc), SelectorMatches(cfc[c].sel, pod[p])
                 PROVE  nfc[n] # None /\ NodeRules(OwnRules(c), pod[p]) \subseteq nfc[n]
    BY DEF RestMeansReflected, Reflected
  <2>2. c \in Configs /\ cfc[c] # None /\ DOMAIN pod = Pods
    BY <2>1 DEF There, TypeInv, RecordsOK
  <2>3. pod[p] # None /\ pod[p].node = n /\ pod[p].phase = "Running"
    BY <2>1 DEF OnlyPod
  <2>4. ASSUME NEW q \in Pods \ {p}, Selects(c, q), pod[q].node = n PROVE FALSE
    BY <2>1, <2>2, <2>4 DEF OnlyPod, Selects, There
  <2>5. Sole(c, n, p)
    BY <2>1, <2>3, <2>4 DEF Sole, Selects
  <2>6. ReachesInv(c, n, p) /\ rec.pc = "idle"
    BY <2>1, <2>2, <2>5, IdleIs DEF RestInv, RecIs
  <2>7. ~\E s, t \in writers[n] : s # t
    BY <2>1, AtMostOne DEF WritersFinite
  <2> QED
    BY <2>6, <2>7 DEF ReachesInv, Has
<1> QED
  BY <1>1, <1>2, <1>3, PTL DEF ClusterSpec
=============================================================================
