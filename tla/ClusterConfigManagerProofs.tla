---------------------- MODULE ClusterConfigManagerProofs ----------------------
(***************************************************************************)
(* Theorems about ClusterConfigManager: what Reconcile writes for a device *)
(* is the config in force for it, in whatever order it meets the configs,  *)
(* and a Reconcile that nothing disturbed leaves every node with the       *)
(* configs in force.                                                       *)
(***************************************************************************)
EXTENDS ClusterConfigManager, FiniteSetTheorems, TLAPS

\* An EthernetClusterConfig that exists.
Existing == [exists : {TRUE}, spec : Specs, created : Nat]

-----------------------------------------------------------------------------
(* The loop of prepareDeviceConfigContext *)

\* One round of the loop, with the config that the rounds before have left.
Round1(d, current, previous) ==
  IF /\ Matches(current.spec.devices, d)
     /\ previous = NoConfig \/ Overrides(current, previous)
  THEN current ELSE previous

\* What the first k rounds leave, one after the other.
Rounds(f, k, d, configs) ==
  f = [i \in 0 .. k |-> IF i = 0 THEN NoConfig ELSE Round1(d, configs[i], f[i - 1])]

\* A set of naturals that has a member has a least one.
LEMMA LeastNat ==
  ASSUME NEW T \in SUBSET Nat, T # {}
  PROVE  \E m \in T : \A k \in T : m <= k
<1>1. PICK m \in T : \A k \in T : ~(<<k, m>> \in OpToRel(<, Nat))
  BY WFMin, NatLessThanWellFounded
<1>2. ASSUME NEW k \in T
      PROVE  m <= k
  <2>1. m \in Nat /\ k \in Nat
    OBVIOUS
  <2>2. ~(k < m)
    BY <1>1, <2>1 DEF OpToRel
  <2> QED
    BY <2>1, <2>2
<1> QED
  BY <1>2

\* The rounds can be made, however long the list is.
LEMMA RoundsExist ==
  ASSUME NEW d, NEW configs, NEW N \in Nat
  PROVE  \E f : Rounds(f, N, d, configs)
<1> DEFINE T == {k \in Nat : ~\E f : Rounds(f, k, d, configs)}
<1>1. SUFFICES ASSUME T # {}
               PROVE  FALSE
  OBVIOUS
<1>2. PICK m \in T : \A k \in T : m <= k
  BY <1>1, LeastNat
<1>3. CASE m = 0
  <2> DEFINE g == [i \in 0 .. 0 |-> NoConfig]
  <2>1. g = [i \in 0 .. 0 |-> IF i = 0 THEN NoConfig ELSE Round1(d, configs[i], g[i - 1])]
    OBVIOUS
  <2>2. Rounds(g, 0, d, configs)
    BY <2>1 DEF Rounds
  <2> QED
    BY <1>2, <1>3, <2>2
<1>4. CASE m # 0
  <2>1. m \in Nat /\ m - 1 \in Nat /\ m - 1 \notin T
    BY <1>2, <1>4
  <2>2. PICK f : Rounds(f, m - 1, d, configs)
    BY <2>1
  <2> DEFINE g == [i \in 0 .. m |-> IF i = m THEN Round1(d, configs[m], f[m - 1]) ELSE f[i]]
  <2>3. ASSUME NEW i \in 0 .. m
        PROVE  g[i] = IF i = 0 THEN NoConfig ELSE Round1(d, configs[i], g[i - 1])
    <3>1. CASE i = m
      <4>1. g[i] = Round1(d, configs[m], f[m - 1])
        BY <3>1
      <4>2. m - 1 \in 0 .. m /\ m - 1 # m
        BY <2>1
      <4>3. g[m - 1] = f[m - 1]
        BY <4>2
      <4> QED
        BY <4>1, <4>3, <3>1, <1>4
    <3>2. CASE i # m
      <4>1. i \in 0 .. m - 1
        BY <3>2, <2>1
      <4>2. g[i] = f[i]
        BY <3>2
      <4>3. f[i] = IF i = 0 THEN NoConfig ELSE Round1(d, configs[i], f[i - 1])
        BY <2>2, <4>1 DEF Rounds
      <4>4. i # 0 => i - 1 \in 0 .. m /\ i - 1 # m
        BY <4>1, <2>1
      <4>5. i # 0 => g[i - 1] = f[i - 1]
        BY <4>4
      <4> QED
        BY <4>2, <4>3, <4>5
    <3> QED
      BY <3>1, <3>2
  <2>4. Rounds(g, m, d, configs)
    <3> HIDE DEF g
    <3>1. g = [i \in 0 .. m |-> g[i]]
      BY DEF g
    <3> QED
      BY <3>1, <2>3 DEF Rounds
  <2> QED
    BY <1>2, <2>4
<1> QED
  BY <1>3, <1>4

\* prepareDeviceConfigContext gives what the last round leaves.
LEMMA ContextIsLast ==
  ASSUME NEW d, NEW configs, Len(configs) \in Nat
  PROVE  \E f : /\ Rounds(f, Len(configs), d, configs)
                /\ prepareDeviceConfigContext(d, configs) = f[Len(configs)]
<1> DEFINE left == CHOOSE f : Rounds(f, Len(configs), d, configs)
<1>1. Rounds(left, Len(configs), d, configs)
  BY RoundsExist
<1>2. prepareDeviceConfigContext(d, configs) = left[Len(configs)]
  BY DEF prepareDeviceConfigContext, Rounds, Round1
<1> QED
  BY <1>1, <1>2

\* c is at least as much in force as o: of higher priority or, with the same
\* priority, not older.
Beats(c, o) ==
  \/ c.spec.priority > o.spec.priority
  \/ c.spec.priority = o.spec.priority /\ c.created >= o.created

\* What k rounds leave: nothing where no config so far matches the device, else
\* one of those that match, which beats all the others.
Leads(left, k, d, configs) ==
  \/ /\ left = NoConfig
     /\ \A j \in 1 .. k : ~Matches(configs[j].spec.devices, d)
  \/ \E i \in 1 .. k :
       /\ left = configs[i]
       /\ Matches(configs[i].spec.devices, d)
       /\ \A j \in 1 .. k : Matches(configs[j].spec.devices, d) => Beats(configs[i], configs[j])

\* Configs are compared by numbers.
LEMMA BeatsIsOrder ==
  ASSUME NEW a \in Existing, NEW b \in Existing, NEW c \in Existing
  PROVE  /\ Beats(a, a)
         /\ Beats(a, b) /\ Beats(b, c) => Beats(a, c)
         /\ Overrides(a, b) => Beats(a, b)
         /\ ~Overrides(a, b) => Beats(b, a)
<1>1. \A x \in Existing : x.spec.priority \in Int /\ x.created \in Nat
  BY SpecsAssumption DEF Existing, ClusterSpec
<1> QED
  BY <1>1 DEF Beats, Overrides

\* Every round keeps the best config so far.
LEMMA RoundLeads ==
  ASSUME NEW d, NEW N \in Nat, NEW configs \in [1 .. N -> Existing],
         NEW f, Rounds(f, N, d, configs), NEW k \in 0 .. N
  PROVE  Leads(f[k], k, d, configs)
<1> DEFINE T == {k0 \in 0 .. N : ~Leads(f[k0], k0, d, configs)}
<1>1. SUFFICES ASSUME T # {}
               PROVE  FALSE
  OBVIOUS
<1>2. PICK m \in T : \A k0 \in T : m <= k0
  <2>1. T \in SUBSET Nat
    OBVIOUS
  <2> QED
    BY <1>1, <2>1, LeastNat
<1>3. m \in 0 .. N /\ ~Leads(f[m], m, d, configs)
  OBVIOUS
<1>4. m # 0
  <2>1. f[0] = NoConfig
    BY DEF Rounds
  <2>2. Leads(f[0], 0, d, configs)
    BY <2>1 DEF Leads
  <2> QED
    BY <1>3, <2>2
<1>5. m - 1 \in 0 .. N /\ m \in 1 .. N /\ m - 1 \notin T
  BY <1>2, <1>3, <1>4
<1>6. Leads(f[m - 1], m - 1, d, configs)
  BY <1>5
<1> DEFINE current == configs[m]
           previous == f[m - 1]
<1> HIDE DEF T
<1>7. f[m] = Round1(d, current, previous)
  BY <1>3, <1>4 DEF Rounds
<1>8. \A j \in 1 .. m : j \in 1 .. m - 1 \/ j = m
  BY <1>5
<1>9. \A j \in 1 .. m : configs[j] \in Existing
  BY <1>5
<1>10. \A j \in 1 .. m : configs[j] # NoConfig
  <2>1. \A c \in Existing : c.exists # NoConfig.exists
    BY DEF Existing, NoConfig
  <2> QED
    BY <1>9, <2>1
<1>11. 1 .. m - 1 \subseteq 1 .. m /\ m \in 1 .. m
  BY <1>5
<1>12. CASE ~Matches(current.spec.devices, d)
  <2>1. f[m] = previous
    BY <1>7, <1>12 DEF Round1
  <2>2. Leads(previous, m, d, configs)
    BY <1>6, <1>8, <1>11, <1>12 DEF Leads
  <2> QED
    BY <1>3, <2>1, <2>2
<1>13. CASE Matches(current.spec.devices, d) /\ previous = NoConfig
  <2>1. f[m] = current
    BY <1>7, <1>13 DEF Round1
  <2>2. \A j \in 1 .. m - 1 : ~Matches(configs[j].spec.devices, d)
    BY <1>6, <1>10, <1>11, <1>13 DEF Leads
  <2>3. Beats(current, current)
    BY <1>9, <1>11, BeatsIsOrder
  <2>4. \A j \in 1 .. m : Matches(configs[j].spec.devices, d) => Beats(current, configs[j])
    BY <2>2, <2>3, <1>8
  <2>5. Leads(current, m, d, configs)
    BY <2>4, <1>11, <1>13 DEF Leads
  <2> QED
    BY <1>3, <2>1, <2>5
<1>14. CASE Matches(current.spec.devices, d) /\ previous # NoConfig
  <2>1. PICK i \in 1 .. m - 1 :
          /\ previous = configs[i]
          /\ Matches(configs[i].spec.devices, d)
          /\ \A j \in 1 .. m - 1 :
               Matches(configs[j].spec.devices, d) => Beats(configs[i], configs[j])
    BY <1>6, <1>14 DEF Leads
  <2>2. previous \in Existing /\ current \in Existing
    BY <2>1, <1>9, <1>11
  <2>3. CASE Overrides(current, previous)
    <3>1. f[m] = current
      BY <1>7, <1>14, <2>3 DEF Round1
    <3>2. Beats(current, previous) /\ Beats(current, current)
      BY <2>2, <2>3, BeatsIsOrder
    <3>3. ASSUME NEW j \in 1 .. m, Matches(configs[j].spec.devices, d)
          PROVE  Beats(current, configs[j])
      <4>1. CASE j = m
        BY <3>2, <4>1
      <4>2. CASE j \in 1 .. m - 1
        <5>1. Beats(previous, configs[j]) /\ configs[j] \in Existing
          BY <2>1, <3>3, <4>2, <1>9
        <5> QED
          BY <5>1, <3>2, <2>2, BeatsIsOrder
      <4> QED
        BY <4>1, <4>2, <1>8
    <3>4. Leads(current, m, d, configs)
      BY <3>3, <1>11, <1>14 DEF Leads
    <3> QED
      BY <1>3, <3>1, <3>4
  <2>4. CASE ~Overrides(current, previous)
    <3>1. f[m] = previous
      BY <1>7, <1>14, <2>4 DEF Round1
    <3>2. Beats(previous, current)
      BY <2>2, <2>4, BeatsIsOrder
    <3>3. \A j \in 1 .. m : Matches(configs[j].spec.devices, d) => Beats(previous, configs[j])
      BY <3>2, <2>1, <1>8
    <3>4. Leads(previous, m, d, configs)
      BY <3>3, <2>1, <1>11 DEF Leads
    <3> QED
      BY <1>3, <3>1, <3>4
  <2> QED
    BY <2>3, <2>4
<1> QED
  BY <1>12, <1>13, <1>14

-----------------------------------------------------------------------------
(* The config in force *)

\* The order in which the configs are met does not matter: the loop leaves one
\* of the configs in force for the device, and nothing where there is none.
LEMMA ContextIsBest ==
  ASSUME NEW all \in [Configs -> {NoConfig} \cup Existing], NEW n \in Nodes, NEW d,
         NEW order \in Orders(matchConfigsForNode(n, all))
  PROVE  LET left == prepareDeviceConfigContext(d, [i \in DOMAIN order |-> all[order[i]]])
         IN \/ left = NoConfig /\ Best(n, d, all) = {}
            \/ \E c \in Best(n, d, all) : left = all[c] /\ all[c] \in Existing
<1> DEFINE M == matchConfigsForNode(n, all)
           N == Cardinality(M)
           configs == [i \in DOMAIN order |-> all[order[i]]]
           left == prepareDeviceConfigContext(d, configs)
<1>1. M \in SUBSET Configs
  BY DEF matchConfigsForNode
<1>2. \A c \in M : all[c] \in Existing
  <2>1. \A c \in M : all[c].exists /\ all[c] \in {NoConfig} \cup Existing
    BY DEF matchConfigsForNode
  <2>2. ~NoConfig.exists
    BY DEF NoConfig
  <2> QED
    BY <2>1, <2>2
<1>3. N \in Nat
  BY <1>1, FiniteAssumption, FS_Subset, FS_CardinalityType
<1>4. order \in [1 .. N -> M] /\ \A c \in M : \E i \in 1 .. N : order[i] = c
  BY DEF Orders, Bijection, Injection, Surjection
<1> HIDE DEF M, N
<1>5. configs \in [1 .. N -> Existing] /\ \A i \in 1 .. N : configs[i] = all[order[i]]
  BY <1>2, <1>4
<1> HIDE DEF configs
<1>6. Len(configs) = N
  BY <1>3, <1>5
<1>7. PICK f : Rounds(f, N, d, configs) /\ left = f[N]
  BY <1>3, <1>6, ContextIsLast
<1>8. Leads(left, N, d, configs)
  <2>1. N \in 0 .. N
    BY <1>3
  <2> QED
    BY <1>3, <1>5, <1>7, <2>1, RoundLeads
<1> DEFINE C == {c \in M : Matches(all[c].spec.devices, d)}
<1>9. Best(n, d, all) = {c \in C : \A o \in C : Beats(all[c], all[o])}
  BY DEF Best, Beats, M
<1>10. CASE left = NoConfig /\ \A j \in 1 .. N : ~Matches(configs[j].spec.devices, d)
  <2>1. C = {}
    BY <1>4, <1>5, <1>10
  <2> QED
    BY <1>9, <1>10, <2>1 DEF configs
<1>11. ASSUME NEW i \in 1 .. N,
              left = configs[i],
              Matches(configs[i].spec.devices, d),
              \A j \in 1 .. N : Matches(configs[j].spec.devices, d) => Beats(configs[i], configs[j])
       PROVE  \E c \in Best(n, d, all) : left = all[c] /\ all[c] \in Existing
  <2>1. order[i] \in C /\ left = all[order[i]] /\ all[order[i]] \in Existing
    BY <1>2, <1>4, <1>5, <1>11
  <2>2. \A o \in C : Beats(all[order[i]], all[o])
    BY <1>4, <1>5, <1>11
  <2> QED
    BY <1>9, <2>1, <2>2
<1> QED
  BY <1>8, <1>10, <1>11 DEF Leads, configs

-----------------------------------------------------------------------------
(* The type invariant *)

Object == [found : SUBSET Found, config : Seq(Entry), skip : BOOLEAN]
Stored == [Configs -> {NoConfig} \cup [exists : {TRUE}, spec : Specs, created : 1 .. now]]

\* No device is named twice.
Distinct(s) == \A i, j \in DOMAIN s : s[i].pci = s[j].pci => i = j

\* What is written of a node's devices is about devices of that node.
Own(n, e) == e.found \subseteq GetInventory(Bus[n]) /\ Distinct(e.config)

TypeInv ==
  /\ now \in Nat
  /\ ccs \in Stored /\ listed \in Stored
  /\ bus \in [Nodes -> SUBSET UNION {Bus[n] : n \in Nodes}]
  /\ \A n \in Nodes : bus[n] \subseteq Bus[n]
  /\ present \subseteq Nodes /\ todo \subseteq Nodes
  /\ enc \in [Nodes -> Object] /\ seen \in [Nodes -> Object]
  /\ \A n \in Nodes : Own(n, enc[n]) /\ Own(n, seen[n])
  /\ pc \in {"idle", "sync"}
  /\ pending \in BOOLEAN /\ skip \in BOOLEAN /\ clean \in BOOLEAN
  /\ edits \in Nat /\ budget \in Nat

\* It implies the type invariant that is model-checked.
LEMMA TypeInvIsType == TypeInv => ManagerTypeOK
<1> SUFFICES ASSUME TypeInv
             PROVE  ManagerTypeOK
  OBVIOUS
<1>1. ASSUME NEW n \in Nodes, NEW e \in {enc[n], seen[n]}
      PROVE  /\ e.skip \in BOOLEAN
             /\ e.found \subseteq GetInventory(Bus[n])
             /\ Range(e.config) \subseteq Entry
             /\ \A i, j \in DOMAIN e.config : e.config[i].pci = e.config[j].pci => i = j
  <2>1. e \in Object /\ Own(n, e)
    BY <1>1 DEF TypeInv
  <2>2. e.config \in Seq(Entry) /\ e.skip \in BOOLEAN
    BY <2>1 DEF Object
  <2>3. Range(e.config) \subseteq Entry
    BY <2>2 DEF Range
  <2> QED
    BY <2>1, <2>2, <2>3 DEF Own, Distinct
<1> QED
  BY <1>1 DEF TypeInv, ManagerTypeOK, Stored

\* The configs a type-correct manager holds have numbers to compare.
LEMMA StoredExisting ==
  ASSUME now \in Nat, NEW all \in Stored
  PROVE  all \in [Configs -> {NoConfig} \cup Existing]
<1>1. 1 .. now \subseteq Nat
  OBVIOUS
<1> QED
  BY <1>1 DEF Stored, Existing

\* A node has finitely many devices, with an address each.
LEMMA InventoryIsFinite ==
  ASSUME NEW n \in Nodes
  PROVE  /\ IsFiniteSet(GetInventory(Bus[n]))
         /\ GetInventory(Bus[n]) \subseteq Found
         /\ \A d, e \in GetInventory(Bus[n]) : d.pci = e.pci => d = e
<1> DEFINE S == {e \in Bus[n] : isDeviceSupported(e)}
           Reported(d) == [vendor |-> d.vendor, pci |-> d.pci, id |-> d.id]
           I == {Reported(d) : d \in S}
           g == [d \in S |-> Reported(d)]
<1>1. GetInventory(Bus[n]) = I
  BY DEF GetInventory
<1>2. IsFiniteSet(S)
  <2>1. S \in SUBSET Bus[n]
    OBVIOUS
  <2> QED
    BY <2>1, FiniteAssumption, FS_Subset
<1>3. g \in Surjection(S, I)
  BY DEF Surjection
<1>4. IsFiniteSet(I)
  <2> HIDE DEF S, I, g
  <2> QED
    BY <1>2, <1>3, FS_Surjection
<1>5. I \subseteq Found
  BY <1>1 DEF Found
<1>6. ASSUME NEW d \in I, NEW e \in I, d.pci = e.pci
      PROVE  d = e
  <2>1. PICK x \in S : d = Reported(x)
    OBVIOUS
  <2>2. PICK y \in S : e = Reported(y)
    OBVIOUS
  <2>3. x.pci = y.pci
    BY <1>6, <2>1, <2>2
  <2>4. x = y
    BY <2>3, AddressAssumption
  <2> QED
    BY <2>1, <2>2, <2>4
<1> QED
  BY <1>1, <1>4, <1>5, <1>6

-----------------------------------------------------------------------------
(* The spec that is computed for a node *)

\* The entry of device d is the config in force for it, if there is one.
Given(n, d, config) ==
  LET mine == {e \in Range(config) : e.pci = d.pci}
  IN IF Best(n, d, listed) = {} THEN mine = {}
     ELSE \E c \in Best(n, d, listed) :
            mine = {[pci |-> d.pci, config |-> listed[c].spec.config]}

\* The new spec names every device once, with the config in force for it.
LEMMA NewSpec ==
  ASSUME TypeInv, NEW n \in Nodes, NEW new \in NewSpecs(n)
  PROVE  /\ new.config \in Seq(Entry) /\ Distinct(new.config)
         /\ new.skip = (skip /\ new.config # <<>>)
         /\ \A d \in seen[n].found : Given(n, d, new.config)
<1> DEFINE F == seen[n].found
           Configs1(order) == [i \in DOMAIN order |-> listed[order[i]]]
           Ctx(order) == [d \in F |-> prepareDeviceConfigContext(d, Configs1(order))]
           Dev(order) == {d \in F : Ctx(order)[d].exists}
           Ent(order) == {[pci |-> d.pci, config |-> Ctx(order)[d].spec.config] : d \in Dev(order)}
<1>0. PICK order \in Orders(matchConfigsForNode(n, listed)) :
        \E s \in Orders(Ent(order)) : new = [config |-> s, skip |-> skip /\ s # <<>>]
  BY DEF NewSpecs
<1>1. PICK s \in Orders(Ent(order)) : new = [config |-> s, skip |-> skip /\ s # <<>>]
  BY <1>0
<1> DEFINE left == Ctx(order)
           D == Dev(order)
           E == Ent(order)
<1>2. listed \in [Configs -> {NoConfig} \cup Existing]
  BY StoredExisting DEF TypeInv
<1>3. ASSUME NEW d \in F
      PROVE  \/ left[d] = NoConfig /\ Best(n, d, listed) = {}
             \/ \E c \in Best(n, d, listed) : left[d] = listed[c] /\ listed[c] \in Existing
  BY <1>2, ContextIsBest
<1>4. F \subseteq GetInventory(Bus[n])
  BY DEF TypeInv, Own
<1>5. \A d, e \in F : d.pci = e.pci => d = e
  BY <1>4, InventoryIsFinite
<1>6. D \in SUBSET F /\ E = {[pci |-> d.pci, config |-> left[d].spec.config] : d \in D}
  OBVIOUS
<1>7. \A d \in F : d \in D <=> Best(n, d, listed) # {}
  <2>1. ~NoConfig.exists /\ \A c \in Existing : c.exists
    BY DEF NoConfig, Existing
  <2> QED
    BY <1>3, <2>1
<1>8. IsFiniteSet(E)
  <2>1. IsFiniteSet(F)
    BY <1>4, InventoryIsFinite, FS_Subset
  <2>2. IsFiniteSet(D)
    BY <1>6, <2>1, FS_Subset
  <2> DEFINE g == [d \in D |-> [pci |-> d.pci, config |-> left[d].spec.config]]
  <2> HIDE DEF D, left
  <2>3. g \in Surjection(D, E)
    BY <1>6 DEF Surjection
  <2> HIDE DEF E, g
  <2> QED
    BY <2>2, <2>3, FS_Surjection
<1> HIDE DEF D, E, left
<1>9. E \subseteq Entry
  <2> SUFFICES ASSUME NEW d \in D
               PROVE  [pci |-> d.pci, config |-> left[d].spec.config] \in Entry
    BY <1>6
  <2>1. d \in Found
    BY <1>4, <1>6, InventoryIsFinite
  <2>2. d.pci \in Pcis
    BY <2>1 DEF Pcis
  <2>3. left[d] \in Existing
    BY <1>3, <1>6, <1>7
  <2>4. left[d].spec.config \in DeviceConfig
    BY <2>3, SpecsAssumption DEF Existing, ClusterSpec
  <2> QED
    BY <2>2, <2>4 DEF Entry
<1> DEFINE N == Cardinality(E)
<1>10. N \in Nat
  BY <1>8, FS_CardinalityType
<1>11. /\ s \in [1 .. N -> E]
       /\ \A e \in E : \E i \in 1 .. N : s[i] = e
       /\ \A i, j \in 1 .. N : s[i] = s[j] => i = j
  BY DEF Orders, Bijection, Injection, Surjection, IsInjective, E
<1> HIDE DEF N
<1>12. s \in Seq(Entry) /\ Range(s) = E
  BY <1>9, <1>10, <1>11 DEF Range
<1>13. \A e, o \in E : e.pci = o.pci => e = o
  BY <1>5, <1>6
<1>14. Distinct(s)
  BY <1>11, <1>13 DEF Distinct
<1>15. ASSUME NEW d \in F
       PROVE  Given(n, d, s)
  <2> DEFINE mine == {e \in E : e.pci = d.pci}
  <2>1. CASE Best(n, d, listed) = {}
    <3>1. d \notin D
      BY <1>7, <2>1
    <3>2. mine = {}
      BY <1>5, <1>6, <3>1
    <3> QED
      BY <1>12, <2>1, <3>2 DEF Given
  <2>2. CASE Best(n, d, listed) # {}
    <3>1. d \in D
      BY <1>7, <2>2
    <3>2. PICK c \in Best(n, d, listed) : left[d] = listed[c]
      BY <1>3, <2>2
    <3>3. mine = {[pci |-> d.pci, config |-> left[d].spec.config]}
      BY <1>5, <1>6, <3>1
    <3>4. mine = {[pci |-> d.pci, config |-> listed[c].spec.config]}
      BY <3>2, <3>3
    <3> QED
      BY <1>12, <2>2, <3>4 DEF Given
  <2> QED
    BY <2>1, <2>2
<1>16. new.config = s /\ new.skip = (skip /\ s # <<>>)
  BY <1>1
<1> QED
  BY <1>12, <1>14, <1>15, <1>16

-----------------------------------------------------------------------------
(* Types are kept *)

\* Initially there is nothing.
LEMMA TypeInit == ManagerInit => TypeInv
<1> SUFFICES ASSUME ManagerInit
             PROVE  TypeInv
  OBVIOUS
<1>1. NoNodeConfig \in Object
  BY DEF NoNodeConfig, Object
<1>2. \A n \in Nodes : Own(n, NoNodeConfig)
  BY DEF NoNodeConfig, Own, Distinct
<1>3. enc \in [Nodes -> Object] /\ seen = enc /\ \A n \in Nodes : enc[n] = NoNodeConfig
  BY <1>1 DEF ManagerInit
<1>4. Bus = bus /\ bus \in [Nodes -> SUBSET UNION {Bus[n] : n \in Nodes}]
  BY BusAssumption DEF ManagerInit
<1>5. ccs \in Stored /\ listed \in Stored
  BY DEF ManagerInit, Stored
<1> QED
  BY <1>2, <1>3, <1>4, <1>5, ManagerBounds DEF ManagerInit, TypeInv

\* The object of one node is replaced, in the API server and perhaps in the cache.
LEMMA WriteKeeps ==
  ASSUME TypeInv, NEW n \in Nodes, NEW object \in Object, Own(n, object), Write(n, object)
  PROVE  /\ enc' \in [Nodes -> Object] /\ seen' \in [Nodes -> Object]
         /\ \A m \in Nodes : Own(m, enc'[m]) /\ Own(m, seen'[m])
         /\ enc'[n] = object
         /\ \A m \in Nodes \ {n} : enc'[m] = enc[m]
<1>1. /\ enc' = [enc EXCEPT ![n] = object]
      /\ seen' = seen \/ seen' = [seen EXCEPT ![n] = object]
  BY DEF Write
<1>2. /\ enc \in [Nodes -> Object] /\ seen \in [Nodes -> Object]
      /\ \A m \in Nodes : Own(m, enc[m]) /\ Own(m, seen[m])
  BY DEF TypeInv
<1>3. enc' \in [Nodes -> Object] /\ seen' \in [Nodes -> Object]
  BY <1>1, <1>2
<1>4. \A m \in Nodes : enc'[m] = (IF m = n THEN object ELSE enc[m])
  BY <1>1, <1>2
<1>5. \A m \in Nodes : seen'[m] = seen[m] \/ (m = n /\ seen'[m] = object)
  BY <1>1, <1>2
<1>6. \A m \in Nodes : Own(m, enc'[m])
  BY <1>2, <1>4
<1>7. \A m \in Nodes : Own(m, seen'[m])
  BY <1>2, <1>5
<1> QED
  BY <1>3, <1>4, <1>6, <1>7

\* The spec that replaces the old one has its type.
LEMMA UpdateObject ==
  ASSUME TypeInv, NEW n \in Nodes, NEW new \in NewSpecs(n)
  PROVE  LET object == [enc[n] EXCEPT !.config = new.config, !.skip = new.skip]
         IN /\ object \in Object /\ Own(n, object)
            /\ object.found = enc[n].found
            /\ object.config = new.config /\ object.skip = new.skip
<1> DEFINE object == [enc[n] EXCEPT !.config = new.config, !.skip = new.skip]
<1>1. new.config \in Seq(Entry) /\ Distinct(new.config) /\ new.skip = (skip /\ new.config # <<>>)
  BY NewSpec
<1>2. new.skip \in BOOLEAN
  BY <1>1 DEF TypeInv
<1>3. enc[n] \in Object /\ Own(n, enc[n])
  BY DEF TypeInv
<1>4. /\ object \in Object /\ object.found = enc[n].found
      /\ object.config = new.config /\ object.skip = new.skip
  BY <1>1, <1>2, <1>3 DEF Object
<1> HIDE DEF object
<1>5. Own(n, object)
  BY <1>1, <1>3, <1>4 DEF Own
<1> QED
  BY <1>4, <1>5 DEF object

\* The step of a node's round, the loop's own state left aside.
LEMMA RoundKeeps ==
  ASSUME TypeInv, NEW n \in Nodes, Round(n),
         enc' \in [Nodes -> Object], seen' \in [Nodes -> Object],
         \A m \in Nodes : Own(m, enc'[m]) /\ Own(m, seen'[m]),
         clean' \in BOOLEAN, budget' \in Nat
  PROVE  TypeInv'
<1>1. /\ ccs' = ccs /\ now' = now /\ bus' = bus /\ present' = present
      /\ pc' = pc /\ listed' = listed /\ skip' = skip /\ pending' = pending /\ edits' = edits
      /\ todo' = todo \ {n}
  BY DEF Round, reads
<1> QED
  BY <1>1 DEF TypeInv, Stored, Own

\* What changes around the manager has its type too.
LEMMA ClusterKeepsType ==
  ASSUME TypeInv, NEW n \in Nodes,
         \/ LabelNode(n) \/ UnlabelNode(n) \/ ReportDevices(n) \/ CacheCatchesUp(n)
         \/ \E d \in Bus[n] : TakeOut(n, d)
  PROVE  TypeInv'
<1>1. CASE LabelNode(n) \/ UnlabelNode(n)
  <2>1. /\ ccs' = ccs /\ now' = now /\ bus' = bus /\ enc' = enc /\ seen' = seen
        /\ pc' = pc /\ listed' = listed /\ skip' = skip /\ todo' = todo
        /\ pending' = pending /\ clean' = FALSE /\ edits' = edits /\ budget' = budget
        /\ present' \subseteq Nodes
    BY <1>1 DEF LabelNode, UnlabelNode, Change, loop, writes, TypeInv
  <2> QED
    BY <2>1 DEF TypeInv, Stored, Own
<1>2. CASE ReportDevices(n)
  <2> DEFINE object == [enc[n] EXCEPT !.found = GetInventory(bus[n])]
  <2>1. Write(n, object)
    BY <1>2 DEF ReportDevices
  <2>2. enc[n] \in Object /\ Own(n, enc[n]) /\ bus[n] \subseteq Bus[n]
    BY DEF TypeInv
  <2>3. GetInventory(bus[n]) \subseteq GetInventory(Bus[n])
    BY <2>2 DEF GetInventory
  <2>4. GetInventory(bus[n]) \subseteq Found
    BY <2>3, InventoryIsFinite
  <2>5. object \in Object /\ object.found = GetInventory(bus[n]) /\ object.config = enc[n].config
    BY <2>2, <2>4 DEF Object
  <2> HIDE DEF object
  <2>6. Own(n, object)
    BY <2>2, <2>3, <2>5 DEF Own
  <2>7. /\ enc' \in [Nodes -> Object] /\ seen' \in [Nodes -> Object]
        /\ \A m \in Nodes : Own(m, enc'[m]) /\ Own(m, seen'[m])
    BY <2>1, <2>5, <2>6, WriteKeeps
  <2>8. /\ ccs' = ccs /\ now' = now /\ bus' = bus /\ present' = present
        /\ pc' = pc /\ listed' = listed /\ skip' = skip /\ todo' = todo
        /\ pending' = pending /\ clean' = FALSE /\ edits' = edits /\ budget' = budget
    BY <1>2 DEF ReportDevices, Change, loop, reads
  <2> QED
    BY <2>7, <2>8 DEF TypeInv, Stored, Own
<1>3. CASE CacheCatchesUp(n)
  <2>1. /\ ccs' = ccs /\ now' = now /\ bus' = bus /\ present' = present /\ enc' = enc
        /\ pc' = pc /\ listed' = listed /\ skip' = skip /\ todo' = todo
        /\ pending' = pending /\ clean' = clean /\ edits' = edits /\ budget' = budget
        /\ seen' = [seen EXCEPT ![n] = enc[n]]
    BY <1>3 DEF CacheCatchesUp, loop, reads
  <2>2. seen' \in [Nodes -> Object]
    BY <2>1 DEF TypeInv
  <2>3. \A m \in Nodes : seen'[m] \in {seen[m], enc[m]}
    BY <2>1 DEF TypeInv
  <2>4. \A m \in Nodes : Own(m, enc'[m]) /\ Own(m, seen'[m])
    BY <2>1, <2>3 DEF TypeInv
  <2> QED
    BY <2>1, <2>2, <2>4 DEF TypeInv, Stored, Own
<1>4. CASE \E d \in Bus[n] : TakeOut(n, d)
  <2>1. PICK d \in Bus[n] : TakeOut(n, d)
    BY <1>4
  <2>2. /\ ccs' = ccs /\ now' = now /\ present' = present /\ enc' = enc /\ seen' = seen
        /\ pc' = pc /\ listed' = listed /\ skip' = skip /\ todo' = todo
        /\ pending' = pending /\ clean' = FALSE /\ budget' = budget
        /\ bus' = [bus EXCEPT ![n] = @ \ {d}]
        /\ edits > 0 /\ edits' = edits - 1
    BY <2>1 DEF TakeOut, Edit, Change, loop, writes
  <2>3. /\ bus' \in [Nodes -> SUBSET UNION {Bus[m] : m \in Nodes}]
        /\ \A m \in Nodes : bus'[m] \subseteq bus[m]
    BY <2>2 DEF TypeInv
  <2>4. edits' \in Nat
    BY <2>2 DEF TypeInv
  <2> QED
    BY <2>2, <2>3, <2>4 DEF TypeInv, Stored, Own
<1> QED
  BY <1>1, <1>2, <1>3, <1>4

\* Users create, change and delete EthernetClusterConfigs.
LEMMA UsersKeepType ==
  ASSUME TypeInv, NEW c \in Configs,
         (\E s \in Specs : CreateConfig(c, s) \/ EditConfig(c, s)) \/ DeleteConfig(c)
  PROVE  TypeInv' /\ clean' = FALSE /\ pc' = pc /\ todo' = todo /\ enc' = enc
<1>1. /\ bus' = bus /\ present' = present /\ enc' = enc /\ seen' = seen
      /\ pc' = pc /\ listed' = listed /\ skip' = skip /\ todo' = todo
      /\ pending' = TRUE /\ clean' = FALSE /\ budget' = budget
      /\ edits > 0 /\ edits' = edits - 1
  BY DEF CreateConfig, EditConfig, DeleteConfig, Edit, Change, loop, writes
<1>2. edits' \in Nat
  BY <1>1 DEF TypeInv
<1>3. now' \in Nat /\ now <= now' /\ ccs' \in Stored'
  <2>1. ASSUME NEW s \in Specs, CreateConfig(c, s)
        PROVE  now' \in Nat /\ now <= now' /\ ccs' \in Stored'
    <3>1. /\ now' \in {now, now + 1} \ {0}
          /\ ccs' = [ccs EXCEPT ![c] = [exists |-> TRUE, spec |-> s, created |-> now']]
      BY <2>1 DEF CreateConfig
    <3>2. now \in Nat /\ now' \in Nat /\ now <= now' /\ now' \in 1 .. now'
      BY <3>1 DEF TypeInv
    <3>3. 1 .. now \subseteq 1 .. now'
      BY <3>2
    <3>4. ccs \in [Configs -> {NoConfig} \cup [exists : {TRUE}, spec : Specs, created : 1 .. now']]
      BY <3>3 DEF TypeInv, Stored
    <3> QED
      BY <3>1, <3>2, <3>4 DEF Stored
  <2>2. ASSUME NEW s \in Specs, EditConfig(c, s)
        PROVE  now' \in Nat /\ now <= now' /\ ccs' \in Stored'
    <3>1. now' = now /\ ccs' = [ccs EXCEPT ![c].spec = s] /\ ccs[c].exists
      BY <2>2 DEF EditConfig
    <3>2. ccs[c] \in [exists : {TRUE}, spec : Specs, created : 1 .. now]
      <4>1. ccs[c] # NoConfig
        BY <3>1 DEF NoConfig
      <4> QED
        BY <4>1 DEF TypeInv, Stored
    <3>3. [ccs[c] EXCEPT !.spec = s] \in [exists : {TRUE}, spec : Specs, created : 1 .. now]
      BY <3>2
    <3>4. ccs' \in Stored
      BY <3>1, <3>3 DEF TypeInv, Stored
    <3>5. now \in Nat /\ now' \in Nat /\ now <= now'
      BY <3>1 DEF TypeInv
    <3> QED
      BY <3>1, <3>4, <3>5 DEF Stored
  <2>3. ASSUME DeleteConfig(c)
        PROVE  now' \in Nat /\ now <= now' /\ ccs' \in Stored'
    <3>1. now' = now /\ ccs' = [ccs EXCEPT ![c] = NoConfig]
      BY <2>3 DEF DeleteConfig
    <3>2. ccs' \in Stored
      BY <3>1 DEF TypeInv, Stored
    <3>3. now \in Nat /\ now' \in Nat /\ now <= now'
      BY <3>1 DEF TypeInv
    <3> QED
      BY <3>1, <3>2, <3>3 DEF Stored
  <2> QED
    BY <2>1, <2>2, <2>3
<1>4. listed' \in Stored'
  <2>1. 1 .. now \subseteq 1 .. now'
    BY <1>3 DEF TypeInv
  <2> QED
    BY <1>1, <2>1 DEF TypeInv, Stored
<1>5. TypeInv'
  BY <1>1, <1>2, <1>3, <1>4 DEF TypeInv, Own
<1> QED
  BY <1>1, <1>5

\* The manager's own steps.
LEMMA ReconcileKeepsType ==
  ASSUME TypeInv,
         \/ ReconcileStart \/ ReconcileEnd \/ Resync
         \/ \E n \in Nodes : \/ SyncNodeUpdate(n) \/ SyncNodeNothing(n)
                             \/ SyncNodeConflict(n) \/ SyncNodeFails(n)
  PROVE  TypeInv'
<1>1. CASE ReconcileStart \/ ReconcileEnd \/ Resync
  <2>1. /\ ccs' = ccs /\ now' = now /\ bus' = bus /\ present' = present
        /\ enc' = enc /\ seen' = seen /\ edits' = edits /\ budget' = budget
    BY <1>1 DEF ReconcileStart, ReconcileEnd, Resync, reads, writes
  <2>2. getDrainSkip \in BOOLEAN
    BY DEF getDrainSkip
  <2>3. /\ listed' \in {ccs, listed, [c \in Configs |-> NoConfig]}
        /\ skip' \in {getDrainSkip, skip, FALSE}
        /\ todo' \in {todo, present}
        /\ clean' \in {clean, TRUE} /\ pending' \in BOOLEAN /\ pc' \in {"idle", "sync"}
    BY <1>1 DEF ReconcileStart, ReconcileEnd, Resync, loop, TypeInv
  <2>4. listed' \in Stored
    BY <2>3 DEF TypeInv, Stored
  <2>5. skip' \in BOOLEAN /\ todo' \subseteq Nodes /\ clean' \in BOOLEAN
    BY <2>2, <2>3 DEF TypeInv
  <2> QED
    BY <2>1, <2>3, <2>4, <2>5 DEF TypeInv, Stored, Own
<1>2. ASSUME NEW n \in Nodes, SyncNodeUpdate(n)
      PROVE  TypeInv'
  <2>1. PICK new \in NewSpecs(n) :
          Write(n, [enc[n] EXCEPT !.config = new.config, !.skip = new.skip])
    BY <1>2 DEF SyncNodeUpdate
  <2>2. /\ enc' \in [Nodes -> Object] /\ seen' \in [Nodes -> Object]
        /\ \A m \in Nodes : Own(m, enc'[m]) /\ Own(m, seen'[m])
    BY <2>1, UpdateObject, WriteKeeps
  <2>3. Round(n) /\ clean' \in BOOLEAN /\ budget' \in Nat
    BY <1>2 DEF SyncNodeUpdate, TypeInv
  <2> QED
    BY <2>2, <2>3, RoundKeeps
<1>3. ASSUME NEW n \in Nodes, SyncNodeNothing(n) \/ SyncNodeConflict(n) \/ SyncNodeFails(n)
      PROVE  TypeInv'
  <2>1. Round(n) /\ enc' = enc /\ seen' = seen
    BY <1>3 DEF SyncNodeNothing, SyncNodeConflict, SyncNodeFails, writes
  <2>2. clean' \in BOOLEAN /\ budget' \in Nat
    <3>1. clean' = FALSE \/ clean' = (clean /\ seen[n] = enc[n])
      BY <1>3 DEF SyncNodeNothing, SyncNodeConflict, SyncNodeFails
    <3>2. clean' \in BOOLEAN
      BY <3>1, Zenon
    <3>3. budget' = budget \/ (budget > 0 /\ budget' = budget - 1)
      BY <1>3 DEF SyncNodeNothing, SyncNodeConflict, SyncNodeFails
    <3>4. budget' \in Nat
      BY <3>3 DEF TypeInv
    <3> QED
      BY <3>2, <3>4
  <2>3. /\ enc' \in [Nodes -> Object] /\ seen' \in [Nodes -> Object]
        /\ \A m \in Nodes : Own(m, enc'[m]) /\ Own(m, seen'[m])
    BY <2>1 DEF TypeInv
  <2> QED
    BY <2>1, <2>2, <2>3, RoundKeeps
<1> QED
  BY <1>1, <1>2, <1>3

\* Every step keeps the types.
LEMMA TypeStep == TypeInv /\ [ManagerNext]_managerVars => TypeInv'
<1> SUFFICES ASSUME TypeInv, [ManagerNext]_managerVars
             PROVE  TypeInv'
  OBVIOUS
<1>1. CASE \/ ReconcileStart \/ ReconcileEnd \/ Resync
           \/ \E n \in Nodes : \/ SyncNodeUpdate(n) \/ SyncNodeNothing(n)
                               \/ SyncNodeConflict(n) \/ SyncNodeFails(n)
  BY <1>1, ReconcileKeepsType
<1>2. CASE \E n \in Nodes : \/ LabelNode(n) \/ UnlabelNode(n) \/ ReportDevices(n)
                            \/ CacheCatchesUp(n) \/ \E d \in Bus[n] : TakeOut(n, d)
  BY <1>2, ClusterKeepsType
<1>3. CASE \E c \in Configs : \/ \E s \in Specs : CreateConfig(c, s) \/ EditConfig(c, s)
                              \/ DeleteConfig(c)
  BY <1>3, UsersKeepType
<1>4. CASE UNCHANGED managerVars
  BY <1>4 DEF managerVars, reads, writes, loop, TypeInv, Stored, Own
<1> QED
  BY <1>1, <1>2, <1>3, <1>4 DEF ManagerNext

-----------------------------------------------------------------------------
(* The config in force wins *)

\* Only a round of the loop writes a spec, and what it writes for a device is
\* the config in force for it.
LEMMA WinStep ==
  ASSUME TypeInv, [ManagerNext]_managerVars, NEW n \in Nodes, enc'[n].config # enc[n].config
  PROVE  \A d \in seen[n].found : Given(n, d, enc'[n].config)
<1>1. CASE \/ ReconcileStart \/ ReconcileEnd \/ Resync \/ UNCHANGED managerVars
           \/ \E c \in Configs : \/ \E s \in Specs : CreateConfig(c, s) \/ EditConfig(c, s)
                                 \/ DeleteConfig(c)
  <2>1. enc' = enc
    BY <1>1 DEF ReconcileStart, ReconcileEnd, Resync, CreateConfig, EditConfig, DeleteConfig,
                writes, managerVars
  <2> QED
    BY <2>1
<1>2. CASE \E m \in Nodes :
             \/ SyncNodeNothing(m) \/ SyncNodeConflict(m) \/ SyncNodeFails(m)
             \/ LabelNode(m) \/ UnlabelNode(m) \/ CacheCatchesUp(m)
             \/ \E d \in Bus[m] : TakeOut(m, d)
  <2>1. enc' = enc
    BY <1>2 DEF SyncNodeNothing, SyncNodeConflict, SyncNodeFails, LabelNode, UnlabelNode,
                CacheCatchesUp, TakeOut, writes
  <2> QED
    BY <2>1
<1>3. ASSUME NEW m \in Nodes, ReportDevices(m)
      PROVE  FALSE
  <2>1. enc' = [enc EXCEPT ![m] = [enc[m] EXCEPT !.found = GetInventory(bus[m])]]
    BY <1>3 DEF ReportDevices, Write
  <2>2. enc \in [Nodes -> Object]
    BY DEF TypeInv
  <2>3. enc'[n].config = enc[n].config
    BY <2>1, <2>2 DEF Object
  <2> QED
    BY <2>3
<1>4. ASSUME NEW m \in Nodes, SyncNodeUpdate(m)
      PROVE  \A d \in seen[n].found : Given(n, d, enc'[n].config)
  <2>1. PICK new \in NewSpecs(m) :
          Write(m, [enc[m] EXCEPT !.config = new.config, !.skip = new.skip])
    BY <1>4 DEF SyncNodeUpdate
  <2> DEFINE object == [enc[m] EXCEPT !.config = new.config, !.skip = new.skip]
  <2>2. object \in Object /\ Own(m, object) /\ object.config = new.config
    BY UpdateObject
  <2> HIDE DEF object
  <2>3. enc'[m] = object /\ \A o \in Nodes \ {m} : enc'[o] = enc[o]
    BY <2>1, <2>2, WriteKeeps DEF object
  <2>4. n = m
    BY <2>3
  <2>5. enc'[n].config = new.config
    BY <2>2, <2>3, <2>4
  <2> QED
    BY <2>4, <2>5, NewSpec
<1> QED
  BY <1>1, <1>2, <1>3, <1>4 DEF ManagerNext

\* "Higher priority policies can override lower ones": whatever the number of
\* nodes, devices and configs, and in whatever order the list and the maps of Go
\* come, what Reconcile writes for a device is the config in force for it.
THEOREM PriorityWins == ManagerSpec => HighestPriorityWins
<1>1. ManagerInit => TypeInv
  BY TypeInit
<1>2. TypeInv /\ [ManagerNext]_managerVars => TypeInv'
  BY TypeStep
<1>3. TypeInv /\ [ManagerNext]_managerVars =>
        [\A n \in Nodes :
           enc'[n].config # enc[n].config =>
             \A d \in seen[n].found :
               LET mine == {e \in Range(enc'[n].config) : e.pci = d.pci}
               IN IF Best(n, d, listed) = {} THEN mine = {}
                  ELSE \E c \in Best(n, d, listed) :
                         mine = {[pci |-> d.pci, config |-> listed[c].spec.config]}]_managerVars
  BY WinStep DEF Given
<1> QED
  BY <1>1, <1>2, <1>3, PTL DEF ManagerSpec, HighestPriorityWins

-----------------------------------------------------------------------------
(* A clean Reconcile leaves the configs in force *)

\* While nothing failed, changed or was stale, Reconcile works with what there
\* is, and the nodes it is done with have what the configs in force set.
CleanInv ==
  /\ pc = "idle" => todo = {}
  /\ pc = "sync" /\ clean => listed = ccs /\ skip = getDrainSkip
  /\ clean => \A n \in present \ todo : Reflected(n)

\* A spec that the new one derives from has what the configs in force set: with
\* SyncNodeUpdate it is the new spec itself, with SyncNodeNothing the old one,
\* which is not written again.
LEMMA DerivedIsReflected ==
  ASSUME TypeInv, NEW n \in Nodes, NEW new \in NewSpecs(n),
         listed = ccs, skip = getDrainSkip,
         NEW object \in Object, object.found = seen[n].found,
         DeepDerivative(new, object),
         NEW d \in object.found, Best(n, d, ccs) # {}
  PROVE  /\ \E e \in Range(object.config), c \in Best(n, d, ccs) :
              e.pci = d.pci /\ ConfigDerives(ccs[c].spec.config, e.config)
         /\ object.skip = getDrainSkip
<1>1. /\ new.config \in Seq(Entry)
      /\ new.skip = (skip /\ new.config # <<>>)
      /\ Given(n, d, new.config)
  BY NewSpec
<1>2. PICK c \in Best(n, d, ccs) :
        {e \in Range(new.config) : e.pci = d.pci}
          = {[pci |-> d.pci, config |-> ccs[c].spec.config]}
  BY <1>1 DEF Given
<1> DEFINE mine == [pci |-> d.pci, config |-> ccs[c].spec.config]
<1>3. mine \in Range(new.config)
  BY <1>2
<1>4. PICK i \in DOMAIN new.config : new.config[i] = mine
  BY <1>3 DEF Range
<1>5. object.config \in Seq(Entry)
  BY DEF Object
<1>6. /\ Len(new.config) <= Len(object.config)
      /\ new.config[i].pci = object.config[i].pci
      /\ ConfigDerives(new.config[i].config, object.config[i].config)
      /\ new.skip = object.skip
  BY <1>4 DEF DeepDerivative
<1>7. i \in DOMAIN object.config
  BY <1>1, <1>4, <1>5, <1>6
<1>8. object.config[i] \in Range(object.config)
  BY <1>7 DEF Range
<1>9. object.config[i].pci = d.pci /\ ConfigDerives(ccs[c].spec.config, object.config[i].config)
  BY <1>4, <1>6
<1>10. new.config # <<>>
  BY <1>4
<1>11. object.skip = getDrainSkip
  BY <1>1, <1>6, <1>10 DEF TypeInv
<1> QED
  BY <1>8, <1>9, <1>11

\* A spec derives from itself.
LEMMA DerivesItself ==
  ASSUME NEW new, NEW object, object.config = new.config, object.skip = new.skip,
         new.config \in Seq(Entry)
  PROVE  DeepDerivative(new, object)
<1>1. Len(new.config) \in Nat
  OBVIOUS
<1> QED
  BY <1>1 DEF DeepDerivative, ConfigDerives

\* What a node has depends on the configs, the labelled nodes and its object.
LEMMA ReflectedStays ==
  ASSUME NEW n \in Nodes, Reflected(n), ccs' = ccs, present' = present, enc'[n] = enc[n]
  PROVE  Reflected(n)'
<1>1. \A d : Best(n, d, ccs)' = Best(n, d, ccs)
  BY DEF Best, matchConfigsForNode, Matches
<1> QED
  BY <1>1 DEF Reflected, Configured, getDrainSkip

\* Every step keeps CleanInv.
LEMMA CleanStep == TypeInv /\ CleanInv /\ [ManagerNext]_managerVars => CleanInv'
<1> SUFFICES ASSUME TypeInv, CleanInv, [ManagerNext]_managerVars
             PROVE  CleanInv'
  OBVIOUS
<1>1. CASE ReconcileStart
  <2>1. /\ pc' = "sync" /\ listed' = ccs /\ skip' = getDrainSkip /\ todo' = present
        /\ ccs' = ccs /\ present' = present
    BY <1>1 DEF ReconcileStart, reads
  <2>2. getDrainSkip' = getDrainSkip
    BY <2>1 DEF getDrainSkip
  <2>3. present' \ todo' = {} /\ pc' # "idle" /\ listed' = ccs' /\ skip' = getDrainSkip'
    BY <2>1, <2>2
  <2> QED
    BY <2>3 DEF CleanInv
<1>2. CASE ReconcileEnd \/ Resync \/ UNCHANGED managerVars
           \/ \E n \in Nodes : CacheCatchesUp(n)
  <2>1. /\ ccs' = ccs /\ present' = present /\ enc' = enc /\ clean' = clean /\ todo' = todo
        /\ pc' = "idle" => pc = "idle" \/ todo = {}
        /\ pc' = "sync" => pc = "sync" /\ listed' = listed /\ skip' = skip
    BY <1>2 DEF ReconcileEnd, Resync, CacheCatchesUp, managerVars, reads, writes, loop
  <2>2. clean' => \A n \in present' \ todo' : Reflected(n)'
    BY <2>1, ReflectedStays DEF CleanInv, TypeInv
  <2> QED
    BY <2>1, <2>2 DEF CleanInv, getDrainSkip
<1>3. CASE \/ \E n \in Nodes : \/ LabelNode(n) \/ UnlabelNode(n) \/ ReportDevices(n)
                               \/ \E d \in Bus[n] : TakeOut(n, d)
           \/ \E c \in Configs : \/ \E s \in Specs : CreateConfig(c, s) \/ EditConfig(c, s)
                                 \/ DeleteConfig(c)
  <2>1. clean' = FALSE /\ pc' = pc /\ todo' = todo
    BY <1>3 DEF LabelNode, UnlabelNode, ReportDevices, TakeOut, CreateConfig, EditConfig,
                DeleteConfig, Edit, Change, loop
  <2> QED
    BY <2>1 DEF CleanInv
<1>4. ASSUME NEW n \in Nodes,
             \/ SyncNodeUpdate(n) \/ SyncNodeNothing(n)
             \/ SyncNodeConflict(n) \/ SyncNodeFails(n)
      PROVE  CleanInv'
  <2>1. /\ pc = "sync" /\ pc' = pc /\ n \in todo /\ todo' = todo \ {n}
        /\ ccs' = ccs /\ present' = present /\ listed' = listed /\ skip' = skip
    BY <1>4 DEF SyncNodeUpdate, SyncNodeNothing, SyncNodeConflict, SyncNodeFails, Round, reads
  <2>2. SUFFICES ASSUME clean'
                 PROVE  \A m \in present \ todo' : Reflected(m)'
    <3>1. clean' => clean
      BY <1>4 DEF SyncNodeUpdate, SyncNodeNothing, SyncNodeConflict, SyncNodeFails
    <3>2. getDrainSkip' = getDrainSkip
      BY <2>1 DEF getDrainSkip
    <3>3. clean' => listed' = ccs' /\ skip' = getDrainSkip'
      BY <2>1, <3>1, <3>2 DEF CleanInv
    <3> QED
      BY <2>1, <3>3 DEF CleanInv
  <2>3. /\ clean /\ seen[n] = enc[n]
        /\ SyncNodeUpdate(n) \/ SyncNodeNothing(n)
    BY <1>4, <2>2 DEF SyncNodeUpdate, SyncNodeNothing, SyncNodeConflict, SyncNodeFails
  <2>4. listed = ccs /\ skip = getDrainSkip /\ \A m \in present \ todo : Reflected(m)
    BY <2>1, <2>3 DEF CleanInv
  <2>5. PICK new \in NewSpecs(n) :
          /\ enc'[n] \in Object /\ enc'[n].found = seen[n].found
          /\ DeepDerivative(new, enc'[n])
          /\ \A m \in Nodes \ {n} : enc'[m] = enc[m]
    <3>1. CASE SyncNodeUpdate(n)
      <4>1. PICK new \in NewSpecs(n) :
              Write(n, [enc[n] EXCEPT !.config = new.config, !.skip = new.skip])
        BY <3>1 DEF SyncNodeUpdate
      <4> DEFINE object == [enc[n] EXCEPT !.config = new.config, !.skip = new.skip]
      <4>2. /\ object \in Object /\ Own(n, object) /\ object.found = enc[n].found
            /\ object.config = new.config /\ object.skip = new.skip
        BY UpdateObject
      <4> HIDE DEF object
      <4>3. enc'[n] = object /\ \A m \in Nodes \ {n} : enc'[m] = enc[m]
        BY <4>1, <4>2, WriteKeeps DEF object
      <4>4. DeepDerivative(new, object)
        BY <4>2, NewSpec, DerivesItself
      <4> QED
        BY <2>3, <4>2, <4>3, <4>4
    <3>2. CASE SyncNodeNothing(n)
      <4>1. enc' = enc /\ \E new \in NewSpecs(n) : DeepDerivative(new, enc[n])
        BY <2>3, <3>2 DEF SyncNodeNothing, writes
      <4> QED
        BY <2>3, <4>1 DEF TypeInv
    <3> QED
      BY <2>3, <3>1, <3>2
  <2>6. Reflected(n)'
    <3>1. getDrainSkip' = getDrainSkip
      BY <2>1 DEF getDrainSkip
    <3>2. \A d : Best(n, d, ccs)' = Best(n, d, ccs)
      BY <2>1 DEF Best, matchConfigsForNode, Matches
    <3> SUFFICES ASSUME NEW d \in enc'[n].found, Best(n, d, ccs) # {}
                 PROVE  /\ \E e \in Range(enc'[n].config), c \in Best(n, d, ccs) :
                             e.pci = d.pci /\ ConfigDerives(ccs[c].spec.config, e.config)
                        /\ enc'[n].skip = getDrainSkip
      BY <2>1, <3>1, <3>2 DEF Reflected, Configured, Range, ConfigDerives
    <3> QED
      BY <2>4, <2>5, DerivedIsReflected
  <2>7. ASSUME NEW m \in present \ todo', m # n
        PROVE  Reflected(m)'
    <3>1. m \in Nodes /\ m \in present \ todo
      BY <2>1, <2>7 DEF TypeInv
    <3> QED
      BY <2>1, <2>4, <2>5, <2>7, <3>1, ReflectedStays
  <2> QED
    BY <2>6, <2>7
<1> QED
  BY <1>1, <1>2, <1>3, <1>4 DEF ManagerNext

\* A Reconcile in which nothing failed, changed or was read too late leaves every
\* labelled node with what the configs in force set for each of its devices, and
\* with the drain skipped just when there is no other node to go to; what is not
\* written because it derives from what is there needs no writing.
THEOREM CleanIsReflected == ManagerSpec => []CleanMeansReflected
<1>1. ManagerInit => TypeInv /\ CleanInv
  <2>1. ManagerInit => CleanInv
    BY DEF ManagerInit, CleanInv
  <2> QED
    BY <2>1, TypeInit
<1>2. TypeInv /\ CleanInv /\ [ManagerNext]_managerVars => TypeInv' /\ CleanInv'
  BY TypeStep, CleanStep
<1>3. TypeInv /\ CleanInv => CleanMeansReflected
  <2>1. TypeInv /\ CleanInv /\ Clean => \A n \in present : Reflected(n)
    BY DEF CleanInv, Clean
  <2> QED
    BY <2>1, TypeInvIsType DEF CleanMeansReflected
<1> QED
  BY <1>1, <1>2, <1>3, PTL DEF ManagerSpec
=============================================================================
