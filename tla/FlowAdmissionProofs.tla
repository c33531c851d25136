--------------------------- MODULE FlowAdmissionProofs ---------------------------
(***************************************************************************)
(* Theorems about FlowAdmission, for every set of rules that users may     *)
(* write, and whatever pods, VFs and ports come and go on the node.        *)
(***************************************************************************)
EXTENDS FlowAdmission, WellFoundedInduction, TLAPS

\* What passed a webhook is still what it passed; what is generated from it and
\* from a pod passes the other webhook.
AdmissionInv ==
  /\ nfc # None => \A i \in DOMAIN nfc : IsNodeRule(nfc[i]) /\ validateRules(nfc[i])
  /\ cfc # None => /\ \A i \in DOMAIN cfc.rules : IsClusterRule(cfc.rules[i])
                   /\ ValidateCluster(cfc)
  /\ pod \in Pods \cup {None} /\ vfs \cup ports \subseteq Addresses
  /\ sync \in {"none", "error", "ok"} /\ refused = FALSE

-----------------------------------------------------------------------------
(* What the controller generates *)

\* The types that the controller generates.
LEMMA GeneratedTypes ==
  /\ {"VF", "END"} \subseteq RteFlowActionType_value
  /\ "VF" \notin NotConfigurable /\ "VFPCIADDR" \notin NotConfigurable
  /\ GetFlowActionType("VFPCIADDR") = "VF" /\ GetFlowActionType("END") = "END"
BY DEF RteFlowActionType_value, NotConfigurable, GetFlowActionType

\* getNodeActionsFromClusterActions leaves a list of addresses with an END.
LEMMA NodeActions ==
  ASSUME NEW actions, IsList(actions), NEW p
  PROVE  LET g == getNodeActionsFromClusterActions(actions, p)
         IN /\ IsList(g) /\ EndsWithEnd(g)
            /\ \A i \in DOMAIN g :
                 \/ g[i] = [type |-> "END", conf |-> None]
                 \/ \E j \in DOMAIN actions : g[i] = [type |-> "VFPCIADDR", conf |-> [addr |-> p[actions[j].conf]]]
<1> DEFINE Vf(j) == [type |-> "VFPCIADDR", conf |-> [addr |-> p[actions[j].conf]]]
           vf == [i \in DOMAIN actions |-> Vf(i)]
           end == [type |-> "END", conf |-> None]
           S == {Vf(j) : j \in DOMAIN actions} \cup {end}
           g == getNodeActionsFromClusterActions(actions, p)
<1>1. DOMAIN actions = 1..Len(actions) /\ Len(actions) \in Nat
  BY DEF IsList
<1>2. vf \in Seq(S) /\ Len(vf) = Len(actions)
  BY <1>1
<1>3. g = IF vf = <<>> THEN vf ELSE Append(vf, end)
  BY DEF getNodeActionsFromClusterActions
<1> HIDE DEF vf, g
<1>4. g \in Seq(S)
  BY <1>2, <1>3
<1>5. g # <<>> => g[Len(g)] = end
  BY <1>2, <1>3
<1>6. EndsWithEnd(g)
  BY <1>5 DEF EndsWithEnd
<1>7. \A i \in DOMAIN g : g[i] \in S
  BY <1>4
<1>8. IsList(g)
  BY <1>4, <1>7 DEF IsList
<1> QED
  BY <1>6, <1>7, <1>8 DEF g

\* A rule that is generated from an admitted one passes the webhook of the node.
LEMMA GeneratedPasses ==
  ASSUME NEW rules, NEW i \in DOMAIN rules, IsClusterRule(rules[i]), validateClusterRule(rules[i]),
         NEW p \in Pods, HasInterfaces(rules, p)
  PROVE  IsNodeRule(Generated(rules, p)[i]) /\ validateRules(Generated(rules, p)[i])
<1> DEFINE r == rules[i]
           act == getNodeActionsFromClusterActions(r.action, p)
           n == Generated(rules, p)[i]
<1>1. n.attr = r.attr /\ n.pattern = r.pattern /\ n.action = act
  BY DEF Generated
<1>2. IsList(r.action)
  BY DEF IsClusterRule
<1>3. /\ IsList(act) /\ EndsWithEnd(act)
      /\ \A k \in DOMAIN act :
           \/ act[k] = [type |-> "END", conf |-> None]
           \/ \E j \in DOMAIN r.action : act[k] = [type |-> "VFPCIADDR", conf |-> [addr |-> p[r.action[j].conf]]]
  BY <1>2, NodeActions
<1>4. \A j \in DOMAIN r.action : p[r.action[j].conf] \in Addresses
  <2> TAKE j \in DOMAIN r.action
  <2>1. r.action[j].conf \in Interfaces
    BY DEF IsClusterRule, validateClusterRule, validateClusterFlowAction
  <2>2. p \in [Interfaces -> Addresses \cup {None}]
    BY PodsAssumption
  <2>3. p[r.action[j].conf] # None
    BY DEF HasInterfaces
  <2> QED
    BY <2>1, <2>2, <2>3
<1> HIDE DEF act, n
<1>5. ASSUME NEW k \in DOMAIN act
      PROVE  /\ IsAction(act[k])
             /\ GetFlowActionType(act[k].type) \in RteFlowActionType_value
             /\ act[k].conf # None => GetFlowActionAnyForWebhook(act[k])
             /\ validateRteFlowAction(act[k])
  <2>1. CASE act[k] = [type |-> "END", conf |-> None]
    <3>1. act[k].type = "END" /\ act[k].conf = None
      BY <2>1
    <3> QED
      BY <3>1, GeneratedTypes DEF IsAction, validateRteFlowAction
  <2>2. ASSUME NEW j \in DOMAIN r.action,
               act[k] = [type |-> "VFPCIADDR", conf |-> [addr |-> p[r.action[j].conf]]]
        PROVE  /\ IsAction(act[k])
               /\ GetFlowActionType(act[k].type) \in RteFlowActionType_value
               /\ act[k].conf # None => GetFlowActionAnyForWebhook(act[k])
               /\ validateRteFlowAction(act[k])
    <3>1. PICK a \in Addresses : a = p[r.action[j].conf]
      BY <1>4
    <3>2. act[k].type = "VFPCIADDR" /\ act[k].conf = [addr |-> a]
      BY <2>2, <3>1
    <3>3. act[k].conf \notin {None, Bad} /\ act[k].conf.addr = a /\ a # Malformed
      BY <3>2, NamesAssumption
    <3> QED
      BY <3>2, <3>3, GeneratedTypes DEF IsAction, validateRteFlowAction, GetFlowActionAnyForWebhook
  <2> QED
    BY <1>3, <2>1, <2>2
<1>6. IsNodeRule(n)
  BY <1>1, <1>3, <1>5 DEF IsNodeRule, IsClusterRule
<1>7. validateRules(n)
  BY <1>1, <1>3, <1>5 DEF validateRules, validateClusterRule
<1> QED
  BY <1>6, <1>7 DEF n

-----------------------------------------------------------------------------
(* The invariant *)

\* Every step keeps what passed.
LEMMA AdmissionStep == AdmissionInv /\ [AdmissionNext]_admissionVars => AdmissionInv'
<1> SUFFICES ASSUME AdmissionInv, [AdmissionNext]_admissionVars PROVE AdmissionInv'
  OBVIOUS
<1>1. ASSUME NEW r \in AdmittedNodeRules, WriteNode(<<r>>)
      PROVE  AdmissionInv'
  <2>1. DOMAIN <<r>> = {1} /\ <<r>>[1] = r /\ r \in NodeRules /\ ValidateNode(<<r>>)
    BY DEF AdmittedNodeRules
  <2>2. IsNodeRule(r) /\ validateRules(r)
    BY <2>1, RulesAssumption DEF ValidateNode
  <2> QED
    BY <1>1, <2>1, <2>2 DEF WriteNode, AdmissionInv
<1>2. ASSUME NEW spec \in AdmittedClusterSpecs, WriteCluster(spec)
      PROVE  AdmissionInv'
  <2>1. PICK r \in ClusterRules : spec.rules = <<r>> /\ ValidateCluster(spec)
    BY DEF AdmittedClusterSpecs, ClusterSpecs
  <2>2. \A i \in DOMAIN spec.rules : spec.rules[i] = r /\ IsClusterRule(r)
    BY <2>1, RulesAssumption
  <2> QED
    BY <1>2, <2>1, <2>2 DEF WriteCluster, AdmissionInv
<1>3. CASE DeleteNode
  BY <1>3 DEF DeleteNode, AdmissionInv
<1>4. CASE CreateOrUpdate
  <2> DEFINE g == Generated(cfc.rules, pod)
  <2>1. /\ cfc # None /\ pod \in Pods /\ HasInterfaces(cfc.rules, pod)
        /\ IF ValidateNode(g) THEN nfc' = g /\ sync' = "none" /\ UNCHANGED refused
           ELSE refused' = TRUE /\ UNCHANGED <<nfc, sync>>
        /\ UNCHANGED <<cfc, pod, vfs, ports>>
    BY <1>4 DEF CreateOrUpdate, AdmissionInv
  <2>2. DOMAIN g = DOMAIN cfc.rules
    BY DEF Generated
  <2>3. \A i \in DOMAIN g : IsNodeRule(g[i]) /\ validateRules(g[i])
    <3> TAKE i \in DOMAIN g
    <3>1. i \in DOMAIN cfc.rules /\ IsClusterRule(cfc.rules[i]) /\ validateClusterRule(cfc.rules[i])
      BY <2>1, <2>2 DEF AdmissionInv, ValidateCluster
    <3> QED
      BY <2>1, <3>1, GeneratedPasses
  <2> HIDE DEF g
  <2>4. ValidateNode(g)
    BY <2>3 DEF ValidateNode
  <2> QED
    BY <2>1, <2>3, <2>4 DEF AdmissionInv
<1>5. CASE SyncRules
  BY <1>5 DEF SyncRules, AdmissionInv
<1>6. ASSUME NEW p \in Pods \cup {None}, PodChanges(p)
      PROVE  AdmissionInv'
  BY <1>6 DEF PodChanges, AdmissionInv
<1>7. ASSUME NEW v \in SUBSET Addresses, NEW d \in SUBSET Addresses, NodeChanges(v, d)
      PROVE  AdmissionInv'
  BY <1>7 DEF NodeChanges, AdmissionInv
<1>8. CASE UNCHANGED admissionVars
  BY <1>8 DEF admissionVars, AdmissionInv
<1> QED
  BY <1>1, <1>2, <1>3, <1>4, <1>5, <1>6, <1>7, <1>8 DEF AdmissionNext

\* Nothing is stored at first.
LEMMA AdmissionStart == AdmissionInit => AdmissionInv
BY DEF AdmissionInit, AdmissionInv

\* The two webhooks agree: whatever ClusterFlowConfig one of them let in, and
\* whichever pod it selects, the other lets in the NodeFlowConfig that the
\* controller generates from them.
THEOREM GeneratedAdmitted == AdmissionSpec => []GeneratedIsAdmitted
<1>1. AdmissionInv => GeneratedIsAdmitted
  BY DEF AdmissionInv, GeneratedIsAdmitted
<1> QED
  BY <1>1, AdmissionStart, AdmissionStep, PTL DEF AdmissionSpec

-----------------------------------------------------------------------------
(* What passed can be translated *)

\* Among actions that name VFs one is the first.
LEMMA FirstIsOne ==
  ASSUME NEW r, IsList(r.action), VfPciAddrs(r) # {}
  PROVE  \E i \in VfPciAddrs(r) : FirstAddress(r) = r.action[i].conf.addr
<1> DEFINE V == VfPciAddrs(r)
<1>1. V \subseteq Nat
  BY DEF VfPciAddrs, IsList
<1> HIDE DEF V
<1>2. PICK i \in V : \A j \in V : ~(<<j, i>> \in OpToRel(<, Nat))
  BY <1>1, WFMin, NatLessThanWellFounded DEF V
<1>3. \A j \in V : i <= j
  <2> TAKE j \in V
  <2>1. i \in Nat /\ j \in Nat
    BY <1>1
  <2>2. ~(j < i)
    BY <1>2, <2>1 DEF OpToRel
  <2> QED
    BY <2>1, <2>2
<1> DEFINE c == CHOOSE k \in V : \A j \in V : k <= j
<1>4. c \in V
  BY <1>3
<1>5. FirstAddress(r) = r.action[c].conf.addr
  BY DEF FirstAddress, V
<1> QED
  BY <1>4, <1>5 DEF V

\* The daemon can translate a stored rule if the node has what it names.
LEMMA Translated ==
  ASSUME NEW r, IsNodeRule(r), validateRules(r), ~getFlowCreateRequests(r)
  PROVE  \/ \E i \in VfPciAddrs(r) : r.action[i].conf.addr \in Addresses \ vfs
         \/ r.port = AutoPort /\ (VfPciAddrs(r) = {} \/ FirstAddress(r) \in Addresses \ ports)
<1>1. \A i \in DOMAIN r.pattern :
        /\ r.pattern[i].type \in RteFlowItemType_value
        /\ \A m \in {r.pattern[i].spec, r.pattern[i].last, r.pattern[i].mask} \ {None} :
             GetFlowItemAny(r.pattern[i].type, m)
  BY DEF validateRules, validateFlowPatterns, validateRteFlowItem
<1>2. \A i \in DOMAIN r.action :
        /\ GetFlowActionType(r.action[i].type) \in RteFlowActionType_value
        /\ r.action[i].conf # None => r.action[i].conf # Bad
  BY DEF validateRules, GetFlowActionAnyForWebhook
<1>3. \A i \in VfPciAddrs(r) : r.action[i].conf.addr \in Addresses
  <2> TAKE i \in VfPciAddrs(r)
  <2>1. i \in DOMAIN r.action /\ r.action[i].type = "VFPCIADDR" /\ r.action[i].conf # None
    BY DEF VfPciAddrs
  <2>2. GetFlowActionAnyForWebhook(r.action[i]) /\ IsAction(r.action[i])
    BY <2>1 DEF validateRules, IsNodeRule
  <2> QED
    BY <2>1, <2>2 DEF GetFlowActionAnyForWebhook, IsAction
<1>4. CASE \E i \in DOMAIN r.action : r.action[i].conf # None /\ ~GetFlowActionAny(r.action[i])
  <2>1. PICK i \in DOMAIN r.action : r.action[i].conf # None /\ ~GetFlowActionAny(r.action[i])
    BY <1>4
  <2>2. r.action[i].type = "VFPCIADDR" /\ r.action[i].conf.addr \notin vfs
    BY <1>2, <2>1 DEF GetFlowActionAny
  <2>3. i \in VfPciAddrs(r)
    BY <2>1, <2>2 DEF VfPciAddrs
  <2> QED
    BY <1>3, <2>2, <2>3
<1>5. CASE r.port = AutoPort /\ ~getPortIdFromDCFPort(r)
  <2>1. SUFFICES ASSUME VfPciAddrs(r) # {}, FirstAddress(r) \notin Addresses \ ports
                 PROVE  \E i \in VfPciAddrs(r) : r.action[i].conf.addr \in Addresses \ vfs
    BY <1>5
  <2>2. PICK i \in VfPciAddrs(r) : FirstAddress(r) = r.action[i].conf.addr
    BY <2>1, FirstIsOne DEF IsNodeRule
  <2>3. FirstAddress(r) \in Addresses
    BY <1>3, <2>2
  <2>4. FirstAddress(r) \notin vfs
    BY <1>5, <2>1, <2>3 DEF getPortIdFromDCFPort
  <2> QED
    BY <2>2, <2>3, <2>4
<1> QED
  BY <1>1, <1>2, <1>4, <1>5 DEF getFlowCreateRequests

\* What a webhook let in, the daemon translates, unless the node lacks a VF or a
\* port that it names: no other difference between the two decoders is left to
\* stop all rules of a node.
THEOREM NodeAloneRefuses == AdmissionSpec => OnlyTheNodeRefuses
<1> DEFINE Lacking ==
      \E r \in StoredRules :
        \/ \E i \in VfPciAddrs(r) : r.action[i].conf.addr \in Addresses \ vfs
        \/ r.port = AutoPort /\ (VfPciAddrs(r) = {} \/ FirstAddress(r) \in Addresses \ ports)
<1>1. AdmissionInv /\ [AdmissionNext]_admissionVars =>
        [SyncRules /\ sync' = "error" => Lacking]_admissionVars
  <2> SUFFICES ASSUME AdmissionInv, SyncRules, sync' = "error"
               PROVE  Lacking
    OBVIOUS
  <2>1. nfc # None /\ ~\A i \in DOMAIN nfc : getFlowCreateRequests(nfc[i])
    BY DEF SyncRules
  <2>2. PICK i \in DOMAIN nfc : ~getFlowCreateRequests(nfc[i])
    BY <2>1
  <2>3. nfc[i] \in StoredRules /\ IsNodeRule(nfc[i]) /\ validateRules(nfc[i])
    BY <2>1, <2>2 DEF StoredRules, AdmissionInv
  <2> QED
    BY <2>2, <2>3, Translated
<1> QED
  BY <1>1, AdmissionStart, AdmissionStep, PTL DEF AdmissionSpec, OnlyTheNodeRefuses

-----------------------------------------------------------------------------
(* What is stored fits *)

Numbered ==
  {"type"} \cup RteFlowItemVlan \cup (RteIpv4Hdr \ {"src_addr", "dst_addr"}) \cup RteUdpHdr
    \cup RteFlowItemPppoe \cup RteFlowItemPppoeProtoId

\* The webhooks' limits are those of the documentation, or below.
LEMMA LimitFits == \A f \in Numbered : Limit[f] \in Nat /\ Limit[f] <= Documented(f)
<1>1. /\ Limit["type"] = 65535 /\ Limit["tci"] = 65535 /\ Limit["inner_type"] = 65535
      /\ Limit["version_ihl"] = 255 /\ Limit["type_of_service"] = 255 /\ Limit["total_length"] = 65535
      /\ Limit["packet_id"] = 65535 /\ Limit["fragment_offset"] = 65535 /\ Limit["time_to_live"] = 255
      /\ Limit["next_proto_id"] = 255 /\ Limit["hdr_checksum"] = 255
      /\ Limit["src_port"] = 65535 /\ Limit["dst_port"] = 65535 /\ Limit["dgram_len"] = 65535
      /\ Limit["dgram_cksum"] = 65535 /\ Limit["version_type"] = 255 /\ Limit["code"] = 255
      /\ Limit["session_id"] = 65535 /\ Limit["length"] = 65535 /\ Limit["proto_id"] = 65535
  BY DEF Limit
<1>2. /\ \A f \in {"type"} \cup RteFlowItemVlan : Limit[f] = 65535
      /\ \A f \in RteUdpHdr \cup RteFlowItemPppoeProtoId : Limit[f] = 65535
  BY <1>1 DEF RteFlowItemVlan, RteUdpHdr, RteFlowItemPppoeProtoId
<1>3. \A f \in RteFlowItemPppoe : Limit[f] = 255 \/ (Limit[f] = 65535 /\ Documented(f) = 65535)
  BY <1>1 DEF RteFlowItemPppoe, Documented
<1>4. \A f \in RteIpv4Hdr \ {"src_addr", "dst_addr"} :
        Limit[f] = 255 \/ (Limit[f] = 65535 /\ Documented(f) = 65535)
  BY <1>1 DEF RteIpv4Hdr, Documented
<1>5. \A f \in {"type"} \cup RteFlowItemVlan \cup RteUdpHdr \cup RteFlowItemPppoeProtoId : Documented(f) = 65535
  BY DEF RteFlowItemVlan, RteUdpHdr, RteFlowItemPppoeProtoId, Documented
<1>6. \A f : Documented(f) \in {255, 65535}
  BY DEF Documented
<1> QED
  BY <1>2, <1>3, <1>4, <1>5, <1>6 DEF Numbered

\* The messages of the types that are looked into.
LEMMA Messages ==
  /\ GetFlowItemObj["ETH"] = RteFlowItemEth /\ GetFlowItemObj["VLAN"] = RteFlowItemVlan
  /\ GetFlowItemObj["IPV4"] = RteFlowItemIpv4 /\ GetFlowItemObj["UDP"] = RteFlowItemUdp
  /\ GetFlowItemObj["PPPOES"] = RteFlowItemPppoe /\ GetFlowItemObj["PPPOED"] = RteFlowItemPppoe
  /\ GetFlowItemObj["PPPOE_PROTO_ID"] = RteFlowItemPppoeProtoId
BY DEF GetFlowItemObj

Addressed == {"hdr", "dst", "src", "src_addr", "dst_addr"}

\* A field that is limited fits.
LEMMA LimitedFits ==
  ASSUME NEW m, m # None, NEW f \in DOMAIN m \ Addressed, m[f] \in FieldValues(f),
         NEW F, f \in F, F \subseteq Numbered, Limited(m, F)
  PROVE  m[f] <= Documented(f)
<1>1. m[f] \in Nat
  BY DEF FieldValues, Addressed
<1>2. Get(m, f) = m[f]
  BY DEF Get, Addressed
<1>3. m[f] <= Limit[f]
  BY <1>2 DEF Limited
<1>4. Limit[f] \in Nat /\ Limit[f] <= Documented(f) /\ Documented(f) \in Nat
  BY LimitFits DEF Documented
<1> QED
  BY <1>1, <1>3, <1>4

\* A message that passed sets its fields within the documented limits.
LEMMA MessageFits ==
  ASSUME NEW t \in LookedInto, NEW name, NEW spec, NEW m, m # None,
         \A f \in DOMAIN m : m[f] \in FieldValues(f),
         t = "UDP" /\ DOMAIN m \cap RteUdpHdr # {} => HasHdr(m),
         GetFlowItemAny(t, m), validateItem(t, name, spec, m),
         NEW f \in DOMAIN m \ Addressed
  PROVE  m[f] <= Documented(f)
<1>0. f \in GetFlowItemObj[t]
  BY DEF GetFlowItemAny
<1>1. SUFFICES \E F : f \in F /\ F \subseteq Numbered /\ Limited(m, F)
  BY LimitedFits
<1>2. CASE t = "ETH"
  <2>1. f \in {"type"} /\ Limited(m, {"type"})
    BY <1>0, <1>2, Messages DEF validateItem, validateRteFlowItemEth, RteFlowItemEth, Addressed
  <2> QED
    BY <2>1 DEF Numbered
<1>3. CASE t = "VLAN"
  <2>1. f \in RteFlowItemVlan /\ Limited(m, RteFlowItemVlan)
    BY <1>0, <1>3, Messages DEF validateItem, validateRteFlowItemVlan
  <2> QED
    BY <2>1 DEF Numbered
<1>4. CASE t = "IPV4"
  <2>1. Limited(m, RteIpv4Hdr \ {"src_addr", "dst_addr"})
    BY <1>4 DEF validateItem, validateRteFlowItemIpv4
  <2>2. f \in RteIpv4Hdr \ {"src_addr", "dst_addr"}
    BY <1>0, <1>4, Messages DEF RteFlowItemIpv4, Addressed
  <2> QED
    BY <2>1, <2>2 DEF Numbered
<1>5. CASE t = "UDP"
  <2>1. f \in RteUdpHdr
    BY <1>0, <1>5, Messages DEF RteFlowItemUdp, Addressed
  <2>2. HasHdr(m)
    BY <1>5, <2>1
  <2>3. Limited(m, RteUdpHdr)
    BY <1>5, <2>2 DEF validateItem, validateRteFlowItemUdp
  <2> QED
    BY <2>1, <2>3 DEF Numbered
<1>6. CASE t \in {"PPPOES", "PPPOED"}
  <2>1. f \in RteFlowItemPppoe /\ Limited(m, RteFlowItemPppoe)
    BY <1>0, <1>6, Messages DEF validateItem, validateRteFlowItemPppoe
  <2> QED
    BY <2>1 DEF Numbered
<1>7. CASE t = "PPPOE_PROTO_ID"
  <2>1. f \in RteFlowItemPppoeProtoId /\ Limited(m, RteFlowItemPppoeProtoId)
    BY <1>0, <1>7, Messages DEF validateItem, validateRteFlowItemPppoeProtoId
  <2> QED
    BY <2>1 DEF Numbered
<1> QED
  BY <1>2, <1>3, <1>4, <1>5, <1>6, <1>7 DEF LookedInto

\* What the webhook found of each message of an item that passed.
LEMMA ItemPassed ==
  ASSUME NEW item, validateRteFlowItem(item), NEW m \in {item.spec, item.last, item.mask} \ {None}
  PROVE  GetFlowItemAny(item.type, m) /\ \E name, spec : validateItem(item.type, name, spec, m)
BY DEF validateRteFlowItem

\* A stored item is one that passed.
LEMMA StoredPassed ==
  ASSUME AdmissionInv, NEW item \in StoredItems
  PROVE  IsItem(item) /\ validateRteFlowItem(item)
<1>1. PICK r \in StoredRules : \E i \in DOMAIN r.pattern : item = r.pattern[i]
  BY DEF StoredItems
<1>2. IsNodeRule(r) /\ validateRules(r)
  BY <1>1 DEF StoredRules, AdmissionInv
<1> QED
  BY <1>1, <1>2 DEF IsNodeRule, validateRules, validateFlowPatterns

\* A stored rule, written by a user or generated, has only fields that its messages
\* have, within the documented limits, and ends as the server wants it.
THEOREM Fits == AdmissionSpec => []AdmittedFits
<1>1. AdmissionInv => AdmittedFits
  <2> SUFFICES ASSUME AdmissionInv PROVE AdmittedFits
    OBVIOUS
  <2>1. ASSUME NEW item \in StoredItems, NEW m \in {item.spec, item.last, item.mask} \ {None}
        PROVE  /\ DOMAIN m \subseteq GetFlowItemObj[item.type]
               /\ item.type \in LookedInto => \A f \in DOMAIN m \ Addressed : m[f] <= Documented(f)
    <3>1. IsItem(item) /\ validateRteFlowItem(item)
      BY StoredPassed
    <3>2. GetFlowItemAny(item.type, m)
      BY <2>1, <3>1, ItemPassed
    <3>3. PICK name, spec : validateItem(item.type, name, spec, m)
      BY <2>1, <3>1, ItemPassed
    <3>4. /\ \A f \in DOMAIN m : m[f] \in FieldValues(f)
          /\ item.type = "UDP" /\ DOMAIN m \cap RteUdpHdr # {} => HasHdr(m)
      BY <3>1 DEF IsItem
    <3>5. DOMAIN m \subseteq GetFlowItemObj[item.type]
      BY <3>2 DEF GetFlowItemAny
    <3>6. item.type \in LookedInto => \A f \in DOMAIN m \ Addressed : m[f] <= Documented(f)
      BY <2>1, <3>2, <3>3, <3>4, MessageFits
    <3> QED
      BY <3>5, <3>6
  <2>2. ASSUME NEW r \in StoredRules
        PROVE  /\ \A i \in DOMAIN r.action :
                    /\ r.action[i].type = "VF" => r.action[i].conf.id <= 255
                    /\ r.action[i].type \in NotConfigurable => r.action[i].conf = None
               /\ EndsWithEnd(r.pattern) /\ EndsWithEnd(r.action) /\ r.attr # None
    <3>1. validateRules(r)
      BY DEF StoredRules, AdmissionInv
    <3>2. \A i \in DOMAIN r.action :
            /\ r.action[i].type = "VF" => r.action[i].conf.id <= 255
            /\ r.action[i].type \in NotConfigurable => r.action[i].conf = None
      <4> TAKE i \in DOMAIN r.action
      <4>1. validateRteFlowAction(r.action[i])
        BY <3>1 DEF validateRules
      <4>2. r.action[i].type # "VFPCIADDR" => GetFlowActionType(r.action[i].type) = r.action[i].type
        BY DEF GetFlowActionType
      <4> QED
        BY <4>1, <4>2, GeneratedTypes DEF validateRteFlowAction
    <3> QED
      BY <3>1, <3>2 DEF validateRules, validateFlowPatterns, validateFlowAttr
  <2>3. /\ cfc # None => cfc.podSelector # None
        /\ pod \in Pods \cup {None} /\ vfs \cup ports \subseteq Addresses
        /\ sync \in {"none", "error", "ok"} /\ refused \in BOOLEAN
    BY DEF AdmissionInv, ValidateCluster
  <2> QED
    BY <2>1, <2>2, <2>3 DEF AdmittedFits, Addressed
<1> QED
  BY <1>1, AdmissionStart, AdmissionStep, PTL DEF AdmissionSpec

-----------------------------------------------------------------------------
(* Ranges *)

\* Each field that last or mask sets was compared with that of spec; those of
\* PPPoE, and of UDP without a header in spec, only where spec sets it.
LEMMA FieldCompared ==
  ASSUME NEW t \in LookedInto, NEW name, NEW spec, spec # None, NEW m, m # None,
         t = "UDP" /\ DOMAIN spec \cap RteUdpHdr # {} => HasHdr(spec),
         validateItem(t, "spec", None, spec), GetFlowItemAny(t, m), validateItem(t, name, spec, m),
         NEW f \in DOMAIN m \ {"hdr"}, Get(m, f) # 0,
         t \in {"PPPOES", "PPPOED"} \/ (t = "UDP" /\ ~HasHdr(spec)) => Get(spec, f) # 0
  PROVE  validateUint32ItemField(name, Get(spec, f), Get(m, f))
<1>0. f \in GetFlowItemObj[t]
  BY DEF GetFlowItemAny
<1>1. CASE t = "ETH"
  <2>1. validateRteFlowItemEth(name, spec, m)
    BY <1>1 DEF validateItem
  <2>2. f \in {"dst", "src", "type"}
    BY <1>0, <1>1, Messages DEF RteFlowItemEth
  <2> QED
    BY <2>1, <2>2 DEF validateRteFlowItemEth
<1>2. CASE t = "VLAN"
  BY <1>0, <1>2, Messages DEF validateItem, validateRteFlowItemVlan
<1>3. CASE t = "IPV4"
  <2>1. HasHdr(spec) /\ validateRteFlowItemIpv4(name, spec, m)
    BY <1>3 DEF validateItem, validateRteFlowItemIpv4
  <2>2. f \in RteIpv4Hdr
    BY <1>0, <1>3, Messages DEF RteFlowItemIpv4
  <2> QED
    BY <2>1, <2>2 DEF validateRteFlowItemIpv4
<1>4. CASE t = "UDP"
  <2>1. validateRteFlowItemUdp(name, spec, m)
    BY <1>4 DEF validateItem
  <2>2. f \in RteUdpHdr
    BY <1>0, <1>4, Messages DEF RteFlowItemUdp
  <2>3. Get(spec, f) # 0 => HasHdr(spec)
    BY <1>4, <2>2 DEF Get
  <2> QED
    BY <1>4, <2>1, <2>2, <2>3 DEF validateRteFlowItemUdp
<1>5. CASE t \in {"PPPOES", "PPPOED"}
  <2>1. validateRteFlowItemPppoe(name, spec, m) /\ f \in RteFlowItemPppoe
    BY <1>0, <1>5, Messages DEF validateItem
  <2> QED
    BY <1>5, <2>1 DEF validateRteFlowItemPppoe
<1>6. CASE t = "PPPOE_PROTO_ID"
  <2>1. validateRteFlowItemPppoeProtoId(name, spec, m) /\ f = "proto_id"
    BY <1>0, <1>6, Messages DEF validateItem, RteFlowItemPppoeProtoId
  <2> QED
    BY <2>1 DEF validateRteFlowItemPppoeProtoId
<1> QED
  BY <1>1, <1>2, <1>3, <1>4, <1>5, <1>6 DEF LookedInto

\* In a stored rule no range is upside down, and none has an end or a mask without
\* a beginning, but where the webhook does not look.
THEOREM Ordered == AdmissionSpec => []RangesOrdered
<1>1. AdmissionInv => RangesOrdered
  <2> SUFFICES ASSUME AdmissionInv, NEW item \in StoredItems, item.type \in LookedInto, item.spec # None
               PROVE  /\ item.last # None =>
                           \A f \in DOMAIN item.last \ {"hdr"} :
                             Get(item.last, f) # 0 /\ Get(item.spec, f) # 0 =>
                               Get(item.last, f) >= Get(item.spec, f)
                      /\ item.type \notin {"PPPOES", "PPPOED"} /\ (item.type = "UDP" => HasHdr(item.spec)) =>
                           \A m \in {item.last, item.mask} \ {None} :
                             \A f \in DOMAIN m \ {"hdr"} : Get(m, f) # 0 => Get(item.spec, f) # 0
    BY DEF RangesOrdered
  <2>1. IsItem(item) /\ validateRteFlowItem(item)
    BY StoredPassed
  <2>2. validateItem(item.type, "spec", None, item.spec)
    BY <2>1 DEF validateRteFlowItem
  <2>3. item.type = "UDP" /\ DOMAIN item.spec \cap RteUdpHdr # {} => HasHdr(item.spec)
    BY <2>1 DEF IsItem
  <2>4. ASSUME item.last # None, NEW f \in DOMAIN item.last \ {"hdr"},
               Get(item.last, f) # 0, Get(item.spec, f) # 0
        PROVE  Get(item.last, f) >= Get(item.spec, f)
    <3>1. GetFlowItemAny(item.type, item.last) /\ validateItem(item.type, "last", item.spec, item.last)
      BY <2>1, <2>4 DEF validateRteFlowItem
    <3>2. validateUint32ItemField("last", Get(item.spec, f), Get(item.last, f))
      BY <2>2, <2>3, <2>4, <3>1, FieldCompared
    <3> QED
      BY <3>2 DEF validateUint32ItemField
  <2>5. ASSUME item.type \notin {"PPPOES", "PPPOED"}, item.type = "UDP" => HasHdr(item.spec),
               NEW m \in {item.last, item.mask} \ {None}, NEW f \in DOMAIN m \ {"hdr"}, Get(m, f) # 0
        PROVE  Get(item.spec, f) # 0
    <3>1. PICK name \in {"last", "mask"} :
            GetFlowItemAny(item.type, m) /\ validateItem(item.type, name, item.spec, m)
      BY <2>1, <2>5 DEF validateRteFlowItem
    <3>2. validateUint32ItemField(name, Get(item.spec, f), Get(m, f))
      BY <2>2, <2>3, <2>5, <3>1, FieldCompared
    <3> QED
      BY <2>5, <3>1, <3>2 DEF validateUint32ItemField
  <2> QED
    BY <2>4, <2>5
<1> QED
  BY <1>1, AdmissionStart, AdmissionStep, PTL DEF AdmissionSpec

=============================================================================
