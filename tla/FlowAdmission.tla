------------------------------ MODULE FlowAdmission ------------------------------
(***************************************************************************)
(* apis/flowconfig/v1 (the webhooks), pkg/flowconfig/utils, rpc/v1/flow    *)
(* and the translations of both flow controllers: the way of a flow rule   *)
(* from a user to the request that the node's daemon sends to the server.  *)
(*                                                                         *)
(* ClusterFlowConfig and NodeFlowConfig are checked by a webhook when they *)
(* are written, the NodeFlowConfig that a controller generates too.  The   *)
(* daemon decodes the same bytes again; if one rule fails, no rule of the  *)
(* node is synced.  A webhook that panics refuses (failurePolicy=fail).    *)
(***************************************************************************)
EXTENDS FlowMessages, Naturals, Sequences

CONSTANTS
  None,         \* a field that is not set, an object that is not there
  Bad,          \* a value that does not parse
  LongMAC,      \* a MAC address of more than 63 bits
  Unknown,      \* a type name that is not in the table
  AutoPort,     \* automaticPortId
  Addresses,    \* well-formed PCI addresses
  Malformed,    \* a PCI address that is not well-formed
  Interfaces,   \* interface names of pods
  NodeRules,    \* the rules that users write into a NodeFlowConfig
  ClusterRules, \* the rules that users write into a ClusterFlowConfig
  Pods          \* what pods can have: an address, or None, per interface

VARIABLES
  cfc,     \* Spec of the ClusterFlowConfig: podSelector and rules; or None
  nfc,     \* Spec.Rules of the NodeFlowConfig, or None
  pod,     \* the selected pod on the node, or None
  vfs,     \* the VFs on the node
  ports,   \* the VFs on whose PF the server has a port
  sync,    \* the daemon's last translation: "none", "error" or "ok"
  refused  \* the webhook refused what the controller generated

admissionVars == <<cfc, nfc, pod, vfs, ports, sync, refused>>

-----------------------------------------------------------------------------
(* The bytes of spec, last and mask are functions from the fields they set to  *)
(* values.  "hdr" is set where there is a header, its value does not matter.   *)

Get(m, f) ==
  IF m = None \/ f \notin DOMAIN m THEN 0
  ELSE IF f \in {"dst", "src"} THEN m[f].lo ELSE m[f]

HasHdr(m) == m # None /\ "hdr" \in DOMAIN m

\* What a decoder can find in a field: numbers, and addresses that parse or not.
FieldValues(f) ==
  CASE f \in {"dst", "src"} -> {Bad, LongMAC} \cup [hi : Nat, lo : Nat]
    [] f \in {"src_addr", "dst_addr"} -> Nat \cup {Bad}
    [] OTHER -> Nat

IsList(l) == l \in Seq({l[i] : i \in DOMAIN l})

\* A message sets fields of a header in a header.
IsItem(item) ==
  \A m \in {item.spec, item.last, item.mask} \ {None} :
    /\ \A f \in DOMAIN m : m[f] \in FieldValues(f)
    /\ item.type = "UDP" /\ DOMAIN m \cap RteUdpHdr # {} => HasHdr(m)

IsAction(a) ==
  a.type = "VFPCIADDR" /\ a.conf \notin {None, Bad} => a.conf.addr \in Addresses \cup {Malformed}

IsNodeRule(r) ==
  /\ IsList(r.action)
  /\ \A i \in DOMAIN r.pattern : IsItem(r.pattern[i])
  /\ \A i \in DOMAIN r.action : IsAction(r.action[i])

IsClusterRule(r) ==
  /\ IsList(r.action)
  /\ \A i \in DOMAIN r.pattern : IsItem(r.pattern[i])
  /\ \A i \in DOMAIN r.action : r.action[i].conf \in Interfaces \cup {None, Bad, ""}

ASSUME RulesAssumption ==
  (\A r \in NodeRules : IsNodeRule(r)) /\ (\A r \in ClusterRules : IsClusterRule(r))
ASSUME PodsAssumption == Pods \subseteq [Interfaces -> Addresses \cup {None}]
ASSUME NamesAssumption ==
  {None, Malformed} \cap Addresses = {} /\ {None, Bad} \cap [addr : Addresses] = {}

-----------------------------------------------------------------------------
(* Decoding *)

\* Addresses that do not parse are errors.  (A MAC is cut to 32 bits only to be
\* compared, an IPv6 address is cut to its last 32 bits.)
ToRteFlowItemEth(m) == \A f \in {"dst", "src"} \cap DOMAIN m : m[f] # Bad
ToRteFlowItemIpv4(m) == \A f \in {"src_addr", "dst_addr"} \cap DOMAIN m : m[f] # Bad

\* GetFlowItemAny, GetEthAnyObj, GetIPv4AnyObj: fields that the message does not
\* have are errors.
GetFlowItemAny(t, m) ==
  /\ t \in RteFlowItemType_value
  /\ DOMAIN m \subseteq GetFlowItemObj[t]
  /\ t = "ETH" => ToRteFlowItemEth(m)
  /\ t = "IPV4" => ToRteFlowItemIpv4(m)

\* GetFlowActionType: VFPCIADDR is the users' name for a VF.
GetFlowActionType(t) == IF t = "VFPCIADDR" THEN "VF" ELSE t

\* Faulty: any address will do.
GetFlowActionAnyUnchecked(a) == a.conf # Bad

\* handleActionVfPciAddr and GetFlowActionAny in the webhook: the address only
\* has to look like one.  Unknown fields are passed over.
GetFlowActionAnyForWebhook(a) == a.conf # Bad /\ (a.type = "VFPCIADDR" => a.conf.addr # Malformed)

\* The same in the daemon: the VF has to be there.
GetFlowActionAny(a) == a.conf # Bad /\ (a.type = "VFPCIADDR" => a.conf.addr \in vfs)

-----------------------------------------------------------------------------
(* The webhooks *)

\* Faulty: the order of last and spec is not looked at.
validateUint32ItemFieldUnordered(name, spec, v) ==
  name = "spec" \/ spec # 0 \/ v = 0

validateUint32ItemField(name, spec, v) ==
  \/ name = "spec"
  \/ (spec # 0 \/ v = 0) /\ (name = "last" => v >= spec)

Limit == [type |-> 65535, tci |-> 65535, inner_type |-> 65535,
  version_ihl |-> 255, type_of_service |-> 255, total_length |-> 65535, packet_id |-> 65535,
  fragment_offset |-> 65535, time_to_live |-> 255, next_proto_id |-> 255, hdr_checksum |-> 255,
  src_port |-> 65535, dst_port |-> 65535, dgram_len |-> 65535, dgram_cksum |-> 65535,
  version_type |-> 255, code |-> 255, session_id |-> 65535, length |-> 65535, proto_id |-> 65535]

Limited(m, fields) == \A f \in fields : Get(m, f) <= Limit[f]

\* A type of 0 is not compared, an address that is not set neither.
validateRteFlowItemEth(name, spec, m) ==
  /\ Get(m, "type") # 0 => validateUint32ItemField(name, Get(spec, "type"), Get(m, "type"))
  /\ \A f \in {"dst", "src"} \cap DOMAIN m :
       m[f] # LongMAC /\ validateUint32ItemField(name, Get(spec, f), Get(m, f))
  /\ Limited(m, {"type"})

\* Faulty: the limit of inner_type is forgotten.
validateRteFlowItemVlanTci(name, spec, m) ==
  /\ \A f \in RteFlowItemVlan : validateUint32ItemField(name, Get(spec, f), Get(m, f))
  /\ Limited(m, {"tci"})

validateRteFlowItemVlan(name, spec, m) ==
  /\ \A f \in RteFlowItemVlan : validateUint32ItemField(name, Get(spec, f), Get(m, f))
  /\ Limited(m, RteFlowItemVlan)

\* Without a header the webhook panics.
validateRteFlowItemIpv4(name, spec, m) ==
  /\ HasHdr(m)
  /\ HasHdr(spec) =>
       \A f \in RteIpv4Hdr : validateUint32ItemField(name, Get(spec, f), Get(m, f))
  /\ Limited(m, RteIpv4Hdr \ {"src_addr", "dst_addr"})

\* It panics without a header where spec has one.  Fields of 0 are not compared.
validateRteFlowItemUdp(name, spec, m) ==
  /\ HasHdr(spec) =>
       /\ HasHdr(m)
       /\ \A f \in RteUdpHdr :
            Get(m, f) # 0 => validateUint32ItemField(name, Get(spec, f), Get(m, f))
  /\ HasHdr(m) => Limited(m, RteUdpHdr)

\* Fields that are 0 in spec are not compared.
validateRteFlowItemPppoe(name, spec, m) ==
  /\ \A f \in RteFlowItemPppoe :
       Get(spec, f) # 0 => validateUint32ItemField(name, Get(spec, f), Get(m, f))
  /\ Limited(m, RteFlowItemPppoe)

validateRteFlowItemPppoeProtoId(name, spec, m) ==
  /\ validateUint32ItemField(name, Get(spec, "proto_id"), Get(m, "proto_id"))
  /\ Limited(m, RteFlowItemPppoeProtoId)

validateItem(t, name, spec, m) ==
  /\ spec = None => name = "spec"
  /\ CASE t = "ETH" -> validateRteFlowItemEth(name, spec, m)
       [] t = "VLAN" -> validateRteFlowItemVlan(name, spec, m)
       [] t = "IPV4" -> validateRteFlowItemIpv4(name, spec, m)
       [] t = "UDP" -> validateRteFlowItemUdp(name, spec, m)
       [] t \in {"PPPOES", "PPPOED"} -> validateRteFlowItemPppoe(name, spec, m)
       [] t = "PPPOE_PROTO_ID" -> validateRteFlowItemPppoeProtoId(name, spec, m)
       [] OTHER -> TRUE

validateRteFlowItem(item) ==
  /\ item.type \in RteFlowItemType_value
  /\ item.spec # None =>
       GetFlowItemAny(item.type, item.spec) /\ validateItem(item.type, "spec", None, item.spec)
  /\ item.last # None =>
       GetFlowItemAny(item.type, item.last) /\ validateItem(item.type, "last", item.spec, item.last)
  /\ item.mask # None =>
       GetFlowItemAny(item.type, item.mask) /\ validateItem(item.type, "mask", item.spec, item.mask)

\* The last one, if there is one, is an END.
EndsWithEnd(list) == list # <<>> => list[Len(list)].type = "END"

validateFlowPatterns(patterns) ==
  (\A i \in DOMAIN patterns : validateRteFlowItem(patterns[i])) /\ EndsWithEnd(patterns)

\* Attributes that are not set make the webhook panic.
validateFlowAttr(attr) ==
  attr # None /\ attr.ingress <= 1 /\ attr.egress <= 1 /\ attr.transfer <= 1

validateRteFlowAction(a) ==
  LET t == GetFlowActionType(a.type)
  IN /\ t = "VF" => /\ a.conf # None
                    /\ a.type = "VF" => a.conf.id <= 255 /\ a.conf.original <= 1 /\ a.conf.reserved = 0
     /\ t \in NotConfigurable => a.conf = None

\* FlowRules.validate
validateRules(r) ==
  /\ validateFlowPatterns(r.pattern)
  /\ \A i \in DOMAIN r.action :
       /\ GetFlowActionType(r.action[i].type) \in RteFlowActionType_value
       /\ r.action[i].conf # None => GetFlowActionAnyForWebhook(r.action[i])
       /\ validateRteFlowAction(r.action[i])
  /\ EndsWithEnd(r.action)
  /\ validateFlowAttr(r.attr)

\* ValidateCreate and ValidateUpdate of a NodeFlowConfig
ValidateNode(rules) == \A i \in DOMAIN rules : validateRules(rules[i])

\* A cluster action is to-pod-interface (no other can be decoded), conf is the
\* name of the interface.
validateClusterFlowAction(actions) ==
  \A i \in DOMAIN actions : actions[i].conf \notin {None, Bad, ""}

\* ClusterFlowRule.validate
validateClusterRule(r) ==
  /\ validateFlowPatterns(r.pattern)
  /\ validateClusterFlowAction(r.action)
  /\ validateFlowAttr(r.attr)

\* ValidateCreate and ValidateUpdate of a ClusterFlowConfig
ValidateCluster(spec) ==
  (\A i \in DOMAIN spec.rules : validateClusterRule(spec.rules[i])) /\ spec.podSelector # None

-----------------------------------------------------------------------------
(* The controllers *)

\* Faulty: the list that is generated has no END.
getNodeActionsWithoutEnd(actions, p) ==
  [i \in DOMAIN actions |-> [type |-> "VFPCIADDR", conf |-> [addr |-> p[actions[i].conf]]]]

\* Each action becomes the address of the pod's interface; then an END.
getNodeActionsFromClusterActions(actions, p) ==
  LET vf == [i \in DOMAIN actions |-> [type |-> "VFPCIADDR", conf |-> [addr |-> p[actions[i].conf]]]]
  IN IF vf = <<>> THEN vf ELSE Append(vf, [type |-> "END", conf |-> None])

\* updateNodeFlowConfigSpec
Generated(rules, p) ==
  [i \in DOMAIN rules |->
    [port |-> AutoPort, attr |-> rules[i].attr, pattern |-> rules[i].pattern,
     action |-> getNodeActionsFromClusterActions(rules[i].action, p)]]

\* getNodeActionForPodInterface fails if the pod does not have the interface.
HasInterfaces(rules, p) ==
  \A i \in DOMAIN rules : \A j \in DOMAIN rules[i].action : p[rules[i].action[j].conf] # None

\* The indices of the actions that name a VF by its address.
VfPciAddrs(r) == {i \in DOMAIN r.action : r.action[i].type = "VFPCIADDR" /\ r.action[i].conf # None}

\* podPciAddress: the first of them.
FirstAddress(r) ==
  r.action[CHOOSE i \in VfPciAddrs(r) : \A j \in VfPciAddrs(r) : i <= j].conf.addr

\* getPortIdFromDCFPort finds the PF of the first address, and a port on it.
getPortIdFromDCFPort(r) == VfPciAddrs(r) # {} /\ FirstAddress(r) \in vfs \cap ports

\* getFlowCreateRequests succeeds.
getFlowCreateRequests(r) ==
  /\ \A i \in DOMAIN r.pattern :
       /\ r.pattern[i].type \in RteFlowItemType_value
       /\ \A m \in {r.pattern[i].spec, r.pattern[i].last, r.pattern[i].mask} \ {None} :
            GetFlowItemAny(r.pattern[i].type, m)
  /\ \A i \in DOMAIN r.action :
       /\ GetFlowActionType(r.action[i].type) \in RteFlowActionType_value
       /\ r.action[i].conf # None => GetFlowActionAny(r.action[i])
  /\ r.port = AutoPort => getPortIdFromDCFPort(r)

-----------------------------------------------------------------------------
AdmissionInit ==
  /\ cfc = None /\ nfc = None /\ pod = None
  /\ vfs = Addresses /\ ports = Addresses
  /\ sync = "none" /\ refused = FALSE

\* What the webhooks let in of what users write.  The rest changes nothing.
AdmittedNodeRules == {r \in NodeRules : ValidateNode(<<r>>)}

ClusterSpecs == [podSelector : {"all", None}, rules : {<<r>> : r \in ClusterRules}]
AdmittedClusterSpecs == {spec \in ClusterSpecs : ValidateCluster(spec)}

\* A user creates a NodeFlowConfig.  (An update, which is looked at in the same
\* way whatever there was before, is a DeleteNode and a WriteNode.)
WriteNode(rules) ==
  /\ nfc = None
  /\ nfc' = rules /\ sync' = "none"
  /\ UNCHANGED <<cfc, pod, vfs, ports, refused>>

\* A user creates or updates a ClusterFlowConfig.
WriteCluster(spec) ==
  /\ cfc' = spec
  /\ UNCHANGED <<nfc, pod, vfs, ports, sync, refused>>

\* Deletions are not looked at.
DeleteNode ==
  /\ nfc' = None /\ sync' = "none"
  /\ UNCHANGED <<cfc, pod, vfs, ports, refused>>

\* The ClusterFlowConfig controller writes the NodeFlowConfig.
CreateOrUpdate ==
  /\ cfc # None /\ pod # None /\ HasInterfaces(cfc.rules, pod)
  /\ IF ValidateNode(Generated(cfc.rules, pod))
       THEN nfc' = Generated(cfc.rules, pod) /\ sync' = "none" /\ UNCHANGED refused
       ELSE refused' = TRUE /\ UNCHANGED <<nfc, sync>>
  /\ UNCHANGED <<cfc, pod, vfs, ports>>

\* The daemon translates all rules, or none.
SyncRules ==
  /\ nfc # None
  /\ sync' = IF \A i \in DOMAIN nfc : getFlowCreateRequests(nfc[i]) THEN "ok" ELSE "error"
  /\ UNCHANGED <<cfc, nfc, pod, vfs, ports, refused>>

\* A pod comes or goes; the node's VFs and the server's ports change.
PodChanges(p) == pod' = p /\ UNCHANGED <<cfc, nfc, vfs, ports, sync, refused>>

NodeChanges(v, d) ==
  /\ vfs' = v /\ ports' = d
  /\ UNCHANGED <<cfc, nfc, pod, sync, refused>>

AdmissionNext ==
  \/ \E r \in AdmittedNodeRules : WriteNode(<<r>>)
  \/ \E spec \in AdmittedClusterSpecs : WriteCluster(spec)
  \/ DeleteNode \/ CreateOrUpdate \/ SyncRules
  \/ \E p \in Pods \cup {None} : PodChanges(p)
  \/ \E v, d \in SUBSET Addresses : NodeChanges(v, d)

AdmissionSpec == AdmissionInit /\ [][AdmissionNext]_admissionVars

-----------------------------------------------------------------------------
(* Properties *)

StoredRules == IF nfc = None THEN {} ELSE {nfc[i] : i \in DOMAIN nfc}
StoredItems == UNION {{r.pattern[i] : i \in DOMAIN r.pattern} : r \in StoredRules}

\* The types whose fields the webhooks look into.
LookedInto == {"ETH", "VLAN", "IPV4", "UDP", "PPPOES", "PPPOED", "PPPOE_PROTO_ID"}

\* The widths of the header fields, as creating-rules.md documents them.
Documented(f) ==
  IF f \in {"version_ihl", "type_of_service", "time_to_live", "next_proto_id", "version_type", "code"}
    THEN 255 ELSE 65535

\* What is stored, written by a user or generated, is what the server can take: it
\* sets only fields that the message of its type has, holds no number that its
\* header field or its VF cannot hold (the server would cut it), configures only
\* what can be configured, and ends as DPDK wants it.  (The other variables have
\* their types.)
AdmittedFits ==
  /\ \A item \in StoredItems : \A m \in {item.spec, item.last, item.mask} \ {None} :
       DOMAIN m \subseteq GetFlowItemObj[item.type]
  /\ \A item \in StoredItems : item.type \in LookedInto =>
       \A m \in {item.spec, item.last, item.mask} \ {None} :
         \A f \in DOMAIN m \ {"hdr", "dst", "src", "src_addr", "dst_addr"} : m[f] <= Documented(f)
  /\ \A r \in StoredRules : \A i \in DOMAIN r.action :
       /\ r.action[i].type = "VF" => r.action[i].conf.id <= 255
       /\ r.action[i].type \in NotConfigurable => r.action[i].conf = None
  /\ \A r \in StoredRules : EndsWithEnd(r.pattern) /\ EndsWithEnd(r.action) /\ r.attr # None
  /\ cfc # None => cfc.podSelector # None
  /\ pod \in Pods \cup {None} /\ vfs \cup ports \subseteq Addresses
  /\ sync \in {"none", "error", "ok"} /\ refused \in BOOLEAN

\* Where spec and last of a stored item set a field, last is not below spec (of
\* a MAC, the 32 bits that are compared); where last or mask sets one, spec does
\* too, but for PPPoE and for a UDP spec without a header.
RangesOrdered ==
  \A item \in StoredItems : item.type \in LookedInto /\ item.spec # None =>
    /\ item.last # None =>
         \A f \in DOMAIN item.last \ {"hdr"} :
           Get(item.last, f) # 0 /\ Get(item.spec, f) # 0 => Get(item.last, f) >= Get(item.spec, f)
    /\ item.type \notin {"PPPOES", "PPPOED"} /\ (item.type = "UDP" => HasHdr(item.spec)) =>
         \A m \in {item.last, item.mask} \ {None} :
           \A f \in DOMAIN m \ {"hdr"} : Get(m, f) # 0 => Get(item.spec, f) # 0

\* What a webhook has let in, the daemon can translate: it fails only for what the
\* node does not have, a VF or a port, and for a rule that leaves the port to the
\* daemon and names no VF.
OnlyTheNodeRefuses ==
  [][SyncRules /\ sync' = "error" =>
       \E r \in StoredRules :
         \/ \E i \in VfPciAddrs(r) : r.action[i].conf.addr \in Addresses \ vfs
         \/ r.port = AutoPort /\ (VfPciAddrs(r) = {} \/ FirstAddress(r) \in Addresses \ ports)]_admissionVars

\* What the one webhook lets in, the other does not refuse: the controller can
\* always write the rules that it generates from a stored ClusterFlowConfig.
GeneratedIsAdmitted == ~refused
===================================================================================
