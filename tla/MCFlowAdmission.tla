----------------------------- MODULE MCFlowAdmission -----------------------------
(* Flow rules for TLC: every field of every item, at its limits, and every kind *)
(* of action and attribute.                                                     *)
EXTENDS FlowAdmission

CONSTANTS x, eth0, eth1

MCAddresses == {x}
MCInterfaces == {eth0, eth1}
MCPods == {[i \in {eth0, eth1} |-> IF i = eth0 THEN x ELSE None],
           [i \in {eth0, eth1} |-> x]}

\* A message of type t with one field set, or none, in a header if t has one.
HdrOf(t) == {"hdr"} \cap GetFlowItemObj[t]
Message(t, f, v) ==
  [g \in HdrOf(t) \cup (IF v = None THEN {} ELSE {f}) |-> IF g = "hdr" THEN 0 ELSE v]
Empty == <<>>
Strange == [g \in {"no_such_field"} |-> 1]

Item(t, s, l, m) == [type |-> t, spec |-> s, last |-> l, mask |-> m]
End == Item("END", None, None, None)

Items(t, f, vs) ==
  LET ms == {Message(t, f, v) : v \in vs} \cup {Empty, Strange, None}
  IN {Item(t, s, l, None) : s, l \in ms} \cup {Item(t, s, None, m) : s, m \in ms}

Numbers(f) == {None, 1, 2, Limit[f], Limit[f] + 1}
MACs == {None, Bad, LongMAC} \cup [hi : {0, 1}, lo : {0, 1, 2}]
IPs == {None, Bad, 1, 2}

\* Of the types that are not looked into: all their fields, one of another type.
Whole(t) == [f \in GetFlowItemObj[t] |-> 1]
Others == RteFlowItemType_value \ LookedInto

MCItems ==
  Items("ETH", "type", Numbers("type")) \cup UNION {Items("ETH", f, MACs) : f \in {"dst", "src"}} \cup
  UNION {Items("VLAN", f, Numbers(f)) : f \in RteFlowItemVlan} \cup
  UNION {Items("IPV4", f, Numbers(f)) : f \in RteIpv4Hdr \ {"src_addr", "dst_addr"}} \cup
  UNION {Items("IPV4", f, IPs) : f \in {"src_addr", "dst_addr"}} \cup
  UNION {Items("UDP", f, Numbers(f)) : f \in RteUdpHdr} \cup
  UNION {Items("PPPOES", f, Numbers(f)) : f \in RteFlowItemPppoe} \cup
  Items("PPPOED", "code", Numbers("code")) \cup
  Items("PPPOE_PROTO_ID", "proto_id", Numbers("proto_id")) \cup
  {Item(t, Whole(t), None, None) : t \in Others} \cup
  {Item(t, s, None, None) : t \in Others \cup {Unknown}, s \in {Strange, Message("VLAN", "tci", 1)}}

Attr == [ingress |-> 1, egress |-> 0, transfer |-> 0]
Conf == [id |-> 0, original |-> 0, reserved |-> 0, addr |-> x]
Act(t, c) == [type |-> t, conf |-> c]
Stop == Act("END", None)

Rule(port, attr, items, actions) ==
  [port |-> port, attr |-> attr, pattern |-> items, action |-> actions]

MCActions ==
  {Act(t, c) : t \in (RteFlowActionType_value \ {"VF"}) \cup {Unknown}, c \in {None, Bad, Conf}} \cup
  {Act("VF", c) : c \in {None, Bad, Conf, [Conf EXCEPT !.id = 255], [Conf EXCEPT !.id = 256],
                         [Conf EXCEPT !.original = 2], [Conf EXCEPT !.reserved = 1]}} \cup
  {Act("VFPCIADDR", c) : c \in {None, Bad, Conf, [Conf EXCEPT !.addr = Malformed]}}

MCAttrs == {None} \cup [ingress : 0..2, egress : 0..2, transfer : 0..2]

MCNodeRules ==
  {Rule(1, Attr, <<i, End>>, <<Act("DROP", None), Stop>>) : i \in MCItems} \cup
  {Rule(p, Attr, <<End>>, <<a, Stop>>) : p \in {1, AutoPort}, a \in MCActions} \cup
  {Rule(1, Attr, <<End>>, <<a>>) : a \in MCActions} \cup
  {Rule(1, a, <<End>>, <<Stop>>) : a \in MCAttrs} \cup
  {Rule(1, Attr, <<Item("ICMP", None, None, None)>>, <<>>), Rule(1, Attr, <<>>, <<>>)}

ToPod(c) == [type |-> "to-pod-interface", conf |-> c]
ClusterRule(attr, items, actions) == [attr |-> attr, pattern |-> items, action |-> actions]
Vlan(v) == Item("VLAN", Message("VLAN", "tci", v), None, None)

MCClusterRules ==
  {ClusterRule(Attr, <<Vlan(v), End>>, <<ToPod(c)>>) : v \in Numbers("tci"), c \in {None, Bad, "", eth0, eth1}} \cup
  {ClusterRule(a, <<End>>, acts) : a \in {None, Attr}, acts \in {<<>>, <<ToPod(eth0), ToPod(eth1)>>}} \cup
  {ClusterRule(Attr, <<Vlan(1)>>, <<ToPod(eth0)>>)}
===================================================================================
