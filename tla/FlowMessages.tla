------------------------------- MODULE FlowMessages -------------------------------
(***************************************************************************)
(* rpc/v1/flow: the types of flow items and actions, by their names after  *)
(* RTE_FLOW_ITEM_TYPE_ and RTE_FLOW_ACTION_TYPE_, and the messages that    *)
(* items are decoded into, by the names of their fields.  The fields of a  *)
(* message within a message are counted among its own.                     *)
(***************************************************************************)

RteFlowItemType_value ==
  {"END", "VOID", "INVERT", "ANY", "PF", "VF", "PHY_PORT", "PORT_ID", "RAW",
   "ETH", "VLAN", "IPV4", "IPV6", "ICMP", "UDP", "TCP", "SCTP", "VXLAN",
   "E_TAG", "NVGRE", "MPLS", "GRE", "FUZZY", "GTP", "GTPC", "GTPU", "ESP",
   "GENEVE", "VXLAN_GPE", "ARP_ETH_IPV4", "IPV6_EXT", "ICMP6", "ICMP6_ND_NS",
   "ICMP6_ND_NA", "ICMP6_ND_OPT", "ICMP6_ND_OPT_SLA_ETH",
   "ICMP6_ND_OPT_TLA_ETH", "MARK", "META", "GRE_KEY", "GTP_PSC", "PPPOES",
   "PPPOED", "PPPOE_PROTO_ID", "NSH", "IGMP", "AH", "HIGIG2", "TAG"}

RteFlowActionType_value ==
  {"END", "VOID", "PASSTHRU", "JUMP", "MARK", "FLAG", "QUEUE", "DROP", "COUNT",
   "RSS", "PF", "VF", "PHY_PORT", "PORT_ID", "METER", "SECURITY",
   "OF_SET_MPLS_TTL", "OF_DEC_MPLS_TTL", "OF_SET_NW_TTL", "OF_DEC_NW_TTL",
   "OF_COPY_TTL_OUT", "OF_COPY_TTL_IN", "OF_POP_VLAN", "OF_PUSH_VLAN",
   "OF_SET_VLAN_VID", "OF_SET_VLAN_PCP", "OF_POP_MPLS", "OF_PUSH_MPLS",
   "VXLAN_ENCAP", "VXLAN_DECAP", "NVGRE_ENCAP", "NVGRE_DECAP", "RAW_ENCAP",
   "RAW_DECAP", "SET_IPV4_SRC", "SET_IPV4_DST", "SET_IPV6_SRC", "SET_IPV6_DST",
   "SET_TP_SRC", "SET_TP_DST", "MAC_SWAP", "DEC_TTL", "SET_TTL", "SET_MAC_SRC",
   "SET_MAC_DST", "INC_TCP_SEQ", "DEC_TCP_SEQ", "INC_TCP_ACK", "DEC_TCP_ACK",
   "SET_TAG", "SET_META"}

-----------------------------------------------------------------------------
RteFlowItemAny == {"num"}
RteFlowItemVf == {"id"}
RteFlowItemPhyPort == {"index"}
RteFlowItemPortId == {"id"}
RteFlowItemRaw ==
  {"relative", "search", "reserved", "offset", "limit", "length", "pattern"}
RteFlowItemEth == {"dst", "src", "type"}
RteFlowItemVlan == {"tci", "inner_type"}
RteIpv4Hdr ==
  {"version_ihl", "type_of_service", "total_length", "packet_id", "fragment_offset",
    "time_to_live", "next_proto_id", "hdr_checksum", "src_addr", "dst_addr"}
RteFlowItemIpv4 == {"hdr"} \cup RteIpv4Hdr
RteIpv6Hdr == {"vtc_flow", "payload_len", "proto", "hop_limits", "src_addr", "dst_addr"}
RteFlowItemIpv6 == {"hdr"} \cup RteIpv6Hdr
RteIcmpHdr == {"icmp_type", "icmp_code", "icmp_cksum", "icmp_ident", "icmp_seq_nb"}
RteFlowItemIcmp == {"hdr"} \cup RteIcmpHdr
RteUdpHdr == {"src_port", "dst_port", "dgram_len", "dgram_cksum"}
RteFlowItemUdp == {"hdr"} \cup RteUdpHdr
RteTcpHdr ==
  {"src_port", "dst_port", "sent_seq", "recv_ack", "data_off", "tcp_flags", "rx_win",
    "cksum", "tcp_urp"}
RteFlowItemTcp == {"hdr"} \cup RteTcpHdr
RteSctpHdr == {"src_port", "dst_port", "tag", "cksum"}
RteFlowItemSctp == {"hdr"} \cup RteSctpHdr
RteFlowItemVxlan == {"flags", "rsvd0", "vni", "rsvd1"}
RteFlowItemETag ==
  {"epcp_edei_in_ecid_b", "rsvd_grp_ecid_b", "in_ecid_e", "ecid_e", "inner_type"}
RteFlowItemNvgre == {"c_k_s_rsvd0_ver", "protocol", "tni", "flow_id"}
RteFlowItemMpls == {"label_tc_s", "ttl"}
RteFlowItemGre == {"c_rsvd0_ver", "protocol"}
RteFlowItemFuzzy == {"thresh"}
RteFlowItemGtp == {"v_pt_rsv_flags", "msg_type", "msg_len", "teid"}
RteEspHdr == {"spi", "seq"}
RteFlowItemEsp == {"hdr"} \cup RteEspHdr
RteFlowItemGeneve == {"ver_opt_len_o_c_rsvd0", "protocol", "vni", "rsvd1"}
RteFlowItemVxlanGpe == {"flags", "rsvd0", "protocol", "vni", "rsvd1"}
RteFlowItemArpEthIpv4 == {"hrd", "pro", "hln", "pln", "op", "sha", "spa", "tha", "tpa"}
RteFlowItemIpv6Ext == {"next_hdr"}
RteFlowItemIcmp6 == {"type", "code", "checksum"}
RteFlowItemIcmp6NdNs == {"type", "code", "checksum", "reserved", "target_addr"}
RteFlowItemIcmp6NdNa == {"type", "code", "checksum", "rso_reserved", "target_addr"}
RteFlowItemIcmp6NdOpt == {"type", "length"}
RteFlowItemIcmp6NdOptSlaEth == {"type", "length", "sla"}
RteFlowItemIcmp6NdOptStaEth == {"type", "length", "tla"}
RteFlowItemMark == {"id"}
RteFlowItemMeta == {"data"}
RteFlowItemGtpPsc == {"pdu_type", "qfi"}
RteFlowItemPppoe == {"version_type", "code", "session_id", "length"}
RteFlowItemPppoeProtoId == {"proto_id"}
RteFlowItemNsh ==
  {"version", "oam_pkt", "reserved", "ttl", "length", "reserved1", "mdtype",
    "next_proto", "spi", "sindex"}
RteFlowItemIgmp == {"type", "max_resp_time", "checksum", "group_addr"}
RteFlowItemAh == {"next_hdr", "payload_len", "reserved", "spi", "seq_num"}
RteHigig2Frc ==
  {"ksop", "tc", "mcst", "resv", "dst_modid", "dst_pid", "src_modid", "src_pid", "lbid",
    "ppd_type", "resv1", "dp"}
RteHigig2PptType0 ==
  {"mirror", "mirror_done", "mirror_only", "ingress_tagged", "dst_tgid", "dst_t",
    "vc_label2", "label_present", "l3", "res", "vc_label1", "vc_label0", "vid_high",
    "vid_low", "opc", "res1", "srce_t", "pf", "res2", "hdr_ext_length"}
RteHigig2PptType1 ==
  {"classification", "resv", "vid", "opcode", "resv1", "src_t", "pfm", "resv2",
    "hdr_ext_len"}
RteHigig2Hdr ==
  {"fcr", "ppt0", "ppt1"} \cup RteHigig2Frc \cup RteHigig2PptType0 \cup
    RteHigig2PptType1
RteFlowItemHigig2Hdr == {"hdr"} \cup RteHigig2Hdr
RteFlowItemTag == {"data", "index"}

-----------------------------------------------------------------------------
\* The message of an item type; {} for the types that have no struct.
GetFlowItemObj ==
  [END |-> {}, VOID |-> {}, INVERT |-> {}, ANY |-> RteFlowItemAny, PF |-> {},
   VF |-> RteFlowItemVf, PHY_PORT |-> RteFlowItemPhyPort,
   PORT_ID |-> RteFlowItemPortId, RAW |-> RteFlowItemRaw,
   ETH |-> RteFlowItemEth, VLAN |-> RteFlowItemVlan, IPV4 |-> RteFlowItemIpv4,
   IPV6 |-> RteFlowItemIpv6, ICMP |-> RteFlowItemIcmp, UDP |-> RteFlowItemUdp,
   TCP |-> RteFlowItemTcp, SCTP |-> RteFlowItemSctp,
   VXLAN |-> RteFlowItemVxlan, E_TAG |-> RteFlowItemETag,
   NVGRE |-> RteFlowItemNvgre, MPLS |-> RteFlowItemMpls,
   GRE |-> RteFlowItemGre, FUZZY |-> RteFlowItemFuzzy, GTP |-> RteFlowItemGtp,
   GTPC |-> RteFlowItemGtp, GTPU |-> RteFlowItemGtp, ESP |-> RteFlowItemEsp,
   GENEVE |-> RteFlowItemGeneve, VXLAN_GPE |-> RteFlowItemVxlanGpe,
   ARP_ETH_IPV4 |-> RteFlowItemArpEthIpv4, IPV6_EXT |-> RteFlowItemIpv6Ext,
   ICMP6 |-> RteFlowItemIcmp6, ICMP6_ND_NS |-> RteFlowItemIcmp6NdNs,
   ICMP6_ND_NA |-> RteFlowItemIcmp6NdNa,
   ICMP6_ND_OPT |-> RteFlowItemIcmp6NdOpt,
   ICMP6_ND_OPT_SLA_ETH |-> RteFlowItemIcmp6NdOptSlaEth,
   ICMP6_ND_OPT_TLA_ETH |-> RteFlowItemIcmp6NdOptStaEth,
   MARK |-> RteFlowItemMark, META |-> RteFlowItemMeta,
   GRE_KEY |-> RteFlowItemGre, GTP_PSC |-> RteFlowItemGtpPsc,
   PPPOES |-> RteFlowItemPppoe, PPPOED |-> RteFlowItemPppoe,
   PPPOE_PROTO_ID |-> RteFlowItemPppoeProtoId, NSH |-> RteFlowItemNsh,
   IGMP |-> RteFlowItemIgmp, AH |-> RteFlowItemAh,
   HIGIG2 |-> RteFlowItemHigig2Hdr, TAG |-> RteFlowItemTag]

\* GetFlowActionObj, validateRteFlowAction: the actions that have no struct, and
\* so no configuration.  (What the others are configured with is not looked into,
\* and fields that their messages do not have are passed over.)
NotConfigurable ==
  {"END", "VOID", "PASSTHRU", "FLAG", "DROP", "PF", "OF_DEC_MPLS_TTL",
   "OF_DEC_NW_TTL", "OF_COPY_TTL_OUT", "OF_COPY_TTL_IN", "OF_POP_VLAN",
   "VXLAN_DECAP", "NVGRE_DECAP", "MAC_SWAP", "DEC_TTL", "INC_TCP_SEQ",
   "DEC_TCP_SEQ", "INC_TCP_ACK", "DEC_TCP_ACK"}
===================================================================================
