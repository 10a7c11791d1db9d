---------------------------- MODULE OpenFlowEvent ----------------------------
(***************************************************************************)
(* openflow_packet_to_event (openflow-event.cc): the decoding of one       *)
(* inbound OpenFlow message into an event.  A message is abstracted to     *)
(* what the decoder looks at:                                              *)
(*   size     bytes in the Buffer                                          *)
(*   version  ofp_header.version                                           *)
(*   type     ofp_header.type                                              *)
(*   length   ofp_header.length (a uint16 the switch wrote)                *)
(*   stype    ofp_stats_reply.type, for a stats reply                      *)
(* The result says which event is built ("NULL" for none), the struct the *)
(* buffer was cast to and handed to a handler ("none" if it never was),    *)
(* and how many table or port rows a stats event was given.  The struct   *)
(* sizes are the OpenFlow 1.0 ones of openflow.h, a CONSTANT.              *)
(*                                                                         *)
(* The stats handlers compare `len - sizeof(...)', an int minus a size_t:  *)
(* the int is converted to size_t and the difference is taken modulo      *)
(* 2^64.  TLC's integers are 32-bit, so the wrapped value is not formed;  *)
(* what the code does with it (a remainder, an inequality, a quotient) is *)
(* computed from the signed difference and 2^64 modulo the divisor.       *)
(***************************************************************************)
EXTENDS Integers

CONSTANTS Sizeof,      \* struct name -> sizeof in bytes (openflow.h, OpenFlow 1.0)
          OFP_VERSION  \* the version the controller speaks

NoRows == 0

\* A quotient of a wrapped size_t: above 2^50 for every row size, more
\* rows than any length bound of the model.
HugeRows == 2^30

\* 2^w mod m, by doubling: the residue of the size_t modulus
RECURSIVE PowTwoMod(_, _)
PowTwoMod(w, m) == IF w = 0 THEN 1 % m ELSE (2 * PowTwoMod(w - 1, m)) % m

\* (size_t) x % m, for x an int (x > -2^63)
SizeTMod(x, m) == IF x >= 0 THEN x % m ELSE ((x % m) + PowTwoMod(64, m)) % m

\* (size_t) x != c, for a constant c < 2^63: a negative x wraps to a value
\* above 2^63, so it differs from every such c
SizeTNeq(x, c) == x < 0 \/ x # c

\* (size_t) x / m, the loop bound of the table and port handlers
SizeTDiv(x, m) == IF x >= 0 THEN x \div m ELSE HugeRows

Result(ev, packet, rows) == [ev |-> ev, packet |-> packet, rows |-> rows]

\* The body length of a stats reply as the handlers compute it.
Body(m) == m.length - Sizeof["ofp_stats_reply"]

StatsAggregateReply(m) ==
    IF SizeTNeq(Body(m), Sizeof["ofp_aggregate_stats_reply"])
    THEN Result("NULL", "ofp_stats_reply", NoRows)
    ELSE Result("Aggregate_stats_in_event", "ofp_stats_reply", NoRows)

\* The table and port handlers: a body that is not a whole number of rows
\* is refused; otherwise one row is added per len / sizeof(row).
StatsRowsReply(m, row, ev) ==
    IF SizeTMod(Body(m), Sizeof[row]) # 0
    THEN Result("NULL", "ofp_stats_reply", NoRows)
    ELSE Result(ev, "ofp_stats_reply", SizeTDiv(Body(m), Sizeof[row]))

StatsDescReply(m) ==
    IF SizeTNeq(Body(m), Sizeof["ofp_desc_stats"])
    THEN Result("NULL", "ofp_stats_reply", NoRows)
    ELSE Result("Desc_stats_in_event", "ofp_stats_reply", NoRows)

StatsFlowReply(m) ==
    IF Body(m) < 0
    THEN Result("NULL", "ofp_stats_reply", NoRows)
    ELSE Result("Flow_stats_in_event", "ofp_stats_reply", NoRows)

\* handle_stats_reply: dispatch on the stats type; others are unhandled
StatsReply(m) ==
    CASE m.stype = "OFPST_DESC"      -> StatsDescReply(m)
      [] m.stype = "OFPST_TABLE"     -> StatsRowsReply(m, "ofp_table_stats", "Table_stats_in_event")
      [] m.stype = "OFPST_PORT"      -> StatsRowsReply(m, "ofp_port_stats", "Port_stats_in_event")
      [] m.stype = "OFPST_AGGREGATE" -> StatsAggregateReply(m)
      [] m.stype = "OFPST_FLOW"      -> StatsFlowReply(m)
      [] OTHER                       -> Result("NULL", "ofp_stats_reply", NoRows)

\* The handlers handle_packet passes a cast buffer to, by message type:
\* each always builds its event, except the stats reply handler.
Handled == [OFPT_PACKET_IN      |-> <<"ofp_packet_in", "Packet_in_event">>,
            OFPT_FLOW_REMOVED   |-> <<"ofp_flow_removed", "Flow_removed_event">>,
            OFPT_PORT_STATUS    |-> <<"ofp_port_status", "Port_status_event">>,
            OFPT_FEATURES_REPLY |-> <<"ofp_switch_features", "Switch_features_event">>,
            OFPT_ERROR          |-> <<"ofp_error_msg", "Error_event">>]

\* handle_packet<Packet>: a buffer shorter than sizeof(Packet) is logged as
\* too short, and then cast and handed to the handler all the same.
HandlePacket(m) ==
    IF m.type = "OFPT_STATS_REPLY" THEN StatsReply(m)
    ELSE Result(Handled[m.type][2], Handled[m.type][1], NoRows)

\* openflow_packet_to_event: a buffer without a whole header and a wrong
\* version are dropped; echo requests are built without handle_packet,
\* echo replies and unknown types are dropped.
OpenflowPacketToEvent(m) ==
    IF m.size < Sizeof["ofp_header"] \/ m.version # OFP_VERSION
    THEN Result("NULL", "none", NoRows)
    ELSE CASE m.type \in DOMAIN Handled \cup {"OFPT_STATS_REPLY"} -> HandlePacket(m)
           [] m.type = "OFPT_ECHO_REQUEST" -> Result("Echo_request_event", "ofp_header", NoRows)
           [] OTHER                        -> Result("NULL", "none", NoRows)

=============================================================================
