---------------------------- MODULE MCAlgorithms  ----------------------------
(***************************************************************************)
(* Checks the pure algorithms against plain definitions of their results, *)
(* over every input of a bounded range: the group-list operators of       *)
(* GroupLists (three sorted lists and an id) and the OpenFlow decoder of  *)
(* OpenFlowEvent (one message).  The state is one input and never         *)
(* changes, so TLC evaluates the invariants once per input.  An input is  *)
(* either a group-list input (msg = NoMsg) or a message (with empty       *)
(* lists), so the two ranges are checked side by side, not multiplied.    *)
(* A third kind of input is a NAT rule expression (expr) for Matches of  *)
(* NatEnforcer, checked against every NAT_data of a small range.          *)
(***************************************************************************)
EXTENDS GroupLists, OpenFlowEvent, NatEnforcer, FiniteSets, Bags

CONSTANTS Ids,     \* the group ids the lists are drawn from
          Msgs     \* the messages given to openflow_packet_to_event

\* The lists translate_groups produces: strictly ascending.
SortedLists == {SetToSortSeq(S, <) : S \in SUBSET Ids}

NoMsg == [size |-> 0, version |-> 0, type |-> "NONE", length |-> 0, stype |-> "NONE"]

\* sizeof of the OpenFlow 1.0 structs (openflow.h, version 0x01)
MC_Sizeof ==
    [ofp_header |-> 8, ofp_packet_in |-> 20, ofp_flow_removed |-> 88,
     ofp_port_status |-> 64, ofp_switch_features |-> 32, ofp_error_msg |-> 12,
     ofp_stats_reply |-> 12, ofp_desc_stats |-> 1056, ofp_table_stats |-> 64,
     ofp_port_stats |-> 104, ofp_aggregate_stats_reply |-> 24]

MsgTypes == {"OFPT_PACKET_IN", "OFPT_FLOW_REMOVED", "OFPT_PORT_STATUS",
             "OFPT_FEATURES_REPLY", "OFPT_STATS_REPLY", "OFPT_ECHO_REQUEST",
             "OFPT_ECHO_REPLY", "OFPT_ERROR", "OFPT_HELLO"}

StatsTypes == {"OFPST_DESC", "OFPST_TABLE", "OFPST_PORT", "OFPST_AGGREGATE",
               "OFPST_FLOW", "OFPST_QUEUE"}

\* Header lengths 0..MC_MaxLength: past the desc reply (1068), past ten
\* port rows and seventeen table rows, and every length that wraps (< 12).
MC_MaxLength == 1100

\* Every stats reply header length and subtype, in a buffer that holds it.
MC_StatsMsgs ==
    [size : {MC_MaxLength}, version : {1}, type : {"OFPT_STATS_REPLY"},
     length : 0..MC_MaxLength, stype : StatsTypes]

\* Every type and version at every buffer size up to a little past the
\* packet-in struct, the header length being the buffer size.
MC_ShortMsgs ==
    {[size |-> n, version |-> v, type |-> t, length |-> n, stype |-> s] :
        n \in 0..24, v \in {1, 2}, t \in MsgTypes, s \in {"OFPST_FLOW", "OFPST_DESC"}}

\* NAT rule predicates over a header field compared as uint32 (DLVLAN)
\* and one compared whole (DLSRC), both address groups (ids 0..2, 2 in
\* no list) and both subnets (mask in the upper 32 bits, address in the
\* lower), each positive and negated.
MC_Subnets == {3 * U32 + 1, 1 * U32 + 1, 2 * U32 + 0}
MC_Preds ==
    [type : {"DLVLAN", "DLSRC"}, neg : BOOLEAN, val : {0, 1}]
    \cup [type : DOMAIN GroupField, neg : BOOLEAN, val : {0, 1, 2}]
    \cup [type : DOMAIN SubnetField, neg : BOOLEAN, val : MC_Subnets]

\* Expressions of up to two predicates (the empty one included).
MC_Exprs == {<<>>} \cup {<<p>> : p \in MC_Preds} \cup
            {<<p, q>> : p, q \in MC_Preds}

\* The address-group vectors a NAT_data carries: ascending, possibly with
\* a repeated id (merge_group_lists keeps duplicates), or NULL.
MC_Groups == {<<>>, <<0>>, <<1>>, <<0, 1>>, <<1, 1>>, NoGroups}
MC_NatData ==
    [flow : [DLVLAN : {0, 1}, DLSRC : {1}, NWSRC : {1, 3}, NWDST : {1, 2}],
     src : MC_Groups, dst : MC_Groups]

VARIABLES one, two, three, g, msg, expr
vars == <<one, two, three, g, msg, expr>>

Init == \/ /\ one \in SortedLists /\ two \in SortedLists
           /\ three \in SortedLists \cup {NoList}
           /\ g \in Ids
           /\ msg = NoMsg
           /\ expr = <<>>
        \/ /\ one = <<>> /\ two = <<>> /\ three = NoList
           /\ g = CHOOSE i \in Ids : TRUE
           /\ msg \in Msgs
           /\ expr = <<>>
        \/ /\ one = <<>> /\ two = <<>> /\ three = NoList
           /\ g = CHOOSE i \in Ids : TRUE
           /\ msg = NoMsg
           /\ expr \in MC_Exprs

Next == UNCHANGED vars

Spec == Init /\ [][Next]_vars

Three == IF three = NoList THEN <<>> ELSE three

\* merge_group_lists returns the ascending arrangement of all the ids of
\* its (two or three) input lists, each as often as it occurs in them: the
\* hostgroups vector of a connector and the addr_groups of an NWEntry are
\* built this way and later searched by contains_group and decremented id
\* by id, so a lost or doubled id is a wrong policy and a refcount error.
MergeIsSortedUnion ==
    LET m == MergeGroupLists(one, two, three)
    IN  /\ IsSorted(m, <=)
        /\ ToBag(m) = ToBag(one) (+) ToBag(two) (+) ToBag(Three)

\* translate_groups' insertion keeps a group list strictly ascending and
\* adds exactly the new id: the list stays the set it stands for, which
\* contains_group (a scan that stops early) relies on.
InsertKeepsSortedSet ==
    LET l == InsertGroup(one, g)
    IN  /\ IsSorted(l, <)
        /\ ToSet(l) = ToSet(one) \cup {g}
        /\ ContainsGroup(l, g)

\* in_groups stops at the first id larger than the one it looks for, so
\* it is only right on an ascending vector.  The address groups of an
\* NWEntry are merge_group_lists' output (ascending, duplicates kept):
\* on every such vector in_groups finds exactly the ids of the merged
\* lists.
InGroupsOnMerged ==
    InGroups(MergeGroupLists(one, two, three), g) =
        (g \in ToSet(one) \cup ToSet(two) \cup ToSet(Three))

\* What a NAT rule predicate says of a NAT_data: a header field equals
\* the value, the flow is in the group (a NULL vector holds no group), or
\* the masked address is the subnet's; a negated one says the opposite.
Holds(p, d) ==
    CASE p.type \in CastFields \cup Uncast -> p.val = d.flow[p.type]
      [] p.type \in DOMAIN GroupField ->
            LET gs == d[GroupField[p.type]]
            IN  gs # NoGroups /\ p.val \in ToSet(gs)
      [] p.type \in DOMAIN SubnetField ->
            ((p.val \div U32) & d.flow[SubnetField[p.type]]) = p.val % U32
      [] OTHER -> FALSE

\* The order the comment in matches assumes ("bad_result should already
\* be set"): no positive predicate after a negated one.
NegatedLast(e) == \A i, j \in DOMAIN e : i < j /\ e[i].neg => e[j].neg

\* matches decides a NAT rule: the flow matches exactly when every
\* predicate holds (or, negated, fails), for expressions in the order
\* the code assumes, on every NAT_data: the enforcer applies the rule to
\* exactly the flows it names.
MatchesConjunction ==
    NegatedLast(expr) =>
        \A d \in MC_NatData :
            Matches(expr, d) = \A i \in DOMAIN expr : Holds(expr[i], d) # expr[i].neg

\* For any order of the predicates: a positive predicate after a negated
\* one is tested with bad_result still set, i.e. negated.  Not checked by
\* a run: TLC finds it violated on <<~DLVLAN 0, DLVLAN 0>>, which
\* matches a flow of VLAN 1 although no flow satisfies it.
MatchesAnyOrder ==
    \A d \in MC_NatData :
        Matches(expr, d) = \A i \in DOMAIN expr : Holds(expr[i], d) # expr[i].neg

\* What spec section 6 says a stats reply body must be, by subtype: DESC
\* and AGGREGATE one fixed struct, FLOW any length >= 0, TABLE and PORT a
\* whole number of rows; and the rows a TABLE or PORT event then holds.
SpecBodyOK(st, b) ==
    CASE st = "OFPST_DESC"      -> b = Sizeof["ofp_desc_stats"]
      [] st = "OFPST_AGGREGATE" -> b = Sizeof["ofp_aggregate_stats_reply"]
      [] st = "OFPST_FLOW"      -> b >= 0
      [] st = "OFPST_TABLE"     -> b >= 0 /\ b % Sizeof["ofp_table_stats"] = 0
      [] st = "OFPST_PORT"      -> b >= 0 /\ b % Sizeof["ofp_port_stats"] = 0
      [] OTHER                  -> FALSE

SpecRows(st, b) ==
    CASE st = "OFPST_TABLE" -> b \div Sizeof["ofp_table_stats"]
      [] st = "OFPST_PORT"  -> b \div Sizeof["ofp_port_stats"]
      [] OTHER              -> NoRows

DispatchedMessagesComplete ==
    LET r == OpenflowPacketToEvent(msg)
    IN  msg # NoMsg /\ r.packet # "none" => msg.size >= Sizeof[r.packet]

=============================================================================
