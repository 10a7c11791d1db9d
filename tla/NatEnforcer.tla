----------------------------- MODULE NatEnforcer -----------------------------
(***************************************************************************)
(* The matching half of the NAT enforcer (routing/nat_enforcer.cc): the   *)
(* test the classifier applies to a NAT rule's expression and a flow's    *)
(* NAT_data.  A NAT_data is a record of the flow's header fields and its  *)
(* source and destination address groups (a sorted vector, or NoGroups    *)
(* for a NULL pointer).  A predicate of a Flow_expr is a record of its    *)
(* field, whether its type is negative, and its 64-bit value; m_preds is  *)
(* a sequence of them.                                                     *)
(*   InGroups   in_groups, a scan of a sorted vector that stops early;    *)
(*   Matches    matches, the loop over the predicates, with the code's    *)
(*              bad_result flag (set by a negated predicate, never reset).*)
(***************************************************************************)
EXTENDS Integers, Sequences, Bitwise

\* a NULL src_addr_groups / dst_addr_groups pointer
NoGroups == <<-1>>

\* the fields a predicate compares with a header field of the flow; the
\* ones whose value the code casts to uint32_t first, and DLSRC/DLDST,
\* which compare the whole 64-bit value with nb_long()
CastFields  == {"DLVLAN", "DLVLANPCP", "DLTYPE", "NWSRC", "NWDST",
                "NWPROTO", "NWTOS", "TPSRC", "TPDST"}
Uncast      == {"DLSRC", "DLDST"}
GroupField  == [ADDRGROUPSRC |-> "src", ADDRGROUPDST |-> "dst"]
SubnetField == [SUBNETSRC |-> "NWSRC", SUBNETDST |-> "NWDST"]

\* 2^32 in the code: a 64-bit value splits into (uint32_t)(val >> 32) and
\* (uint32_t)val.  TLC's integers are 32-bit, so a model gives a smaller
\* word, larger than every address and mask it uses.
CONSTANT U32

RECURSIVE InGroups_gt(_, _)
InGroups_gt(groups, val) ==
    IF groups = <<>> THEN FALSE
    ELSE IF val = Head(groups) THEN TRUE
    ELSE IF val > Head(groups) THEN FALSE
    ELSE InGroups_gt(Tail(groups), val)

\* in_groups: walk the ascending vector; equal is found, a larger id
\* means val is not in it, the end means not found.
RECURSIVE InGroups(_, _)
InGroups(groups, val) ==
    IF groups = <<>> THEN FALSE
    ELSE IF val = Head(groups) THEN TRUE
    ELSE IF val < Head(groups) THEN FALSE
    ELSE InGroups(Tail(groups), val)

PredFails_nullfail(p, data, bad) ==
    LET f == p.type IN
    CASE f \in CastFields -> ((p.val % U32) = data.flow[f]) = bad
      [] f \in Uncast     -> (p.val = data.flow[f]) = bad
      [] f \in DOMAIN GroupField ->
            LET gs == data[GroupField[f]] IN
            IF gs = NoGroups THEN TRUE ELSE InGroups(gs, p.val) = bad
      [] f \in DOMAIN SubnetField ->
            (((p.val \div U32) & data.flow[SubnetField[f]]) = p.val % U32) = bad
      [] OTHER -> TRUE

\* One case of matches' switch: whether predicate p makes the match fail
\* (`... == bad_result) return false').  A SUBNET value holds the mask in
\* its upper 32 bits and the address in its lower 32.  A field the switch
\* does not know fails the match (the default case).
PredFails(p, data, bad) ==
    LET f == p.type IN
    CASE f \in CastFields -> ((p.val % U32) = data.flow[f]) = bad
      [] f \in Uncast     -> (p.val = data.flow[f]) = bad
      [] f \in DOMAIN GroupField ->
            LET gs == data[GroupField[f]] IN
            IF gs = NoGroups THEN ~bad ELSE InGroups(gs, p.val) = bad
      [] f \in DOMAIN SubnetField ->
            (((p.val \div U32) & data.flow[SubnetField[f]]) = p.val % U32) = bad
      [] OTHER -> TRUE

\* The loop of matches: a negative type sets bad_result, which then stays
\* set for every later predicate ("bad_result should already be set").
RECURSIVE MatchLoop(_, _, _)
MatchLoop(preds, data, bad) ==
    IF preds = <<>> THEN TRUE
    ELSE LET b == bad \/ Head(preds).neg
         IN  ~PredFails(Head(preds), data, b) /\ MatchLoop(Tail(preds), data, b)

Matches(expr, data) == MatchLoop(expr, data, FALSE)

=============================================================================
