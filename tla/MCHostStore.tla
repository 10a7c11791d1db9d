---------------------------- MODULE MCHostStore ----------------------------
(* Small instances of HostStore for TLC: two hosts a, b and the broadcast   *)
(* address bc, one non-zero network address, two locations.                *)
EXTENDS HostStore

CONSTANTS a, b, bc, l1, l2

MC_DL == {a, b, bc}
MC_IP == {1}
MC_Loc == {l1, l2}
MC_HostNames == {"h1"}
MC_UserNames == {"u1"}

\* Unicast a -> b from l1 with and without an address, and a DHCP-style
\* broadcast from a (nw_src 0).
MC_PacketIns ==
    {[bcast |-> FALSE, loc |-> l1, sdl |-> a, snw |-> 1, ddl |-> b, dnw |-> 0],
     [bcast |-> TRUE, loc |-> l2, sdl |-> a, snw |-> 0, ddl |-> bc, dnw |-> 0]}

MC_AuthIns ==
    {[loc |-> l1, dl |-> a, nw |-> 1, owns |-> TRUE, host |-> "h1", user |-> "u1"],
     [loc |-> l2, dl |-> a, nw |-> 1, owns |-> TRUE, host |-> "h1", user |-> "unknown"]}

MC_DeauthIns ==
    {[loc |-> l1, dl |-> a, nw |-> 1, host |-> "unknown", user |-> "unknown"],
     [loc |-> l1, dl |-> a, nw |-> 1, host |-> "h1", user |-> "unknown"]}

MC_NetinfoIns == {<<a, TRUE, FALSE>>}

MC_LocRemovals == {{l1}}

\* l2 faces another switch, and each location is on the path to the other.
MC_OnPath == {<<l1, l2>>, <<l2, l1>>}
=============================================================================
