----------------------------- MODULE MCNames -------------------------------
(* A small instance of Names for TLC: one switch with one port, names for  *)
(* the switch, the location and two hosts, two groups, and ids 3..5 above  *)
(* the reserved ones, so that a handful of names fills the id space.       *)
EXTENDS Names

CONSTANTS d1

MC_DP == {d1}
MC_Port == {1}
MC_JoinIns == {<<d1, {1}>>, <<d1, {}>>}
MC_PortIns == {<<<<d1, 1>>, TRUE>>, <<<<d1, 1>>, FALSE>>}
\* a host renamed over another (the collision), a switch renamed
MC_RenameIns == {<<"h1", "h2", "h">>, <<"s1", "s2", "s">>}
MC_DelnameIns == {<<<<d1, 1>>, "l1", "l2">>}
\* a switch group deleted; a location group renamed
MC_GroupIns == {<<"g1", "", "sg">>, <<"g1", "g2", "lg">>}
\* a member change of switch s1, a subgroup change of location group g1
MC_ChangeIns == {<<"sg", "s1", FALSE>>, <<"lg", "g1", TRUE>>}
\* the host renames alone: over the other host, and back
MC_RenameHosts == {<<"h1", "h2", "h">>, <<"h2", "h1", "h">>}
\* the switch rename alone, for the instance without hosts
MC_RenameSwitch == {<<"s1", "s2", "s">>}
=============================================================================
