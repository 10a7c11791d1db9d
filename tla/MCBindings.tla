----------------------------- MODULE MCBindings -----------------------------
(* Small instances of Bindings: one host (mac m) with its nwaddr-0 binding *)
(* e0 and one IP binding e1, one switch d with port 1, one link.  The name *)
(* calls are the ones the authenticator makes (authenticator.cc).          *)
EXTENDS BindingsLookup

CONSTANTS d, lk

e0 == <<"m", 0>>
e1 == <<"m", 1>>
Store(e, n, t, ex) == [kind |-> "store", ent |-> e, name |-> n, type |-> t,
                       ex |-> ex, ipdb |-> 0, rm |-> "NONE"]
Remove(e, n, t, rm) == [kind |-> "remove", ent |-> e, name |-> n, type |-> t,
                        ex |-> FALSE, ipdb |-> 0, rm |-> rm]

\* host join with a name (:1422), a new IP of a known host (:1540), user
\* join (:1732), user leave (:1761), host leave (:1851) and IP leave (:1878)
MC_NameCalls ==
    {Store(e0, "h", "HOST", FALSE), Store(e1, "", "NONE", TRUE),
     Store(e0, "u", "USER", FALSE), Remove(e0, "u", "USER", "NAME_ONLY"),
     Remove(e0, "", "NONE", "ALL"), Remove(e1, "", "NONE", "IP_ONLY")}
\* the user binding, its removal and the host leave, for the rename instance
MC_UserCalls == {Store(e0, "u", "USER", FALSE), Remove(e0, "u", "USER", "NAME_ONLY"),
                 Remove(e0, "", "NONE", "ALL")}
\* a host join and its leave alone
MC_HostCalls == {Store(e0, "h", "HOST", FALSE), Remove(e0, "", "NONE", "ALL")}

\* new_switch, remove_switch, new_location, remove_location (helper.cc)
MC_LocIns ==
    {<<"locadd", d, 0, "s1", "SWITCH">>, <<"locrm", d, 0, "", "SWITCH">>,
     <<"locadd", d, 1, "l1", "LOCATION">>, <<"locrm", d, 1, "", "LOCATION">>}
\* switch and location joins, a location leave
MC_LocSome == {<<"locadd", d, 0, "s1", "SWITCH">>, <<"locadd", d, 1, "l1", "LOCATION">>,
               <<"locrm", d, 1, "", "LOCATION">>}

\* Location::NO_PORT
MC_NoPort == -1

MC_Links == {lk}
MC_LinkCalls == {[kind |-> "linkadd", link |-> lk], [kind |-> "linkrm", link |-> lk]}
MC_LinkAdd == {[kind |-> "linkadd", link |-> lk]}

\* a user renamed and renamed back, a location renamed
MC_RenIns == {<<"u", "v", "USER">>, <<"v", "u", "USER">>, <<"l1", "l2", "LOCATION">>}
\* both entities are at port 1 of d
MC_EntLoc == [e \in {e0, e1} |-> <<d, 1>>]
\* the entities of the user, of the location l1; the names of port 1
MC_LookIns == {<<"ent", "u", "USER">>, <<"ent", "l1", "LOCATION">>, <<"names", d, 1, "LOCATION">>}
MC_LookLoc == {<<"ent", "l1", "LOCATION">>}
MC_LookHost == {<<"ent", "h", "HOST">>, <<"names", d, 1, "LOCATION">>}
=============================================================================
