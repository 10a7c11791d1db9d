----------------------------- MODULE NamesStats -----------------------------
(***************************************************************************)
(* The authenticator's name state (Names) and CSwitchStats (SwitchStats)   *)
(* side by side on one NOX event loop.  Both register handlers for         *)
(* Datapath_join_event and Datapath_leave_event: a join or leave runs the *)
(* authenticator's handler and the stats handler on the same event (their *)
(* states are disjoint and the stats handler never waits, so one step     *)
(* models both).  A packet-in event runs the stats handler (the            *)
(* authenticator's packet-in path is HostStore's).  Port_status events    *)
(* reach the authenticator only: CSwitchStats registers no handler for    *)
(* them.                                                                   *)
(* joinedPorts and rcvd record, per datapath (not per location key), the  *)
(* ports of its last join and the packet-ins from each since then: what   *)
(* the counters are meant to count.                                        *)
(***************************************************************************)
EXTENDS MCNames, SwitchStats, FiniteSetsExt

CONSTANTS
    DPInt,       \* datapath -> its host-order 64-bit id
    PacketIns    \* the locations packet-ins arrive from

VARIABLES joinedPorts, rcvd
ghost == <<joinedPorts, rcvd>>
allVars == <<vars, statsVars, ghost>>

\* Datapath ids below 2^48, the MAC part of an OpenFlow 1.0 datapath id,
\* and a key layout scaled down to 2^2 / 2^6.
MC_DPInt == [d \in MC_DP |-> 1]
MC_Loc == MC_DP \X MC_Port

NSInit ==
    /\ Init /\ StatsInit
    /\ joinedPorts = <<>>
    /\ rcvd = [l \in Loc |-> 0]

\* A Datapath_join_event: both handlers, ports in the event's order.
JoinEvent ==
    \E j \in JoinIns :
        /\ DatapathJoinOn(j)
        /\ HandleDatapathJoin(DPInt[j[1]], SetToSortSeq(j[2], <))
        /\ joinedPorts' = IF j[2] = {} THEN Restrict(joinedPorts, DOMAIN joinedPorts \ {j[1]})
                          ELSE [x \in DOMAIN joinedPorts \cup {j[1]} |->
                                  IF x = j[1] THEN j[2] ELSE joinedPorts[x]]
        /\ rcvd' = [l \in Loc |-> IF l[1] = j[1] THEN 0 ELSE rcvd[l]]

LeaveEvent ==
    \E d \in LeaveIns :
        /\ DatapathLeaveOn(d)
        /\ HandleDataLeave(DPInt[d])
        /\ joinedPorts' = Restrict(joinedPorts, DOMAIN joinedPorts \ {d})
        /\ UNCHANGED rcvd

\* A Packet_in_event from a port, joined or not: one more external
\* event, between handlers.
PacketInEvent ==
    /\ External
    /\ \E l \in PacketIns :
        /\ HandlePacketIn(DPInt[l[1]], l[2])
        /\ rcvd' = [rcvd EXCEPT ![l] = @ + 1]
    /\ UNCHANGED <<store, joinedPorts>>

\* A step of the authenticator alone leaves the counters as they are.
StatsKept == UNCHANGED <<statsVars, ghost>>

NSNext ==
    \/ JoinEvent \/ LeaveEvent \/ PacketInEvent
    \/ PortStatus /\ StatsKept
    \/ RenamePrincipal /\ StatsKept
    \/ DelnameLocation /\ StatsKept
    \/ RenameGroupIn /\ StatsKept
    \/ ModifyGroupIn /\ StatsKept
    \/ Acquire /\ StatsKept
    \/ Release /\ StatsKept
    \/ Sweep /\ StatsKept
    \/ Step /\ StatsKept
    \/ ReplySwitchName /\ StatsKept
    \/ ReplyLocName /\ StatsKept
    \/ ReplyDiscLoc /\ StatsKept
    \/ ReplyGroups /\ StatsKept
    \/ Done /\ StatsKept

NSSpec == NSInit /\ [][NSNext]_allVars /\ WF_allVars(Internal /\ StatsKept)

-----------------------------------------------------------------------------
(* Properties.                                                             *)

\* The switch counters follow the joins and leaves: exactly the ports of
\* the datapaths' last joins (of those not left since) have a tracker,
\* and get_loc_conn_p_s, get_switch_conn_p_s and get_global_conn_p_s give
\* the packet-ins from that port, switch, or all joined switches since
\* the join.  A rejoin that kept the old vector or trackers, or a leave
\* that kept a tracker, counts a packet twice, or one from before the
\* join, or from a port the switch no longer has.
SwitchCountsExact ==
    LET Since(d) == MapThenSumSet(LAMBDA p : rcvd[<<d, p>>], joinedPorts[d])
    IN  /\ DOMAIN tracker_map =
              UNION {{LocKey(DPInt[d], p) : p \in joinedPorts[d]} : d \in DOMAIN joinedPorts}
        /\ \A d \in DOMAIN joinedPorts :
              /\ \A p \in joinedPorts[d] : GetLocConn(LocKey(DPInt[d], p)) = rcvd[<<d, p>>]
              /\ GetSwitchConn(DPInt[d]) = Since(d)
        /\ GetGlobalConn = MapThenSumSet(Since, DOMAIN joinedPorts)

=============================================================================
