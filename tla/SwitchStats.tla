----------------------------- MODULE SwitchStats -----------------------------
(***************************************************************************)
(* The per-port packet-in counters of CSwitchStats                        *)
(* (switchstats/cswitchstats.cc):                                          *)
(*   switch_port_map  host-order datapath id -> the location keys of its   *)
(*                    ports, in the order of the join event;              *)
(*   tracker_map      location key -> the events its tracker has counted   *)
(*                    since its reset (the 5 s timeslices and their       *)
(*                    history queue are left out).                         *)
(* A location key is dpid + (port << 48) in 64-bit arithmetic, the key     *)
(* the authenticator uses too (LOC_FROM_DP_PORT).  The handlers run on     *)
(* NOX's event thread, one at a time.                                      *)
(***************************************************************************)
EXTENDS Integers, Sequences, SequencesExt

CONSTANTS
    Shift,       \* 2^48, the weight of the port number in a location key
    Wrap,        \* 2^64, where the uint64_t sum wraps
    MaxEvents    \* bound on a tracker's count

VARIABLES switch_port_map, tracker_map
statsVars == <<switch_port_map, tracker_map>>

\* dpint + (((uint64_t) port_no) << 48)
LocKey(dpint, port) == (dpint + port * Shift) % Wrap

\* the keys of dpint's ports; a datapath never joined has none
PortLocs(dpint) ==
    IF dpint \in DOMAIN switch_port_map THEN ToSet(switch_port_map[dpint]) ELSE {}

StatsInit ==
    /\ switch_port_map = <<>>
    /\ tracker_map = <<>>

HandleDatapathJoin_noerase(dpint, ports) ==
    LET locs == [i \in DOMAIN ports |-> LocKey(dpint, ports[i])]
        prev == IF dpint \in DOMAIN switch_port_map THEN switch_port_map[dpint] ELSE <<>>
    IN  /\ switch_port_map' =
              IF prev \o locs = <<>> THEN switch_port_map
              ELSE [x \in DOMAIN switch_port_map \cup {dpint} |->
                      IF x = dpint THEN prev \o locs ELSE switch_port_map[x]]
        /\ tracker_map' = [l \in DOMAIN tracker_map \cup ToSet(locs) |->
                             IF l \in ToSet(locs) THEN 0 ELSE tracker_map[l]]

\* handle_datapath_join: a join of a known switch first drops its
\* trackers and its entry; then each port's key is appended to the entry
\* (so a join without ports leaves no entry) and its tracker reset.
HandleDatapathJoin(dpint, ports) ==
    LET locs == [i \in DOMAIN ports |-> LocKey(dpint, ports[i])]
        kept == DOMAIN tracker_map \ PortLocs(dpint)
    IN  /\ switch_port_map' =
              IF locs = <<>> THEN Restrict(switch_port_map, DOMAIN switch_port_map \ {dpint})
              ELSE [x \in (DOMAIN switch_port_map) \cup {dpint} |->
                      IF x = dpint THEN locs ELSE switch_port_map[x]]
        /\ tracker_map' = [l \in kept \cup ToSet(locs) |->
                             IF l \in ToSet(locs) THEN 0 ELSE tracker_map[l]]

\* handle_data_leave: an unknown switch is logged and ignored; otherwise
\* its trackers and its entry go.
HandleDataLeave(dpint) ==
    IF dpint \notin DOMAIN switch_port_map THEN UNCHANGED statsVars
    ELSE /\ tracker_map' = Restrict(tracker_map, DOMAIN tracker_map \ PortLocs(dpint))
         /\ switch_port_map' = Restrict(switch_port_map, DOMAIN switch_port_map \ {dpint})

\* handle_packet_in: count the event on the port's tracker; a key with
\* no tracker is logged and ignored.
HandlePacketIn(dpint, port) ==
    LET loc == LocKey(dpint, port) IN
    /\ loc \in DOMAIN tracker_map => tracker_map[loc] < MaxEvents
    /\ tracker_map' = IF loc \in DOMAIN tracker_map
                      THEN [tracker_map EXCEPT ![loc] = @ + 1] ELSE tracker_map
    /\ UNCHANGED switch_port_map

\* get_switch_conn_p_s: the sum over the switch's keys that have a
\* tracker (a missing one is logged and skipped); 0 for an unknown switch.
GetSwitchConn(dpint) ==
    IF dpint \notin DOMAIN switch_port_map THEN 0
    ELSE LET ks == switch_port_map[dpint]
             F[i \in 0..Len(ks)] ==
                IF i = 0 THEN 0
                ELSE F[i - 1] + (IF ks[i] \in DOMAIN tracker_map THEN tracker_map[ks[i]] ELSE 0)
         IN  F[Len(ks)]

\* get_global_conn_p_s: the same sum over every switch's keys.
GetGlobalConn == MapThenSumSet(GetSwitchConn, DOMAIN switch_port_map)

\* get_loc_conn_p_s: a key's count, 0 for a key with no tracker.
GetLocConn(loc) == IF loc \in DOMAIN tracker_map THEN tracker_map[loc] ELSE 0

=============================================================================
