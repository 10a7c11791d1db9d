------------------------------ MODULE HostStore ------------------------------
(***************************************************************************)
(* The authenticator's host/location state store and the handlers that    *)
(* drive it (authenticator.cc, authenticator-helper.cc):                   *)
(*   hosts    HostMap  dladdr -> DLEntry {status, router, gateway, nws,    *)
(*            zero}; an NWEntry is reduced to its ConnList (a sequence of  *)
(*            connector ids); every NWEntry of a dladdr shares the         *)
(*            DLEntry's UpdateStatus {locked, waiters}.                    *)
(*   conns    every Connector ever created, by id; nb is n_bindings.       *)
(*   nwhosts  the inverted index nwaddr -> list of dladdrs (NWEntry ptrs). *)
(* NOX runs one handler at a time.  A directory call suspends the handler: *)
(* it is a member of `pending' until its reply action runs the callback.   *)
(* unlock_status runs the waiters synchronously: they are pushed on        *)
(* `running', and nothing else happens until `running' is empty.  Events   *)
(* posted to the bus (Auth_event, re-posted Packet_in) wait in `bus'.      *)
(* Host_event JOIN/LEAVE are counted in `joined': JOINs minus LEAVEs per  *)
(* <<dladdr, nwaddr, location>> binding; posted Flow_in/Broadcast_in      *)
(* events are recorded in `emitted'.                                       *)
(***************************************************************************)
EXTENDS Integers, Sequences, SequencesExt, FiniteSets, TLC

CONSTANTS
    DL,           \* link-layer addresses (model values); Bcast is one of them
    Bcast,        \* the broadcast dladdr, destination of broadcast packets
    IP,           \* non-zero network addresses
    Loc,          \* locations (datapath, port)
    InternalLoc,  \* topology->is_internal: ports facing another switch
    InternalIP,   \* is_internal_ip: addresses in a configured internal subnet
    InternalMAC,  \* is_internal_mac: dladdrs in the internal OUI
    OnPath,       \* routing_mod->is_on_path_location, as <<from, to>> pairs
    AutoAuth,     \* auto_auth_hosts: no sepl_enforcer installed
    HostNames,    \* host principal names other than the pseudo-names
    UserNames,    \* user principal names other than the pseudo-names
    PacketIns,    \* packet-ins a switch may send
    AuthIns,      \* AUTHENTICATE events other components may post
    DeauthIns,    \* DEAUTHENTICATE events (datapath /= 0)
    NetinfoIns,   \* NetInfo_mod_event <<dladdr, is_router, is_gateway>>
    LocRemovals,  \* location sets removed by port/link/datapath events
    NoPkt,        \* Auth_event.to_post == NULL
    MaxExternal   \* bound on the number of external events

ASSUME Bcast \in DL /\ InternalLoc \subseteq Loc /\ InternalIP \subseteq IP
ASSUME OnPath \subseteq Loc \X Loc /\ AutoAuth \in BOOLEAN
\* A connector holds one front user; one real user name keeps that exact.
ASSUME Cardinality(UserNames) <= 1

NW == {0} \cup IP
NoConn == 0        \* Flow_in_event.source == NULL
Temp == -1         \* a temporary connector from get_temp_conn, never stored

\* get_id of a principal name: the pseudo-names map to the reserved ids
\* UNKNOWN, UNAUTHENTICATED, AUTHENTICATED, which are kept as the names.
HostId == {"unauth", "authd"} \cup HostNames
UserId == {"unauth", "authd"} \cup UserNames
\* Mutant: the pseudo-name "unknown" interned as itself.
IdOf_unmapped(name) == name
IdOf(name) == IF name = "unknown" THEN "unauth" ELSE name

VARIABLES hosts, conns, nwhosts, pending, running, bus, joined, emitted, inputs

store == <<hosts, conns, nwhosts, pending, running, bus, joined, emitted>>
vars == <<store, inputs>>

\* The whole store as one record, so that a handler is an operator from a
\* store to a store.
st == [hosts |-> hosts, conns |-> conns, nwhosts |-> nwhosts,
       pending |-> pending, running |-> running, bus |-> bus,
       joined |-> joined, emitted |-> emitted]

Put(s) == /\ hosts' = s.hosts /\ conns' = s.conns /\ nwhosts' = s.nwhosts
          /\ pending' = s.pending /\ running' = s.running /\ bus' = s.bus
          /\ joined' = s.joined /\ emitted' = s.emitted

-----------------------------------------------------------------------------
(* UpdateStatus and map helpers.                                           *)

Conns(s, d, n) == s.hosts[d].nws[n]

\* hosts.insert(make_pair(dl, DLEntry())) followed by status.locked = true
AddDL(s, d) ==
    [s EXCEPT !.hosts = (d :> [locked |-> TRUE, waiters |-> <<>>,
                               router |-> FALSE, gateway |-> FALSE,
                               nws |-> <<>>, zero |-> FALSE]) @@ @]

AddNW(s, d, n) == [s EXCEPT !.hosts[d].nws = (n :> <<>>) @@ @]
Lock(s, d) == [s EXCEPT !.hosts[d].locked = TRUE]
Wait(s, d, k) == [s EXCEPT !.hosts[d].waiters = Append(@, k)]
Call(s, op) == [s EXCEPT !.pending = @ \cup {op}]

\* unlock_status: clear the flag and run the waiters in FIFO order, before
\* whatever the caller still had to run.
\* Mutant: unlock_status that clears the waiters without running them.
UnlockStatus_dropwaiters(s, d) ==
    [s EXCEPT !.hosts[d].locked = FALSE, !.hosts[d].waiters = <<>>]

UnlockStatus(s, d) ==
    [s EXCEPT !.hosts[d].locked = FALSE, !.hosts[d].waiters = <<>>,
              !.running = s.hosts[d].waiters \o @]

\* The tail of new_dl3 and new_nw_entry2: unlock, or hand the lock to the
\* front waiter (the add_auth2 that asked for the entry) and run it.
Release(s, d, unlock) ==
    IF unlock \/ s.hosts[d].waiters = <<>>
    THEN UnlockStatus(s, d)
    ELSE [s EXCEPT !.hosts[d].waiters = Tail(@),
                   !.running = <<Head(s.hosts[d].waiters)>> \o @]

\* new_dl_entry: is_router then is_gateway, one directory round trip.
NewDLEntry(s, d, unlock) == Call(s, [op |-> "new_dl", dl |-> d, unlock |-> unlock])

\* new_nw_entry: zero is set at once, set_addr_groups is a directory call.
\* Mutant: new_nw_entry without `dlconns->second.zero = nwentry'.
NewNWEntry_nozero(s, d, n, unlock) ==
    Call(s, [op |-> "new_nw", dl |-> d, nw |-> n, unlock |-> unlock])

NewNWEntry(s, d, n, unlock) ==
    Call([s EXCEPT !.hosts[d].zero = @ \/ n = 0],
         [op |-> "new_nw", dl |-> d, nw |-> n, unlock |-> unlock])

\* get_conn(loc, nwentry): index of the first connector at location l, or 0
FindConn(s, d, n, l) == SelectInSeq(Conns(s, d, n), LAMBDA c : s.conns[c].loc = l)

\* get_on_path_conn: first connector whose location is on the path to l
OnPathIdx(s, d, n, l) ==
    SelectInSeq(Conns(s, d, n), LAMBDA c : <<s.conns[c].loc, l>> \in OnPath)

-----------------------------------------------------------------------------
(* post_leave.                                                             *)

\* The unlocked body of post_leave for one connector, without the nwaddr-0
\* cascade: --n_bindings, a LEAVE Host_event, erase from the list, and drop
\* an emptied NWEntry from nwhosts.
\* Mutants: post_leave without --n_bindings; without the nwhosts erase.
Leave_nodec(s, d, n, c) ==
    [s EXCEPT !.joined[<<d, n, s.conns[c].loc>>] = @ - 1,
              !.hosts[d].nws[n] = Remove(Conns(s, d, n), c),
              !.nwhosts = IF n # 0 /\ Remove(Conns(s, d, n), c) = <<>>
                          THEN [@ EXCEPT ![n] = Remove(@, d)] ELSE @]
Leave_noindex(s, d, n, c) ==
    [s EXCEPT !.conns[c].nb = @ - 1,
              !.joined[<<d, n, s.conns[c].loc>>] = @ - 1,
              !.hosts[d].nws[n] = Remove(Conns(s, d, n), c)]

Leave(s, d, n, c) ==
    LET rest == Remove(Conns(s, d, n), c)
    IN [s EXCEPT !.conns[c].nb = @ - 1,
                 !.joined[<<d, n, s.conns[c].loc>>] = @ - 1,
                 !.hosts[d].nws[n] = rest,
                 !.nwhosts = IF n # 0 /\ rest = <<>>
                             THEN [@ EXCEPT ![n] = Remove(@, d)] ELSE @]

\* post_leave: requeued as redo_leave when the dladdr is locked; leaving
\* the nwaddr-0 binding first removes every connector at the same location
\* under the other nwaddrs of the dladdr.
RECURSIVE PostLeave(_, _, _, _)
PostLeave(s, d, n, c) ==
    LET l == s.conns[c].loc
        Other(m, t) == LET i == FindConn(t, d, m, l)
                       IN IF i = 0 THEN t ELSE PostLeave(t, d, m, Conns(t, d, m)[i])
        s1 == IF n = 0
              THEN FoldSet(Other, s, DOMAIN s.hosts[d].nws \ {0})
              ELSE s
    IN IF s.hosts[d].locked
       THEN Wait(s, d, [k |-> "redo_leave", dl |-> d, nw |-> n, loc |-> l])
       ELSE Leave(s1, d, n, c)

\* redo_leave: look the connector up again by key and leave it if present
RedoLeave(s, d, n, l) ==
    IF d \in DOMAIN s.hosts /\ n \in DOMAIN s.hosts[d].nws
       /\ FindConn(s, d, n, l) # 0
    THEN PostLeave(s, d, n, Conns(s, d, n)[FindConn(s, d, n, l)])
    ELSE s

\* remove_src_location's loop over one ConnList (authenticator.cc:600-606)
\* when post_leave erases: erase returns the next node into `loc', and the
\* loop's ++loc then skips it; ++ on end() yields begin() in libstdc++'s
\* circular std::list.  The connectors the loop erases, k the iterator's
\* position in the current list l (0 is end()).
RECURSIVE SrcLoopErased(_, _)
SrcLoopErased(l, k) ==
    IF k = 0 THEN {}
    ELSE LET rest == RemoveAt(l, k)
             next == IF k <= Len(rest) THEN k ELSE 0
             step == IF next = 0 THEN (IF rest = <<>> THEN 0 ELSE 1)
                     ELSE IF next < Len(rest) THEN next + 1 ELSE 0
         IN {l[k]} \cup SrcLoopErased(rest, step)

\* remove_src_location: leave every connector under the non-zero nwaddrs
\* of dladdr d.  A locked entry requeues each one (and the loop advances
\* normally); an unlocked one erases the connectors SrcLoopErased names.
RemoveSrcLocation(s, d) ==
    LET OneNW(n, t) ==
          IF t.hosts[d].locked
          THEN FoldLeft(LAMBDA u, c : PostLeave(u, d, n, c), t, Conns(t, d, n))
          ELSE FoldSet(LAMBDA c, u : PostLeave(u, d, n, c), t,
                       SrcLoopErased(Conns(t, d, n), IF Conns(t, d, n) = <<>> THEN 0 ELSE 1))
    IN IF d \notin DOMAIN s.hosts THEN s
       ELSE FoldSet(OneNW, s, DOMAIN s.hosts[d].nws \ {0})

-----------------------------------------------------------------------------
(* The packet-in pipeline.  An event ev is a record [id, bcast, loc, sdl,  *)
(* snw, ddl, dnw, src]; src is the connector set_flow_src_conn chose.      *)

FlowIn(ev) == [k |-> "flow_in", ev |-> ev]

\* post(event) of a Flow_in or Broadcast_in
Emit(s, ev) == [s EXCEPT !.emitted = @ \cup {[id |-> ev.id, src |-> ev.src]}]

\* get_addr_conns: [st, ok, nw].  A new DLEntry or NWEntry is locked, the
\* flow-in queued on it and the entry filled in by the directory; a router
\* dladdr folds a non-internal nwaddr onto its nwaddr-0 entry.
GetAddrConns(s, d, n, ev) ==
    LET m == IF n # 0 /\ s.hosts[d].router /\ n \notin InternalIP THEN 0 ELSE n
    IN IF d \notin DOMAIN s.hosts
       THEN [st |-> NewDLEntry(Wait(AddDL(s, d), d, FlowIn(ev)), d, TRUE),
             ok |-> FALSE, nw |-> n]
       ELSE IF s.hosts[d].locked
       THEN [st |-> Wait(s, d, FlowIn(ev)), ok |-> FALSE, nw |-> n]
       ELSE IF m \in DOMAIN s.hosts[d].nws
       THEN [st |-> s, ok |-> TRUE, nw |-> m]
       ELSE [st |-> NewNWEntry(Wait(Lock(AddNW(s, d, m), d), d, FlowIn(ev)), d, m, TRUE),
             ok |-> FALSE, nw |-> m]

\* make_primary: an external connector moves to the front, an internal one
\* in front of the first internal connector.
\* Mutant: every connector, internal or not, moved to the front.
MakePrimary_front(s, d, n, i) ==
    [s EXCEPT !.hosts[d].nws[n] = InsertAt(RemoveAt(Conns(s, d, n), i), 1, Conns(s, d, n)[i])]

MakePrimary(s, d, n, i) ==
    LET l == Conns(s, d, n)
        c == l[i]
        j == IF s.conns[c].internal
             THEN SelectInSeq(l, LAMBDA x : s.conns[x].internal) ELSE 1
    IN [s EXCEPT !.hosts[d].nws[n] = InsertAt(RemoveAt(l, i), j, c)]

\* auth_host2: the source is unknown, so ask the directory for its host
\* name; for a router dladdr a non-internal address is authenticated on the
\* dladdr alone, an internal one without owning the dladdr.
AuthHost2(s, ev) ==
    LET d == ev.sdl
        n == ev.snw
        GetHost(m, owns) == Call(s, [op |-> "get_host", ev |-> ev, nw |-> m, owns |-> owns])
        k == [k |-> "auth_host2", ev |-> ev]
    IN IF n = 0 THEN GetHost(0, TRUE)
       ELSE IF d \notin DOMAIN s.hosts THEN NewDLEntry(Wait(AddDL(s, d), d, k), d, TRUE)
       ELSE IF s.hosts[d].locked THEN Wait(s, d, k)
       ELSE IF ~s.hosts[d].router THEN GetHost(n, TRUE)
       ELSE IF n \in InternalIP THEN GetHost(n, FALSE)
       ELSE GetHost(0, TRUE)

\* set_flow_src_conn: [st, ok, ev].  Exact location, then an on-path
\* connector for an internal port, then the router pivot through nwhosts;
\* failing those, auth_ev_host or a temporary connector.
SetFlowSrcConn(s, ev, n) ==
    LET d == ev.sdl
        l == ev.loc
        e == s.hosts[d]
        internal == l \in InternalLoc
        i == FindConn(s, d, n, l)
        j == OnPathIdx(s, d, n, l)
        zi == FindConn(s, d, 0, l)
        pi == IF zi # 0 THEN zi ELSE IF internal THEN OnPathIdx(s, d, 0, l) ELSE 0
        Src(t, c) == [st |-> t, ok |-> TRUE, ev |-> [ev EXCEPT !.src = c]]
        Fail(t) == [st |-> t, ok |-> FALSE, ev |-> ev]
        Fallback == IF AutoAuth \/ d \in InternalMAC
                    THEN AuthHost2(s, ev)
                    ELSE Call(s, [op |-> "temp_src", ev |-> [ev EXCEPT !.src = Temp]])
    IN IF i # 0 THEN Src(MakePrimary(s, d, n, i), Conns(s, d, n)[i])
       ELSE IF internal /\ j # 0 THEN Src(s, Conns(s, d, n)[j])
       ELSE IF n # 0 /\ e.router /\ e.zero /\ pi # 0 /\ s.nwhosts[n] # <<>>
       THEN LET h == Head(s.nwhosts[n])
            IN IF s.hosts[h].locked THEN Fail(Wait(s, h, FlowIn(ev)))
               ELSE Src(IF zi # 0 THEN MakePrimary(s, d, 0, zi) ELSE s,
                        Head(Conns(s, h, n)))
       ELSE Fail(Fallback)

\* set_flow_dst_conn: the entry's connectors, the router pivot, or a
\* temporary unauthenticated destination (after an optional host lookup).
SetFlowDstConn(s, ev, n) ==
    LET d == ev.ddl
        e == s.hosts[d]
    IN IF Conns(s, d, n) # <<>> THEN Emit(s, ev)
       ELSE IF n # 0 /\ e.zero /\ Conns(s, d, 0) # <<>> /\ e.router
               /\ s.nwhosts[n] # <<>>
       THEN LET h == Head(s.nwhosts[n])
            IN IF s.hosts[h].locked THEN Wait(s, h, FlowIn(ev)) ELSE Emit(s, ev)
       ELSE Call(s, [op |-> "temp_dst", ev |-> ev])

\* set_flow_in: the source is resolved only while ev.src is NULL; a
\* continuation that resumes after the destination wait keeps the source
\* it had found before.
SetFlowIn(s, ev) ==
    LET Dst(t, e) ==
          LET g == GetAddrConns(t, e.ddl, e.dnw, e)
          IN IF ~g.ok THEN g.st
             ELSE IF e.bcast THEN Emit(g.st, e)
             ELSE SetFlowDstConn(g.st, e, g.nw)
        g == GetAddrConns(s, ev.sdl, ev.snw, ev)
        r == SetFlowSrcConn(g.st, ev, g.nw)
    IN IF ev.src # NoConn THEN Dst(s, ev)
       ELSE IF ~g.ok THEN g.st
       ELSE IF r.ok THEN Dst(r.st, r.ev)
       ELSE r.st

\* handle_packet_in: an IP broadcast with nw_src 0 (DHCP) first forgets
\* the source's non-zero nwaddr bindings.
HandlePacketIn(s, ev) ==
    SetFlowIn(IF ev.bcast /\ ev.snw = 0 THEN RemoveSrcLocation(s, ev.sdl) ELSE s, ev)

-----------------------------------------------------------------------------
(* AUTHENTICATE.  An auth event ae is [loc, dl, nw, owns, host, user,     *)
(* pkt]; pkt is the Packet_in to re-post when done (to_post) or NoPkt.     *)

\* unlock_auth2: unlock with the waiters set aside, post to_post, then run
\* the waiters.
\* Mutants: unlock_auth2 that leaves status.locked set; that drops to_post.
UnlockAuth2_stayslocked(s, ae) ==
    [s EXCEPT !.hosts[ae.dl].waiters = <<>>,
              !.running = s.hosts[ae.dl].waiters \o @,
              !.bus = IF ae.pkt = NoPkt THEN @
                      ELSE Append(@, [kind |-> "packet", ev |-> ae.pkt])]
UnlockAuth2_nopost(s, ae) ==
    [s EXCEPT !.hosts[ae.dl].locked = FALSE, !.hosts[ae.dl].waiters = <<>>,
              !.running = s.hosts[ae.dl].waiters \o @]

UnlockAuth2(s, ae) ==
    LET d == ae.dl
    IN [s EXCEPT !.hosts[d].locked = FALSE, !.hosts[d].waiters = <<>>,
                 !.running = s.hosts[d].waiters \o @,
                 !.bus = IF ae.pkt = NoPkt THEN @
                         ELSE Append(@, [kind |-> "packet", ev |-> ae.pkt])]

\* update_complete: JOIN for a newly shared nwaddr, then unlock_auth.
\* Mutant: update_complete announcing a JOIN for every update.
UpdateComplete_alwaysjoin(s, ae, addnw) ==
    UnlockAuth2([s EXCEPT !.joined[<<ae.dl, ae.nw, ae.loc>>] = @ + 1], ae)

UpdateComplete(s, ae, addnw) ==
    UnlockAuth2(IF addnw THEN [s EXCEPT !.joined[<<ae.dl, ae.nw, ae.loc>>] = @ + 1]
                ELSE s, ae)

\* update_conn: a new user name replaces an UNAUTHENTICATED or
\* AUTHENTICATED front user and its groups are fetched first.
UpdateConn(s, ae, c, addnw) ==
    IF ae.user \notin {"unknown", "unauth"} /\ s.conns[c].user # ae.user
    THEN Call([s EXCEPT !.conns[c].user = ae.user],
              [op |-> "update", ae |-> ae, addnw |-> addnw])
    ELSE UpdateComplete(s, ae, addnw)

\* init_conn: the new connector's groups (and, for an internal MAC, the
\* switch group membership) come from the directory.
InitConn(s, ae, c) == Call(s, [op |-> "init", ae |-> ae, c |-> c])

\* remove_internal_hosts: leave the internal-port connectors that lie on
\* the path from the authenticating location.
RemoveInternalHosts(s, d, n, l) ==
    FoldLeft(LAMBDA t, c : IF s.conns[c].internal /\ <<l, s.conns[c].loc>> \in OnPath
                           THEN PostLeave(t, d, n, c) ELSE t,
             s, Conns(s, d, n))

\* The tail of add_auth2 (authenticator.cc:1305-1366): lock, put the entry at
\* the head of nwhosts, then update connector c, or insert at the primary
\* position the shared nwaddr-0 connector zc or a new connector.
Bind(s, ae, zc, n, c) ==
    LET d == ae.dl
        s1 == Lock(s, d)
        s2 == IF n = 0 THEN s1 ELSE [s1 EXCEPT !.nwhosts[n] = <<d>> \o Remove(@, d)]
        internal == ae.loc \in InternalLoc
        l == Conns(s2, d, n)
        firstInternal == SelectInSeq(l, LAMBDA x : s2.conns[x].internal)
        pos == IF internal \/ firstInternal = 0 THEN Len(l) + 1 ELSE firstInternal
        new == Len(s2.conns) + 1
    IN IF c # 0 THEN UpdateConn(s2, ae, c, FALSE)
       ELSE IF n # 0 /\ ae.owns
       THEN UpdateConn([s2 EXCEPT !.hosts[d].nws[n] = InsertAt(@, pos, zc),
                                  !.conns[zc].nb = @ + 1], ae, zc, TRUE)
       ELSE InitConn([s2 EXCEPT !.hosts[d].nws[n] = InsertAt(@, pos, new),
                                !.conns = Append(@, [loc |-> ae.loc, internal |-> internal,
                                                     host |-> IdOf(ae.host),
                                                     user |-> IdOf(ae.user), nb |-> 1])],
                     ae, new)

\* The while loop of add_auth2: create the NWEntry (queueing add_auth2 at
\* the FRONT of the waiters), or resolve the connector already at ae.loc.
RECURSIVE AuthLoop(_, _, _, _)
AuthLoop(s, ae, zc, n) ==
    LET d == ae.dl
        i == FindConn(s, d, n, ae.loc)
        c == Conns(s, d, n)[i]
    IN IF n \notin DOMAIN s.hosts[d].nws
       THEN NewNWEntry([Lock(AddNW(s, d, n), d) EXCEPT !.hosts[d].waiters =
                           <<[k |-> "add_auth2", ae |-> ae, zc |-> zc]>> \o @],
                       d, n, FALSE)
       ELSE IF i = 0 THEN Bind(RemoveInternalHosts(s, d, n, ae.loc), ae, zc, n, 0)
       ELSE IF n # 0 /\ ae.owns
       THEN IF c # zc THEN Bind(PostLeave(s, d, n, c), ae, zc, n, 0)
            ELSE Bind(s, ae, zc, n, c)
       ELSE IF ae.host = "unknown" \/ s.conns[c].host = ae.host
       THEN IF n # ae.nw THEN AuthLoop(s, ae, c, ae.nw) ELSE Bind(s, ae, zc, n, c)
       ELSE Bind(PostLeave(s, d, n, c), ae, zc, n, 0)

\* add_auth2: runs holding the lock, which it clears for its post_leaves.
AddAuth2(s, ae, zc) ==
    AuthLoop([s EXCEPT !.hosts[ae.dl].locked = FALSE], ae, zc,
             IF ae.owns /\ zc = NoConn THEN 0 ELSE ae.nw)

\* init_complete: JOIN, then unlock_auth, which for an owns_dl event with an
\* address goes back to add_auth2 to share the connector under it.
InitComplete(s, ae, c) ==
    LET n == IF ae.owns THEN 0 ELSE ae.nw
        s1 == [s EXCEPT !.joined[<<ae.dl, n, ae.loc>>] = @ + 1]
    IN IF n # ae.nw THEN AddAuth2(s1, ae, c) ELSE UnlockAuth2(s1, ae)

\* add_auth
AddAuth(s, ae) ==
    LET d == ae.dl
    IN IF d \notin DOMAIN s.hosts
       THEN NewDLEntry(Wait(AddDL(s, d), d, [k |-> "add_auth2", ae |-> ae, zc |-> NoConn]),
                       d, FALSE)
       ELSE IF s.hosts[d].locked THEN Wait(s, d, [k |-> "add_auth", ae |-> ae])
       ELSE AddAuth2(s, ae, NoConn)

-----------------------------------------------------------------------------
(* DEAUTHENTICATE with a datapath: ae is [loc, dl, nw, host, user, pkt].   *)

DelAuth(s, ae) ==
    LET d == ae.dl
        found == d \in DOMAIN s.hosts /\ ae.nw \in DOMAIN s.hosts[d].nws
                 /\ FindConn(s, d, ae.nw, ae.loc) # 0
        c == Conns(s, d, ae.nw)[FindConn(s, d, ae.nw, ae.loc)]
        cc == s.conns[c]
        Post(t) == IF ae.pkt = NoPkt THEN t
                   ELSE [t EXCEPT !.bus = Append(@, [kind |-> "packet", ev |-> ae.pkt])]
        updHost == ae.host # "unknown" /\ (cc.host = ae.host \/ ae.host = "unauth")
                   /\ cc.host # "unauth"
        updUser == ae.user # "unknown" /\ cc.user # "unauth"
                   /\ (ae.user = "unauth" \/ ae.user = cc.user)
        s1 == Lock([s EXCEPT !.conns[c].host = IF updHost THEN "unauth" ELSE @,
                             !.conns[c].user = IF updUser THEN "unauth" ELSE @], d)
    IN IF d \in DOMAIN s.hosts /\ s.hosts[d].locked
       THEN Wait(s, d, [k |-> "del_auth", ae |-> ae])
       ELSE IF ~found THEN Post(s)
       ELSE IF ae.host = "unknown" /\ ae.user = "unknown"
       THEN Post(PostLeave(s, d, ae.nw, c))
       ELSE IF updHost \/ updUser THEN Call(s1, [op |-> "deauth", ae |-> ae])
       ELSE UnlockAuth2(s1, ae)

-----------------------------------------------------------------------------
(* Host removal by predicate, netinfo changes and the timer sweep.         *)

\* The To_Remove_Fn predicates: is_ip_host, and is_ap / is_rm_dp_ap as a
\* set of locations.
Matches(s, c, n, pred) ==
    IF pred.by = "ip" THEN n # 0 ELSE s.conns[c].loc \in pred.locs

\* remove_nwhosts.  Processing the nwaddr-0 entry last gives the state the
\* hash_map order would give: its cascade leaves the same connectors.
RemoveNWHosts(s, d, pred) ==
    LET InNW(n, t) ==
          FoldLeft(LAMBDA u, c : IF Matches(u, c, n, pred) THEN PostLeave(u, d, n, c) ELSE u,
                   t, Conns(t, d, n))
        s1 == FoldSet(InNW, s, DOMAIN s.hosts[d].nws \ {0})
    IN IF 0 \in DOMAIN s1.hosts[d].nws THEN InNW(0, s1) ELSE s1

\* remove_addr_hosts (also the locked branch of remove_hosts)
RemoveAddrHosts(s, d, pred) ==
    IF d \notin DOMAIN s.hosts THEN s
    ELSE IF s.hosts[d].locked
    THEN Wait(s, d, [k |-> "remove_addr_hosts", dl |-> d, pred |-> pred])
    ELSE RemoveNWHosts(s, d, pred)

\* remove_hosts
RemoveHosts(s, pred) ==
    FoldSet(LAMBDA d, t : RemoveAddrHosts(t, d, pred), s, DOMAIN s.hosts)

\* mod_dl_attrs: a router change, or becoming a gateway, evicts every
\* IP-bearing connector of the dladdr.
ModDLAttrs(s, d, r, g) ==
    IF d \notin DOMAIN s.hosts THEN s
    ELSE IF s.hosts[d].locked
    THEN Wait(s, d, [k |-> "mod_dl_attrs", dl |-> d, router |-> r, gateway |-> g])
    ELSE IF s.hosts[d].router # r \/ (~s.hosts[d].gateway /\ g)
    THEN RemoveNWHosts([s EXCEPT !.hosts[d].router = r, !.hosts[d].gateway = g],
                       d, [by |-> "ip"])
    ELSE [s EXCEPT !.hosts[d].gateway = g]

\* remove_expired_hosts for one dladdr.  hard and idle are the connectors
\* whose hard timeout or inactivity period has passed; old are the entries
\* that were empty before the sweep and whose timeout has passed (an entry
\* the sweep itself empties gets timeout now + ADDR_TIMEOUT).  A nwaddr-0
\* connector is idle only if no connector at its location is still active
\* under another nwaddr.
SweepDL(s, d, hard, idle, old) ==
    LET nz == DOMAIN s.hosts[d].nws \ {0}
        Expire(n, t) ==
          FoldLeft(LAMBDA u, c : IF c \in hard \cup idle THEN PostLeave(u, d, n, c) ELSE u,
                   t, Conns(t, d, n))
        s1 == FoldSet(Expire, s, nz)
        active == {s1.conns[c].loc : c \in UNION {ToSet(Conns(s1, d, n)) : n \in nz}}
        gone == {n \in nz : Conns(s1, d, n) = <<>> /\ <<d, n>> \in old}
        s2 == [s1 EXCEPT !.hosts[d].nws = Restrict(@, DOMAIN @ \ gone)]
        ZeroExpired(c) == c \in hard \/ (c \in idle /\ s2.conns[c].loc \notin active)
        s3 == IF ~s2.hosts[d].zero THEN s2
              ELSE FoldLeft(LAMBDA u, c : IF ZeroExpired(c) THEN PostLeave(u, d, 0, c) ELSE u,
                            s2, Conns(s2, d, 0))
        s4 == IF s3.hosts[d].zero /\ Conns(s3, d, 0) = <<>> /\ <<d, 0>> \in old
              THEN [s3 EXCEPT !.hosts[d].nws = Restrict(@, DOMAIN @ \ {0}),
                              !.hosts[d].zero = FALSE]
              ELSE s3
    IN IF s.hosts[d].locked THEN s
       ELSE IF DOMAIN s4.hosts[d].nws = {}
       THEN [s4 EXCEPT !.hosts = Restrict(@, DOMAIN @ \ {d})]
       ELSE s4

-----------------------------------------------------------------------------
(* Continuations and directory replies.                                    *)

\* A waiter taken from `running'.
Run(s, k) ==
    CASE k.k = "flow_in"           -> SetFlowIn(s, k.ev)
      [] k.k = "add_auth"          -> AddAuth(s, k.ae)
      [] k.k = "add_auth2"         -> AddAuth2(s, k.ae, k.zc)
      [] k.k = "del_auth"          -> DelAuth(s, k.ae)
      [] k.k = "redo_leave"        -> RedoLeave(s, k.dl, k.nw, k.loc)
      [] k.k = "mod_dl_attrs"      -> ModDLAttrs(s, k.dl, k.router, k.gateway)
      [] k.k = "remove_addr_hosts" -> RemoveAddrHosts(s, k.dl, k.pred)
      [] k.k = "auth_host2"        -> AuthHost2(s, k.ev)

\* new_dl2 and new_dl3: record the directory's router/gateway answers and
\* the zero pointer, then unlock or hand over the lock.
NewDL3(s, op, router, gateway) ==
    Release([s EXCEPT !.hosts[op.dl].router = router,
                      !.hosts[op.dl].gateway = gateway,
                      !.hosts[op.dl].zero = 0 \in DOMAIN s.hosts[op.dl].nws],
            op.dl, op.unlock)

\* auth_host3: post an AUTHENTICATE for the source with the found host
\* name, or AUTHENTICATED when the directory knows none.
AuthHost3(s, op, hostname) ==
    [s EXCEPT !.bus = Append(@, [kind |-> "auth",
        ae |-> [loc |-> op.ev.loc, dl |-> op.ev.sdl, nw |-> op.nw, owns |-> op.owns,
                host |-> IF hostname = "unknown" THEN "authd" ELSE hostname,
                user |-> "unknown", pkt |-> [op.ev EXCEPT !.src = NoConn]]])]

-----------------------------------------------------------------------------
(* The specification.                                                      *)

Init ==
    /\ hosts = <<>>
    /\ conns = <<>>
    /\ nwhosts = [n \in IP |-> <<>>]
    /\ pending = {}
    /\ running = <<>>
    /\ bus = <<>>
    /\ joined = [b \in DL \X NW \X Loc |-> 0]
    /\ emitted = {}
    /\ inputs = <<>>

\* Handlers run one at a time: nothing starts while waiters are running.
Quiet == running = <<>>

External(in) == Quiet /\ Len(inputs) < MaxExternal /\ inputs' = Append(inputs, in)

PacketIn ==
    \E p \in PacketIns :
       /\ External([kind |-> "packet", in |-> p])
       /\ Put(HandlePacketIn(st, [id |-> Len(inputs) + 1, bcast |-> p.bcast, loc |-> p.loc,
                                  sdl |-> p.sdl, snw |-> p.snw,
                                  ddl |-> IF p.bcast THEN Bcast ELSE p.ddl,
                                  dnw |-> p.dnw, src |-> NoConn]))

Authenticate ==
    \E a \in AuthIns :
       /\ External([kind |-> "auth", in |-> a])
       /\ Put(AddAuth(st, [loc |-> a.loc, dl |-> a.dl, nw |-> a.nw, owns |-> a.owns,
                           host |-> a.host, user |-> a.user, pkt |-> NoPkt]))

Deauthenticate ==
    \E a \in DeauthIns :
       /\ External([kind |-> "deauth", in |-> a])
       /\ Put(DelAuth(st, [loc |-> a.loc, dl |-> a.dl, nw |-> a.nw,
                           host |-> a.host, user |-> a.user, pkt |-> NoPkt]))

NetinfoChange ==
    \E m \in NetinfoIns :
       /\ External([kind |-> "netinfo", in |-> m])
       /\ Put(ModDLAttrs(st, m[1], m[2], m[3]))

\* handle_port_status (OFPPR_DELETE), handle_link_change (ADD),
\* handle_datapath_join and handle_data_leave: remove_hosts by location.
LocationGone ==
    \E L \in LocRemovals :
       /\ External([kind |-> "locations", in |-> L])
       /\ Put(RemoveHosts(st, [by |-> "loc", locs |-> L]))

LiveConns == {c \in 1..Len(conns) : conns[c].nb > 0}
EmptyEntries == {<<d, n>> \in (DOMAIN hosts) \X NW :
                    n \in DOMAIN hosts[d].nws /\ hosts[d].nws[n] = <<>>}

Sweep ==
    /\ External([kind |-> "sweep", in |-> 0])
    /\ \E hard, idle \in SUBSET LiveConns, old \in SUBSET EmptyEntries :
          /\ hard \cap idle = {}
          /\ Put(FoldSet(LAMBDA d, t : SweepDL(t, d, hard, idle, old), st, DOMAIN hosts))

Step ==
    /\ running # <<>>
    /\ Put(Run([st EXCEPT !.running = Tail(@)], Head(running)))
    /\ UNCHANGED inputs

\* A directory (or bindings/groups) reply runs the callback of a pending
\* call between handlers, in any order with respect to other replies.
Ops(kind) == {op \in pending : op.op = kind}
Answered(op) == [st EXCEPT !.pending = @ \ {op}]

ReplyNewDL ==
    /\ Quiet /\ \E op \in Ops("new_dl"), r, g \in BOOLEAN : Put(NewDL3(Answered(op), op, r, g))
    /\ UNCHANGED inputs
ReplyNewNW ==
    /\ Quiet /\ \E op \in Ops("new_nw") : Put(Release(Answered(op), op.dl, op.unlock))
    /\ UNCHANGED inputs
ReplyInit ==
    /\ Quiet /\ \E op \in Ops("init") : Put(InitComplete(Answered(op), op.ae, op.c))
    /\ UNCHANGED inputs
ReplyUpdate ==
    /\ Quiet /\ \E op \in Ops("update") : Put(UpdateComplete(Answered(op), op.ae, op.addnw))
    /\ UNCHANGED inputs
ReplyDeauth ==
    /\ Quiet /\ \E op \in Ops("deauth") : Put(UnlockAuth2(Answered(op), op.ae))
    /\ UNCHANGED inputs
ReplyTempSrc ==
    /\ Quiet /\ \E op \in Ops("temp_src") : Put(SetFlowIn(Answered(op), op.ev))
    /\ UNCHANGED inputs
ReplyTempDst ==
    /\ Quiet /\ \E op \in Ops("temp_dst") : Put(Emit(Answered(op), op.ev))
    /\ UNCHANGED inputs
ReplyGetHost ==
    /\ Quiet
    /\ \E op \in Ops("get_host"), h \in {"unknown"} \cup HostNames :
          Put(AuthHost3(Answered(op), op, h))
    /\ UNCHANGED inputs

\* The event loop hands the next posted event to its handler.
DeliverAuth ==
    /\ Quiet /\ bus # <<>> /\ Head(bus).kind = "auth"
    /\ Put(AddAuth([st EXCEPT !.bus = Tail(@)], Head(bus).ae))
    /\ UNCHANGED inputs

DeliverPacket ==
    /\ Quiet /\ bus # <<>> /\ Head(bus).kind = "packet"
    /\ Put(HandlePacketIn([st EXCEPT !.bus = Tail(@)], Head(bus).ev))
    /\ UNCHANGED inputs

\* Every input consumed and every event handled: the controller idles.
Done ==
    /\ Quiet /\ pending = {} /\ bus = <<>> /\ Len(inputs) = MaxExternal
    /\ UNCHANGED vars

Internal == Step \/ ReplyNewDL \/ ReplyNewNW \/ ReplyInit \/ ReplyUpdate
            \/ ReplyDeauth \/ ReplyTempSrc \/ ReplyTempDst \/ ReplyGetHost
            \/ DeliverAuth \/ DeliverPacket

Next ==
    \/ PacketIn \/ Authenticate \/ Deauthenticate \/ NetinfoChange
    \/ LocationGone \/ Sweep
    \/ Internal
    \/ Done

\* Internal can take a step exactly when a waiter is running, or between
\* handlers when a call is pending or an event is posted.
InternalReady == running # <<>> \/ (Quiet /\ (pending # {} \/ bus # <<>>))

\* One thread runs handlers, waiters and callbacks, and the directory
\* answers every call (spec section 5): while an internal step can be
\* taken, one is.  This is WF_vars(Internal), with ENABLED Internal written
\* as InternalReady and an Internal step as a step of Next that changes the
\* store and consumes no input (External steps append to inputs, Done
\* changes nothing).  No fairness is assumed among the replies.
Fairness == <>[]InternalReady => []<><<UNCHANGED inputs>>_store

Spec == Init /\ [][Next]_vars /\ Fairness

-----------------------------------------------------------------------------
(* Properties.                                                             *)

ContKinds == {"flow_in", "add_auth", "add_auth2", "del_auth", "redo_leave",
              "mod_dl_attrs", "remove_addr_hosts", "auth_host2"}
OpKinds == {"new_dl", "new_nw", "init", "update", "deauth", "temp_src",
            "temp_dst", "get_host"}
Conn == [loc : Loc, internal : BOOLEAN, host : HostId, user : UserId, nb : Nat]
ConnIds == 1..Len(conns)

TypeOK ==
    /\ conns \in Seq(Conn)
    /\ DOMAIN hosts \subseteq DL
    /\ \A d \in DOMAIN hosts :
          /\ {hosts[d].locked, hosts[d].router, hosts[d].gateway, hosts[d].zero} \subseteq BOOLEAN
          /\ \A i \in 1..Len(hosts[d].waiters) : hosts[d].waiters[i].k \in ContKinds
          /\ DOMAIN hosts[d].nws \subseteq NW
          /\ \A n \in DOMAIN hosts[d].nws : hosts[d].nws[n] \in Seq(ConnIds)
    /\ nwhosts \in [IP -> Seq(DL)]
    /\ \A op \in pending : op.op \in OpKinds
    /\ \A i \in 1..Len(running) : running[i].k \in ContKinds
    /\ \A i \in 1..Len(bus) : bus[i].kind \in {"auth", "packet"}
    /\ joined \in [DL \X NW \X Loc -> Int]
    /\ emitted \subseteq [id : 1..MaxExternal, src : {Temp} \cup ConnIds]
    /\ Len(inputs) <= MaxExternal

\* The directory calls that run while holding the UpdateStatus of dladdr d.
LockHolders(d) ==
    {op \in pending : \/ op.op \in {"new_dl", "new_nw"} /\ op.dl = d
                      \/ op.op \in {"init", "update", "deauth"} /\ op.ae.dl = d}

\* Between handlers, a dladdr is locked exactly while one directory call
\* that took its lock (new_dl_entry, new_nw_entry, init_conn, update_conn,
\* the deauth group update) is outstanding, and it has waiters only while
\* locked: no unlock_status is lost and no two operations hold the lock.
LockOwnedByCall ==
    Quiet =>
      \A d \in DL :
        /\ Cardinality(LockHolders(d)) <= 1
        /\ d \in DOMAIN hosts =>
              /\ hosts[d].locked <=> LockHolders(d) # {}
              /\ hosts[d].waiters # <<>> => hosts[d].locked
        /\ d \notin DOMAIN hosts => LockHolders(d) = {}

Entries == {<<d, n>> \in (DOMAIN hosts) \X NW : n \in DOMAIN hosts[d].nws}
Slots == UNION {{<<e[1], e[2], i>> : i \in 1..Len(hosts[e[1]].nws[e[2]])} : e \in Entries}
SlotConn(x) == hosts[x[1]].nws[x[2]][x[3]]

\* n_bindings of every connector equals the number of ConnLists holding
\* it: add_auth2's sharing of the nwaddr-0 connector and post_leave's
\* decrement (with its nwaddr-0 cascade) stay balanced.
BindingCount ==
    \A c \in ConnIds : conns[c].nb = Cardinality({x \in Slots : SlotConn(x) = c})

\* DLEntry.zero points at the nwaddr-0 NWEntry exactly when there is one:
\* new_nw_entry, new_dl3 and the sweep's erase keep the pointer current.
ZeroPointer ==
    \A d \in DOMAIN hosts : hosts[d].zero <=> 0 \in DOMAIN hosts[d].nws

\* nwhosts[n] lists each dladdr once, and exactly the dladdrs with a
\* non-empty ConnList under n: post_leave drops emptied entries, add_auth2
\* moves the binding dladdr to the front, no pointer outlives its NWEntry.
NWHostsIndex ==
    \A n \in IP :
      /\ IsInjective(nwhosts[n])
      /\ ToSet(nwhosts[n]) = {d \in DOMAIN hosts : <<d, n>> \in Entries /\ hosts[d].nws[n] # <<>>}

\* Within one ConnList there is at most one connector per location, and
\* external-port connectors come before internal-port ones (make_primary,
\* add_auth2's insertion point, set_flow_src_conn's lookups rely on it).
PrimaryOrder ==
    \A e \in Entries :
      LET l == hosts[e[1]].nws[e[2]]
      IN /\ \A i, j \in 1..Len(l) : i # j => conns[l[i]].loc # conns[l[j]].loc
         /\ \A i, j \in 1..Len(l) : i < j /\ conns[l[i]].internal => conns[l[j]].internal

\* Host_event JOINs and LEAVEs pair up: every binding is announced at most
\* once, and between handlers the announced bindings of an unlocked dladdr
\* are exactly its stored connectors' locations.
AnnouncedBindings ==
    /\ \A b \in DOMAIN joined : joined[b] \in {0, 1}
    /\ Quiet =>
         \A d \in DL : (d \notin DOMAIN hosts \/ ~hosts[d].locked) =>
           \A n \in NW, l \in Loc :
             joined[<<d, n, l>>] =
               IF <<d, n>> \in Entries /\ \E c \in ToSet(hosts[d].nws[n]) : conns[c].loc = l
               THEN 1 ELSE 0

Forwarded == {e.id : e \in emitted}

\* Every packet-in is eventually posted as a Flow_in or Broadcast_in:
\* through lock waits, temporary connectors and the auth_host round trip
\* that re-posts it, no packet is dropped or parked forever.
PacketsForwarded ==
    \A i \in 1..MaxExternal :
      (i <= Len(inputs) /\ inputs[i].kind = "packet") ~> i \in Forwarded

\* The external input a step consumes, if any.
NewInput == IF Len(inputs') = Len(inputs) + 1 THEN {inputs'[Len(inputs')]} ELSE {}

\* Spec 4.3 step 3: a broadcast IP packet-in with nw_src 0 (DHCP) purges
\* every non-zero nwaddr connector of its source dladdr.  Checked against
\* handle_packet_in -> remove_src_location when the dladdr is unlocked.
DhcpForgetsAddresses ==
    [][\A x \in NewInput :
         LET p == x.in
         IN (x.kind = "packet" /\ p.bcast /\ p.snw = 0
             /\ p.sdl \in DOMAIN hosts /\ ~hosts[p.sdl].locked)
            => \A n \in DOMAIN hosts'[p.sdl].nws \ {0} : hosts'[p.sdl].nws[n] = <<>>]_vars

\* Spec 5: state read before a suspension is re-read when the continuation
\* resumes.  A Flow_in posted by set_flow_in carries a source connector
\* that is still bound somewhere when the event is posted.
FlowSourceCurrent ==
    [][\A e \in emitted' \ emitted : e.src > 0 => conns'[e.src].nb > 0]_vars

=============================================================================
