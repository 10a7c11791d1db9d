-------------------------------- MODULE Names --------------------------------
(***************************************************************************)
(* The authenticator's name interner and its group caches (authenticator.cc*)
(* get_id/rename/decrement_id, authenticator-helper.cc new_switch ...      *)
(* remove_location, get_info_groups, translate_groups, the name expiry of  *)
(* remove_expired_hosts, and the directory-event handlers of               *)
(* authenticator-names.cc):                                                *)
(*   names    NameMap: mangled name -> id.  A mangled name (name + type    *)
(*            suffix) is the pair <<name, suffix>>.                        *)
(*   ids      IDMap: id -> IDEntry {refcount, name, suffix}.               *)
(*   counter  the next id get_id tries, in START_ID..MaxId (UINT32_MAX).   *)
(*   infos    the GroupInfos {status, id, groups}: switches by datapath,   *)
(*            locations by <<datapath, port>>, and the process-wide        *)
(*            unauth_sw_groups and unauth_loc_groups.                      *)
(*   held     the references the rest of the authenticator (connectors,    *)
(*            addr_groups) holds on each id, taken with get_id(incr) and   *)
(*            given back with decrement_id.                                *)
(* As in HostStore, a directory call suspends the handler until its reply  *)
(* action, and unlock_status runs the waiters synchronously via running.   *)
(***************************************************************************)
EXTENDS Integers, Sequences, SequencesExt, FiniteSets, GroupLists

CONSTANTS
    DP,           \* datapath ids (model values)
    Port,         \* port numbers
    SwitchNames,  \* switch principal names the directory may return
    LocNames,     \* location principal names the directory may return
    HostNames,    \* names the rest of the authenticator interns
    GroupNames,   \* group names the directory may return
    JoinIns,      \* Datapath_join_event ports: <<dp, set of ports>>
    LeaveIns,     \* Datapath_leave_event datapaths
    PortIns,      \* Port_status_event <<location, TRUE for add, FALSE for delete>>
    RenameIns,    \* Principal_name_event <<old, new, suffix>>; new "" deletes
    DelnameIns,   \* Location_delete_event <<location, old, new>>
    GroupIns,     \* Group_name_event <<old, new, group suffix>>
    ChangeIns,    \* Group_change_event <<group suffix, change name, subgroup>>
    MaxId,        \* the largest id, standing for UINT32_MAX
    MaxExternal   \* bound on the number of external events

UNAUTHENTICATED_ID == 0
AUTHENTICATED_ID == 1
UNKNOWN_ID == 2
START_ID == 3
Id == 0..MaxId
Loc == DP \X Port
\* get_groups' answers: the group names in the directory's order
GroupAnswers == {<<>>} \cup {<<x>> : x \in GroupNames}
                \cup {<<x, y>> \in GroupNames \X GroupNames : x # y}

ASSUME START_ID < MaxId

\* The pseudo-names UNAUTHENTICATED, AUTHENTICATED and UNKNOWN
Pseudo == {"unauth", "authd", "unknown"}

\* get_suffix: principal pseudo-names are not mangled.  Suffixes: "s"
\* switch, "l" location, "h" host, "sg" switch group, "lg" location group.
Mangle(n, sfx) == IF n \in Pseudo /\ sfx \in {"s", "l", "h"} THEN <<n, "">> ELSE <<n, sfx>>
Mangled(e) == Mangle(e.name, e.sfx)

VARIABLES names, ids, counter, infos, pending, running, held, lastGet, nExt

store == <<names, ids, counter, infos, pending, running, held, lastGet>>
vars == <<store, nExt>>

st == [names |-> names, ids |-> ids, counter |-> counter, infos |-> infos,
       pending |-> pending, running |-> running, held |-> held,
       lastGet |-> lastGet]

Put(s) == /\ names' = s.names /\ ids' = s.ids /\ counter' = s.counter
          /\ infos' = s.infos /\ pending' = s.pending /\ running' = s.running
          /\ held' = s.held /\ lastGet' = s.lastGet

-----------------------------------------------------------------------------
(* The interner (authenticator.cc).                                        *)

\* The counter step of get_id's loop: wrap from UINT32_MAX to START_ID.
\* Mutant: the wrap taken one id early, so UINT32_MAX is never handed out.
NextId_early(c) == IF c >= MaxId - 1 THEN START_ID ELSE c + 1

\* Mutant: no wrap at UINT32_MAX.
NextId_nowrap(c) == c + 1

NextId(c) == IF c = MaxId THEN START_ID ELSE c + 1

\* get_id's do-while loop from `loop': the first free id is given to the
\* mangled name m (refcount 1 with incr, else 0 and an expiry time) and
\* the counter moves past it; once the loop is back at its start every id
\* is live and AUTHENTICATED_ID is returned.  Result: <<store, id>>.
RECURSIVE Alloc(_, _, _, _, _)
Alloc(s, m, incr, c, loop) ==
    IF c \notin DOMAIN s.ids
    THEN <<[s EXCEPT !.names = (m :> c) @@ @,
                     !.ids = (c :> [ref |-> IF incr THEN 1 ELSE 0,
                                    name |-> m[1], sfx |-> m[2]]) @@ @,
                     !.counter = NextId(c)], c>>
    ELSE IF NextId(c) = loop THEN <<[s EXCEPT !.counter = loop], AUTHENTICATED_ID>>
    ELSE Alloc(s, m, incr, NextId(c), loop)

\* Mutant: a name that already has an id is not counted again with incr.
GetId_noincr(s, n, sfx, incr) ==
    LET m == Mangle(n, sfx)
    IN  IF <<n, "">> \in DOMAIN s.names /\ s.names[<<n, "">>] < START_ID
        THEN <<s, s.names[<<n, "">>]>>
        ELSE IF m \in DOMAIN s.names THEN <<s, s.names[m]>>
        ELSE Alloc(s, m, incr, s.counter, s.counter)

\* get_id: a reserved id under the bare name, else the mangled name's id
\* (refcount + 1 with incr; without, only the expiry moves), else a new id.
GetId(s, n, sfx, incr) ==
    LET m == Mangle(n, sfx)
    IN  IF <<n, "">> \in DOMAIN s.names /\ s.names[<<n, "">>] < START_ID
        THEN <<s, s.names[<<n, "">>]>>
        ELSE IF m \in DOMAIN s.names
        THEN LET i == s.names[m]
             IN  <<IF incr THEN [s EXCEPT !.ids[i].ref = @ + 1] ELSE s, i>>
        ELSE Alloc(s, m, incr, s.counter, s.counter)

\* decrement_id: reserved and unknown ids are ignored; at refcount 0 only
\* the expiry is re-armed.
DecrementId(s, i) ==
    IF i < START_ID \/ i \notin DOMAIN s.ids \/ s.ids[i].ref = 0 THEN s
    ELSE [s EXCEPT !.ids[i].ref = @ - 1]

\* decrement_ids
DecrementIds(s, l) == FoldLeft(DecrementId, s, l)

\* Mutant: the name is repointed but the entry keeps its old name.
Rename_keepname(s, old, new, sfx) ==
    LET om == Mangle(old, sfx)
        nm == Mangle(new, sfx)
        i  == s.names[om]
    IN  IF om \notin DOMAIN s.names THEN <<s, FALSE>>
        ELSE IF new = "" THEN <<s, TRUE>>
        ELSE IF nm = om THEN <<s, FALSE>>
        ELSE <<[s EXCEPT !.names = [k \in (DOMAIN @ \cup {nm}) \ {om} |->
                                       IF k = nm THEN i ELSE @[k]]], TRUE>>

\* rename: repoint the old mangled name's id to the new mangled name (over
\* an existing one), erase the old name and rename the entry.  An empty new
\* name is a delete: nothing changes but the result is TRUE.
\* Result: <<store, found>>.
Rename(s, old, new, sfx) ==
    LET om == Mangle(old, sfx)
        nm == Mangle(new, sfx)
        i  == s.names[om]
    IN  IF om \notin DOMAIN s.names THEN <<s, FALSE>>
        ELSE IF new = "" THEN <<s, TRUE>>
        ELSE IF nm = om THEN <<s, FALSE>>
        ELSE <<[s EXCEPT !.names = [k \in (DOMAIN @ \cup {nm}) \ {om} |->
                                       IF k = nm THEN i ELSE @[k]],
                         !.ids[i].name = new], TRUE>>

\* Mutant: the name is erased without checking that it still maps to the id.
ExpireNames_noguard(s, E) ==
    [s EXCEPT !.names = [k \in {x \in DOMAIN @ :
                                  ~\E i \in E : Mangled(s.ids[i]) = x} |-> @[k]],
              !.ids = [i \in DOMAIN @ \ E |-> @[i]]]

\* The id loop of remove_expired_hosts for the ids in E (refcount 0 and
\* past their expiry): the name is erased only if it still maps to the id.
ExpireNames(s, E) ==
    [s EXCEPT !.names = [k \in {x \in DOMAIN @ :
                                  ~(@[x] \in E /\ Mangled(s.ids[@[x]]) = x)} |-> @[k]],
              !.ids = [i \in DOMAIN @ \ E |-> @[i]]]

-----------------------------------------------------------------------------
(* GroupInfo caches (authenticator-helper.cc).                             *)

\* A GroupInfo key: <<"sw", dp>>, <<"loc", location>>, <<"un", "s">> for
\* unauth_sw_groups and <<"un", "l">> for unauth_loc_groups.
InfoPT(key) == IF key[1] = "sw" \/ key = <<"un", "s">> THEN "s" ELSE "l"
GroupSfx(pt) == IF pt = "s" THEN "sg" ELSE "lg"

\* SwitchGroupInfo() / LocGroupInfo(), value-initialised, then locked
NewInfo == [locked |-> TRUE, waiters |-> <<>>, id |-> UNAUTHENTICATED_ID,
            groups |-> <<>>]

WaitOn(s, key, k) == [s EXCEPT !.infos[key].waiters = Append(@, k)]
Call(s, op) == [s EXCEPT !.pending = @ \cup {op}]

\* Mutant: the flag is cleared but the queued waiters are dropped.
UnlockStatus_dropwaiters(s, key) ==
    [s EXCEPT !.infos[key].locked = FALSE, !.infos[key].waiters = <<>>]

\* unlock_status: clear the flag and run the waiters, in order, first.
UnlockStatus(s, key) ==
    [s EXCEPT !.infos[key].locked = FALSE, !.infos[key].waiters = <<>>,
              !.running = s.infos[key].waiters \o @]

\* get_info_groups: lock, then get_groups asks the directory.
GetInfoGroups(s, key) ==
    Call([s EXCEPT !.infos[key].locked = TRUE], [op |-> "groups", key |-> key])

\* get_info_groups2: take the translated list and unlock.
GetInfoGroups2(s, key, l) == UnlockStatus([s EXCEPT !.infos[key].groups = l], key)

\* translate_groups: get_id(incr) of every group name, inserted in order.
\* Result: <<store, list>>.
TranslateGroups(s, gs, gsfx) ==
    FoldLeft(LAMBDA acc, n : LET r == GetId(acc[1], n, gsfx, TRUE)
                             IN  <<r[1], InsertGroup(acc[2], r[2])>>,
             <<s, <<>>>>, gs)

\* The unlocked body of remove_switch / remove_location and of
\* remove_dp_locations: give back the id and the groups, erase the entry.
DropInfo(s, key) ==
    LET s1 == DecrementIds(DecrementId(s, s.infos[key].id), s.infos[key].groups)
    IN  [s1 EXCEPT !.infos = [x \in DOMAIN @ \ {key} |-> @[x]]]

\* new_switch / new_location: queue behind a locked entry; else lock it,
\* give back its id and groups, and look the principal's name up again.
\* Mutant: the old id is not given back.
NewInfoLookup_keepref(s, key, k, op) ==
    IF key \in DOMAIN s.infos
    THEN IF s.infos[key].locked THEN WaitOn(s, key, k)
         ELSE Call(DecrementIds([s EXCEPT !.infos[key].locked = TRUE,
                                          !.infos[key].groups = <<>>],
                                s.infos[key].groups), op)
    ELSE Call([s EXCEPT !.infos = (key :> NewInfo) @@ @], op)

NewInfoLookup(s, key, k, op) ==
    IF key \in DOMAIN s.infos
    THEN IF s.infos[key].locked THEN WaitOn(s, key, k)
         ELSE Call(DecrementIds(DecrementId([s EXCEPT !.infos[key].locked = TRUE,
                                                      !.infos[key].groups = <<>>],
                                            s.infos[key].id),
                                s.infos[key].groups), op)
    ELSE Call([s EXCEPT !.infos = (key :> NewInfo) @@ @], op)

NewSwitch(s, d) ==
    NewInfoLookup(s, <<"sw", d>>, [k |-> "new_switch", d |-> d],
                  [op |-> "sw_name", key |-> <<"sw", d>>])

NewLocation(s, l) ==
    NewInfoLookup(s, <<"loc", l>>, [k |-> "new_location", l |-> l],
                  [op |-> "loc_name", key |-> <<"loc", l>>])

\* new_switch_name / new_location_name: intern the name, fetch the groups.
NewSwitchName(s, key, n) ==
    LET r == GetId(s, n, "s", TRUE)
    IN  GetInfoGroups([r[1] EXCEPT !.infos[key].id = r[2]], key)

NewLocationName(s, key, n) ==
    LET r == GetId(s, n, "l", TRUE)
    IN  GetInfoGroups([r[1] EXCEPT !.infos[key].id = r[2]], key)

\* generate_location_name: the discovered name needs the switch's name, so
\* it waits while the switch's GroupInfo is locked.
GenerateLocationName(s, l) ==
    IF <<"sw", l[1]>> \in DOMAIN s.infos /\ s.infos[<<"sw", l[1]>>].locked
    THEN WaitOn(s, <<"sw", l[1]>>, [k |-> "gen_loc", l |-> l])
    ELSE Call(s, [op |-> "disc_loc", key |-> <<"loc", l>>])

\* Mutant: a locked switch is erased at once.
RemoveSwitch_nowait(s, d) ==
    IF <<"sw", d>> \notin DOMAIN s.infos THEN s ELSE DropInfo(s, <<"sw", d>>)

RemoveSwitch(s, d) ==
    IF <<"sw", d>> \notin DOMAIN s.infos THEN s
    ELSE IF s.infos[<<"sw", d>>].locked
    THEN WaitOn(s, <<"sw", d>>, [k |-> "remove_switch", d |-> d])
    ELSE DropInfo(s, <<"sw", d>>)

RemoveLocation(s, l) ==
    IF <<"loc", l>> \notin DOMAIN s.infos THEN s
    ELSE IF s.infos[<<"loc", l>>].locked
    THEN WaitOn(s, <<"loc", l>>, [k |-> "remove_location", l |-> l])
    ELSE DropInfo(s, <<"loc", l>>)

\* remove_dp_locations: every location of dp d (not in valid, unless all)
\* is dropped, or a remove_location is queued behind its lock.
RemoveDPLocations(s, d, valid, all) ==
    FoldSet(LAMBDA key, acc :
                IF acc.infos[key].locked
                THEN WaitOn(acc, key, [k |-> "remove_location", l |-> key[2]])
                ELSE DropInfo(acc, key),
            s, {key \in DOMAIN s.infos : key[1] = "loc" /\ key[2][1] = d
                                         /\ (all \/ key[2] \notin valid)})

-----------------------------------------------------------------------------
(* Directory events (authenticator-names.cc).  What they do to connectors *)
(* (remove_loc_hosts, remove_hosts, map_conns) is HostStore's part.       *)

\* mod_if_info_is_principal (and mod_if_is_switch): the entry of the
\* changed principal gives back its groups and fetches them again.
ModIfInfoIsPrincipal(s, key, i) ==
    IF s.infos[key].id # i THEN s
    ELSE GetInfoGroups(DecrementIds([s EXCEPT !.infos[key].groups = <<>>],
                                    s.infos[key].groups), key)

\* mod_if_info_has_group: the same for an entry that is in the group.
ModIfInfoHasGroup(s, key, i) ==
    IF ~ContainsGroup(s.infos[key].groups, i) THEN s
    ELSE GetInfoGroups(DecrementIds([s EXCEPT !.infos[key].groups = <<>>],
                                    s.infos[key].groups), key)

InfoFn(s, key, fn, i) ==
    IF fn = "has_group" THEN ModIfInfoHasGroup(s, key, i)
    ELSE ModIfInfoIsPrincipal(s, key, i)

MapInfoWaiter(key, fn, n, sfx) ==
    [k |-> "map_info", key |-> key, fn |-> fn, name |-> n, sfx |-> sfx]

\* map_info: an entry that is gone is skipped, a locked one queues the
\* call again; else the name is looked up (get_id without incr) and fn runs.
MapInfo(s, key, fn, n, sfx) ==
    IF key \notin DOMAIN s.infos THEN s
    ELSE IF s.infos[key].locked THEN WaitOn(s, key, MapInfoWaiter(key, fn, n, sfx))
    ELSE LET r == GetId(s, n, sfx, FALSE) IN InfoFn(r[1], key, fn, r[2])

\* map_infos: one lookup, then every entry of the map.
MapInfos(s, kind, fn, n, sfx) ==
    LET r == GetId(s, n, sfx, FALSE)
    IN  FoldSet(LAMBDA key, acc :
                    IF acc.infos[key].locked
                    THEN WaitOn(acc, key, MapInfoWaiter(key, fn, n, sfx))
                    ELSE InfoFn(acc, key, fn, r[2]),
                r[1], {key \in DOMAIN s.infos : key[1] = kind})

\* group_change for switch and location principals and groups: the unauth
\* GroupInfo first, then the map.
GroupChange(s, gsfx, n, isp) ==
    LET pt   == IF gsfx = "sg" THEN "s" ELSE "l"
        fn   == IF isp THEN "is_principal" ELSE "has_group"
        sfx  == IF isp THEN pt ELSE gsfx
        kind == IF pt = "s" THEN "sw" ELSE "loc"
    IN  MapInfos(MapInfo(s, <<"un", pt>>, fn, n, sfx), kind, fn, n, sfx)

\* delname_location2: queue behind a locked location; else rename it, give
\* back its groups and fetch those of the new name.
DelnameLocation2(s, l, old, new) ==
    LET key == <<"loc", l>>
        r   == Rename(s, old, new, "l")[1]
    IN  IF key \notin DOMAIN s.infos THEN r
        ELSE IF s.infos[key].locked
        THEN WaitOn(s, key, [k |-> "delname_loc", l |-> l, old |-> old, new |-> new])
        ELSE GetInfoGroups(DecrementIds([r EXCEPT !.infos[key].groups = <<>>],
                                        s.infos[key].groups), key)

\* rename_group: a deleted group (empty new name) is a group change.
RenameGroup(s, old, new, gsfx) ==
    LET r == Rename(s, old, new, gsfx)
    IN  IF ~r[2] \/ new # "" THEN r[1] ELSE GroupChange(r[1], gsfx, old, FALSE)

\* modify_group: a member change is a principal change, a subgroup change
\* a group change.
ModifyGroup(s, gsfx, n, subgroup) == GroupChange(s, gsfx, n, ~subgroup)

\* handle_datapath_join: new_switch, new_location per port, then the
\* locations of dp that are not among the ports go.
DatapathJoin(s, d, ports) ==
    RemoveDPLocations(FoldSet(LAMBDA p, acc : NewLocation(acc, <<d, p>>),
                              NewSwitch(s, d), ports),
                      d, {d} \X ports, FALSE)

\* handle_data_leave
DatapathLeave(s, d) == RemoveSwitch(RemoveDPLocations(s, d, {}, TRUE), d)

\* A queued continuation, run by unlock_status.
Run(s, k) ==
    CASE k.k = "new_switch"      -> NewSwitch(s, k.d)
      [] k.k = "remove_switch"   -> RemoveSwitch(s, k.d)
      [] k.k = "new_location"    -> NewLocation(s, k.l)
      [] k.k = "remove_location" -> RemoveLocation(s, k.l)
      [] k.k = "gen_loc"         -> GenerateLocationName(s, k.l)
      [] k.k = "delname_loc"     -> DelnameLocation2(s, k.l, k.old, k.new)
      [] k.k = "map_info"        -> MapInfo(s, k.key, k.fn, k.name, k.sfx)

-----------------------------------------------------------------------------
(* The specification.                                                      *)

\* After the constructor (reset_names) and handle_bootstrap, which asks for
\* the groups of the unauthenticated switch and location.
Init ==
    /\ names = [m \in {<<"unauth", "">>, <<"authd", "">>, <<"unknown", "">>} |->
                  CASE m[1] = "unauth" -> UNAUTHENTICATED_ID
                    [] m[1] = "authd"  -> AUTHENTICATED_ID
                    [] OTHER           -> UNKNOWN_ID]
    /\ ids = [i \in {UNAUTHENTICATED_ID, AUTHENTICATED_ID, UNKNOWN_ID} |->
                [ref |-> 1, sfx |-> "",
                 name |-> CASE i = UNAUTHENTICATED_ID -> "unauth"
                            [] i = AUTHENTICATED_ID   -> "authd"
                            [] OTHER                  -> "unknown"]]
    /\ counter = START_ID
    /\ infos = [key \in {<<"un", "s">>, <<"un", "l">>} |-> NewInfo]
    /\ pending = {[op |-> "groups", key |-> <<"un", "s">>],
                  [op |-> "groups", key |-> <<"un", "l">>]}
    /\ running = <<>>
    /\ held = [i \in Id |-> 0]
    /\ lastGet = [key |-> <<"unknown", "">>, id |-> UNKNOWN_ID, free |-> FALSE]
    /\ nExt = 0

Quiet == running = <<>>

\* An event handler runs only between handlers, and at most MaxExternal.
External == Quiet /\ nExt < MaxExternal /\ nExt' = nExt + 1

DatapathJoinOn(j) == External /\ Put(DatapathJoin(st, j[1], j[2]))
DatapathLeaveOn(d) == External /\ Put(DatapathLeave(st, d))
DatapathJoinIn == \E j \in JoinIns : DatapathJoinOn(j)
DatapathLeaveIn == \E d \in LeaveIns : DatapathLeaveOn(d)

\* handle_port_status: OFPPR_ADD and OFPPR_DELETE
PortStatus ==
    External /\ \E p \in PortIns :
        Put(IF p[2] THEN NewLocation(st, p[1]) ELSE RemoveLocation(st, p[1]))

\* rename_principal (deletes of hosts and users cascade into HostStore)
RenamePrincipal ==
    External /\ \E r \in RenameIns : Put(Rename(st, r[1], r[2], r[3])[1])

DelnameLocation == External /\ \E r \in DelnameIns : Put(DelnameLocation2(st, r[1], r[2], r[3]))
RenameGroupIn == External /\ \E r \in GroupIns : Put(RenameGroup(st, r[1], r[2], r[3]))
ModifyGroupIn == External /\ \E r \in ChangeIns : Put(ModifyGroup(st, r[1], r[2], r[3]))

\* A connector or an addr_groups list takes a reference: get_id(incr).
Acquire ==
    External /\ \E n \in HostNames :
        LET r == GetId(st, n, "h", TRUE)
        IN  Put([r[1] EXCEPT
                   !.held[r[2]] = IF r[2] >= START_ID THEN @ + 1 ELSE @,
                   !.lastGet = [key |-> Mangle(n, "h"), id |-> r[2],
                                free |-> \E i \in START_ID..MaxId : i \notin DOMAIN ids]])

\* ... and gives it back: decrement_id (decrement_conn, decrement_ids).
Release ==
    External /\ \E i \in Id :
        /\ held[i] > 0
        /\ Put([DecrementId(st, i) EXCEPT !.held[i] = @ - 1])

\* The id loop of remove_expired_hosts: any non-empty set of refcount-0
\* ids may have passed its expiry time.
Sweep ==
    External /\ \E E \in SUBSET {i \in DOMAIN ids : ids[i].ref = 0} :
        E # {} /\ Put(ExpireNames(st, E))

Step ==
    /\ running # <<>>
    /\ Put(Run([st EXCEPT !.running = Tail(@)], Head(running)))
    /\ UNCHANGED nExt

Answered(op) == [st EXCEPT !.pending = @ \ {op}]

\* get_switch: a directory search, else the discovered name, else UNKNOWN
ReplySwitchName ==
    /\ Quiet
    /\ \E op \in pending, n \in SwitchNames \cup {"unknown"} :
        op.op = "sw_name" /\ Put(NewSwitchName(Answered(op), op.key, n))
    /\ UNCHANGED nExt

\* get_location: a directory search; if it finds nothing,
\* generate_location_name
ReplyLocName ==
    /\ Quiet
    /\ \E op \in pending, n \in LocNames \cup {"none"} :
        /\ op.op = "loc_name"
        /\ Put(IF n = "none" THEN GenerateLocationName(Answered(op), op.key[2])
               ELSE NewLocationName(Answered(op), op.key, n))
    /\ UNCHANGED nExt

\* get_discovered_location_name: a name or UNKNOWN
ReplyDiscLoc ==
    /\ Quiet
    /\ \E op \in pending, n \in LocNames \cup {"unknown"} :
        op.op = "disc_loc" /\ Put(NewLocationName(Answered(op), op.key, n))
    /\ UNCHANGED nExt

\* get_groups' answer, translated, ends get_info_groups
ReplyGroups ==
    /\ Quiet
    /\ \E op \in pending, gs \in GroupAnswers :
        /\ op.op = "groups"
        /\ LET r == TranslateGroups(Answered(op), gs, GroupSfx(InfoPT(op.key)))
           IN  Put(GetInfoGroups2(r[1], op.key, r[2]))
    /\ UNCHANGED nExt

Done == nExt = MaxExternal /\ Quiet /\ pending = {} /\ UNCHANGED vars

Internal == Step \/ ReplySwitchName \/ ReplyLocName \/ ReplyDiscLoc \/ ReplyGroups

Next ==
    \/ DatapathJoinIn \/ DatapathLeaveIn \/ PortStatus \/ RenamePrincipal
    \/ DelnameLocation \/ RenameGroupIn \/ ModifyGroupIn
    \/ Acquire \/ Release \/ Sweep
    \/ Internal \/ Done

\* NOX's event loop runs every queued callback and the directory answers
\* every call: the internal steps are weakly fair, the events are not.
Spec == Init /\ [][Next]_vars /\ WF_vars(Internal)

-----------------------------------------------------------------------------
(* Properties.                                                             *)

InfoKeys == {<<"un", "s">>, <<"un", "l">>} \cup ({"sw"} \X DP) \cup ({"loc"} \X Loc)

TypeOK ==
    /\ DOMAIN ids \subseteq Id /\ counter \in START_ID..MaxId
    /\ \A i \in DOMAIN ids : ids[i].ref \in Nat
    /\ \A m \in DOMAIN names : names[m] \in Id
    /\ DOMAIN infos \subseteq InfoKeys
    /\ \A key \in DOMAIN infos :
          /\ infos[key].locked \in BOOLEAN /\ infos[key].id \in Id
          /\ infos[key].groups \in Seq(Id)
    /\ held \in [Id -> Nat] /\ nExt \in 0..MaxExternal

\* Every directory call in flight will write through a GroupInfo pointer
\* bound into its callback (new_switch_name, new_location_name,
\* get_info_groups2): remove_switch, remove_location and remove_dp_locations
\* must queue behind the lock, so that GroupInfo is still there and locked.
PendingInfoLive ==
    \A op \in pending : op.key \in DOMAIN infos /\ infos[op.key].locked

\* A GroupInfo between new_switch/new_location and the name's reply holds
\* no reference yet: its id is the one it gave back.
Awaiting(key) == infos[key].locked /\ [op |-> "groups", key |-> key] \notin pending

Occurrences(l, i) == Cardinality({j \in 1..Len(l) : l[j] = i})

\* Every reference to id i: connectors and addr_groups (held), the GroupInfo
\* principals, and the translated group lists.
Refs(i) ==
    held[i]
    + Cardinality({key \in DOMAIN infos : infos[key].id = i /\ ~Awaiting(key)})
    + MapThenSumSet(LAMBDA key : Occurrences(infos[key].groups, i), DOMAIN infos)

\* The IDMap refcount of every non-reserved id is exactly the number of
\* references get_id(incr), decrement_id and decrement_ids leave on it
\* across new_switch, new_location, get_info_groups, the mod_if_* handlers
\* and remove_*; an id no one references may be gone, a referenced one is
\* never erased by the sweep.
RefcountExact ==
    \A i \in START_ID..MaxId :
        IF i \in DOMAIN ids THEN ids[i].ref = Refs(i) ELSE Refs(i) = 0

\* NameMap and IDMap agree: a name maps to a live id that carries that name
\* (get_id's insertion, rename's repointing and the sweep's erase).
NamesResolve ==
    \A m \in DOMAIN names :
        names[m] \in DOMAIN ids /\ Mangled(ids[names[m]]) = m

\* A name's binding to a live id that still carries it is only ever replaced
\* by the id a rename gave that name: the expiry of another id of the same
\* name (one a rename collision left behind) must not erase it.
NameBindingStable ==
    [][\A m \in DOMAIN names :
         LET i == names[m] IN
         (i \in DOMAIN ids' /\ Mangled(ids'[i]) = m)
            => /\ m \in DOMAIN names'
               /\ \/ names'[m] = i
                  \/ names'[m] \in DOMAIN ids /\ Mangled(ids[names'[m]]) # m]_vars

\* get_id hands a new name a non-reserved id, bound to the name, whenever
\* one is free: the counter's wrap at UINT32_MAX skips no id.
GetIdResult ==
    [][lastGet'.free /\ lastGet' # lastGet
         => /\ lastGet'.id >= START_ID
            /\ names'[lastGet'.key] = lastGet'.id]_vars

\* Every GroupInfo locked by new_switch, new_location, get_info_groups or a
\* queued handler is unlocked (or removed) in the end: no lock is left set
\* and no waiter on the switch's lock (generate_location_name) starves.
InfoUnlocked ==
    \A key \in InfoKeys :
        (key \in DOMAIN infos /\ infos[key].locked)
            ~> (key \notin DOMAIN infos \/ ~infos[key].locked)

\* Spec section 8: rename(a, b) then rename(b, a) restores the original
\* mapping.  Checked, for every reachable store, on two host names a
\* that exists and b # a.
RenameRoundTrip ==
    \A a, b \in HostNames :
        LET r == Rename(Rename(st, a, b, "h")[1], b, a, "h")[1]
        IN  (a # b /\ Mangle(a, "h") \in DOMAIN names) => r.names = names

=============================================================================
