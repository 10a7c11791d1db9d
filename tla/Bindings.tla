------------------------------- MODULE Bindings -------------------------------
(***************************************************************************)
(* Bindings_Storage (bindings_storage.cc): the component that keeps the    *)
(* bindings of network entities to names in NDB tables.  The tables are as *)
(* in BindingsAtomic (sets of rows; the link table counts its rows), but a *)
(* location row carries its GUID g, the number of the call that put it:    *)
(* NDB puts a new row each time, so a location may hold two equal rows.    *)
(* Calls that change binding state go through three Serial_Op_Queues:      *)
(*   nameQ  store_binding_state, remove_binding_state, remove_machine: the *)
(*          add and remove FSMs.  An element is [c (the call), k (its call *)
(*          number), st (the FSM state whose NDB request is outstanding),  *)
(*          id].  Only the head runs; finished_serial_op pops it.          *)
(*   locQ   add_name_for_location, remove_name_for_location: one NDB put   *)
(*          or remove each.                                                *)
(*   linkQ  add_link (read every link, then put) and remove_link.          *)
(* A Principal_name_event starts a rename that is not queued: ren holds    *)
(* the renames in flight, each waiting for its get or its modify.          *)
(* Each callback action is the whole callback, the FSM steps it runs       *)
(* synchronously included.  An NDB request is answered by one action; with *)
(* Faults the answer may be an error, and a non_trans_remove_all that      *)
(* fails has removed some of its rows.                                     *)
(***************************************************************************)
EXTENDS Integers, Sequences, FiniteSets

CONSTANTS
    NameCalls,   \* [kind "store"|"remove", ent <<mac, ip>>, name, type, ex, ipdb, rm]
    LocIns,      \* <<"locadd"|"locrm", dp, port, name, type>>
    LinkCalls,   \* [kind "linkadd"|"linkrm", link]
    RenIns,      \* Principal_name_event <<oldname, newname, principal type>>
    Links,       \* the links the link table may hold
    NoPort,      \* Location::NO_PORT
    Faults,      \* TRUE: NDB requests may fail
    MaxCalls     \* bound on the number of calls and events

VARIABLES idRows, nameRows, locRows, linkRows, nextId, nameQ, locQ, linkQ, ren, nCalls

vars == <<idRows, nameRows, locRows, linkRows, nextId, nameQ, locQ, linkQ, ren, nCalls>>

NameTypes == {"HOST", "USER"}          \* renamed in the name table
LocTypes  == {"SWITCH", "LOCATION"}    \* renamed in the location table

Init ==
    /\ idRows = {} /\ nameRows = {} /\ locRows = {}
    /\ linkRows = [l \in Links |-> 0]
    /\ nextId = 1
    /\ nameQ = <<>> /\ locQ = <<>> /\ linkQ = <<>> /\ ren = {}
    /\ nCalls = 0

Pop(q) == q' = Tail(q)
SetHead(q, op) == q' = [q EXCEPT ![1] = op]
\* A failed non_trans_remove_all: the rows it removed before the error
PartlyRemoved(rows, match) == {rows \ s : s \in SUBSET match}

-----------------------------------------------------------------------------
(* The name queue: store_binding_state and the add FSM.                    *)

\* store_binding_state: queue run_add_fsm, which starts in AB_NEEDS_ID
StoreBindingState ==
    /\ nCalls < MaxCalls
    /\ \E c \in NameCalls : c.kind = "store" /\
          nameQ' = Append(nameQ, [c |-> c, k |-> nCalls + 1, st |-> "id", id |-> 0])
    /\ nCalls' = nCalls + 1
    /\ UNCHANGED <<idRows, nameRows, locRows, linkRows, nextId, locQ, linkQ, ren>>

\* AB_NEEDS_ID's query: the entity, its nwaddr replaced by ip_in_db for an
\* existing_record
IdQuery(c) == IF c.ex THEN <<c.ent[1], c.ipdb>> ELSE c.ent
NameRow(op) == [id |-> op.id, name |-> op.c.name, type |-> op.c.type]

\* run_add_fsm entered in state st: AB_NEEDS_NAME_INSERT with no name
\* falls through to AB_FINISHED.
RunAddFsm(op, st) ==
    IF st = "finished" \/ (st = "nameins" /\ op.c.type = "NONE")
    THEN Pop(nameQ) ELSE SetHead(nameQ, [op EXCEPT !.st = st])

\* add_get_cb: an error finishes; no row takes next_id++ for a new id row;
\* a row gives the id, and an existing_record adds an id row with it.
\* Mutant: the existing_record branch goes straight to the name insert.
AddGetCb_noexisting ==
    LET op == Head(nameQ)
        found == {r \in idRows : r.ent = IdQuery(op.c)} IN
    /\ nameQ # <<>> /\ op.c.kind = "store" /\ op.st = "id"
    /\ \/ Faults /\ RunAddFsm(op, "finished") /\ UNCHANGED nextId
       \/ found = {} /\ nextId' = nextId + 1
          /\ RunAddFsm([op EXCEPT !.id = nextId], "idins")
       \/ \E r \in found : UNCHANGED nextId /\
          RunAddFsm([op EXCEPT !.id = r.id], "nameins")
    /\ UNCHANGED <<idRows, nameRows, locRows, linkRows, locQ, linkQ, ren, nCalls>>

AddGetCb ==
    LET op == Head(nameQ)
        found == {r \in idRows : r.ent = IdQuery(op.c)} IN
    /\ nameQ # <<>> /\ op.c.kind = "store" /\ op.st = "id"
    /\ \/ Faults /\ RunAddFsm(op, "finished") /\ UNCHANGED nextId
       \/ found = {} /\ nextId' = nextId + 1
          /\ RunAddFsm([op EXCEPT !.id = nextId], "idins")
       \/ \E r \in found : UNCHANGED nextId /\
          RunAddFsm([op EXCEPT !.id = r.id], IF op.c.ex THEN "idins" ELSE "nameins")
    /\ UNCHANGED <<idRows, nameRows, locRows, linkRows, locQ, linkQ, ren, nCalls>>

\* add_put_cb: the id row or the name row is in; an error finishes.
AddPutCb ==
    LET op == Head(nameQ) IN
    /\ nameQ # <<>> /\ op.c.kind = "store" /\ op.st \in {"idins", "nameins"}
    /\ \/ Faults /\ RunAddFsm(op, "finished") /\ UNCHANGED <<idRows, nameRows>>
       \/ op.st = "idins" /\ idRows' = idRows \cup {[ent |-> op.c.ent, id |-> op.id]}
          /\ RunAddFsm(op, "nameins") /\ UNCHANGED nameRows
       \/ op.st = "nameins" /\ nameRows' = nameRows \cup {NameRow(op)}
          /\ RunAddFsm(op, "finished") /\ UNCHANGED idRows
    /\ UNCHANGED <<locRows, linkRows, nextId, locQ, linkQ, ren, nCalls>>

-----------------------------------------------------------------------------
(* The name queue: remove_binding_state, remove_machine, the remove FSM.   *)

\* remove_binding_state (RM_NAME_ONLY) and remove_machine (RM_ALL or
\* RM_IP_ONLY): queue run_remove_fsm, which starts in RM_FIND_ID
RemoveCall ==
    /\ nCalls < MaxCalls
    /\ \E c \in NameCalls : c.kind = "remove" /\
          nameQ' = Append(nameQ, [c |-> c, k |-> nCalls + 1, st |-> "find", id |-> 0])
    /\ nCalls' = nCalls + 1
    /\ UNCHANGED <<idRows, nameRows, locRows, linkRows, nextId, locQ, linkQ, ren>>

\* RM_REMOVE_NAME_ROWS' query: the id, and the name for RM_NAME_ONLY
NameRowsMatch(op) ==
    {n \in nameRows : n.id = op.id /\
        (op.c.rm # "NAME_ONLY" \/ (n.name = op.c.name /\ n.type = op.c.type))}
\* RM_REMOVE_ID_ROWS' query: the id, and the entity for RM_IP_ONLY
IdRowsMatch(op) ==
    {r \in idRows : r.id = op.id /\ (op.c.rm # "IP_ONLY" \/ r.ent = op.c.ent)}

\* remove_get_cb: an error or no row finishes; else the id is known and
\* RM_IP_ONLY skips the name rows.
RemoveGetCb ==
    LET op == Head(nameQ)
        found == {r \in idRows : r.ent = op.c.ent} IN
    /\ nameQ # <<>> /\ op.c.kind = "remove" /\ op.st = "find"
    /\ \/ (Faults \/ found = {}) /\ Pop(nameQ)
       \/ \E r \in found :
          SetHead(nameQ, [op EXCEPT !.id = r.id,
                          !.st = IF op.c.rm = "IP_ONLY" THEN "ids" ELSE "names"])
    /\ UNCHANGED <<idRows, nameRows, locRows, linkRows, nextId, locQ, linkQ, ren, nCalls>>

\* Mutant: as remove_cb's comment says, the ids are removed after the name
\* rows whether their removal succeeded or failed.
RemoveCb_onerror ==
    LET op == Head(nameQ)
        rows == IF op.st = "names" THEN NameRowsMatch(op) ELSE IdRowsMatch(op) IN
    /\ nameQ # <<>> /\ op.c.kind = "remove" /\ op.st \in {"names", "ids"}
    /\ \/ /\ op.st = "names" /\ nameRows' \in PartlyRemoved(nameRows, rows) /\ UNCHANGED idRows
          /\ IF op.c.rm # "NAME_ONLY" THEN SetHead(nameQ, [op EXCEPT !.st = "ids"]) ELSE Pop(nameQ)
       \/ op.st = "ids" /\ idRows' = idRows \ rows /\ UNCHANGED nameRows /\ Pop(nameQ)
    /\ UNCHANGED <<locRows, linkRows, nextId, locQ, linkQ, ren, nCalls>>

\* remove_cb: after the name rows, the id rows unless RM_NAME_ONLY; after
\* the id rows, finished.  An error finishes at once.
RemoveCb ==
    LET op == Head(nameQ)
        rows == IF op.st = "names" THEN NameRowsMatch(op) ELSE IdRowsMatch(op) IN
    /\ nameQ # <<>> /\ op.c.kind = "remove" /\ op.st \in {"names", "ids"}
    /\ \/ /\ op.st = "names" /\ nameRows' = nameRows \ rows /\ UNCHANGED idRows
          /\ IF op.c.rm # "NAME_ONLY" THEN SetHead(nameQ, [op EXCEPT !.st = "ids"]) ELSE Pop(nameQ)
       \/ op.st = "ids" /\ idRows' = idRows \ rows /\ UNCHANGED nameRows /\ Pop(nameQ)
       \/ /\ Faults /\ op.st = "names" /\ nameRows' \in PartlyRemoved(nameRows, rows)
          /\ UNCHANGED idRows /\ Pop(nameQ)
       \/ /\ Faults /\ op.st = "ids" /\ idRows' \in PartlyRemoved(idRows, rows)
          /\ UNCHANGED nameRows /\ Pop(nameQ)
    /\ UNCHANGED <<locRows, linkRows, nextId, locQ, linkQ, ren, nCalls>>

-----------------------------------------------------------------------------
(* The location queue.                                                     *)

\* The query add_name_for_location and remove_name_for_location build: a
\* switch name goes at NO_PORT; a switch name "" removes every row of the
\* switch (then port and type are not in the query).
LocRow(i) == [dp |-> i[2], port |-> IF i[5] = "SWITCH" THEN NoPort ELSE i[3],
              name |-> i[4], type |-> i[5]]
LocCall(i) == [kind |-> i[1], row |-> LocRow(i)]
LocCalls == {LocCall(i) : i \in LocIns}
\* A stored row: the put's columns and the GUID NDB gives the new row
Stored(row, g) == [dp |-> row.dp, port |-> row.port, name |-> row.name, type |-> row.type, g |-> g]
Content(x) == [dp |-> x.dp, port |-> x.port, name |-> x.name, type |-> x.type]
LocMatches(c, x) ==
    /\ x.dp = c.row.dp
    /\ \/ c.row.type = "SWITCH" /\ c.row.name = ""
       \/ x.port = c.row.port /\ x.type = c.row.type /\ (c.row.name = "" \/ x.name = c.row.name)

\* add_name_for_location (its name type is LOCATION, PORT or SWITCH, else
\* it returns) and remove_name_for_location queue one NDB request each.
\* Mutant: a switch name stored at the given port, not at NO_PORT.
LocationCall_port(i) ==
    /\ nCalls < MaxCalls
    /\ i[1] = "locrm" \/ i[5] \in {"LOCATION", "PORT", "SWITCH"}
    /\ locQ' = Append(locQ, [c |-> [LocCall(i) EXCEPT !.row.port = i[3]], k |-> nCalls + 1])
    /\ nCalls' = nCalls + 1
    /\ UNCHANGED <<idRows, nameRows, locRows, linkRows, nextId, nameQ, linkQ, ren>>

LocationCall(i) ==
    /\ nCalls < MaxCalls
    /\ i[1] = "locrm" \/ i[5] \in {"LOCATION", "PORT", "SWITCH"}
    /\ locQ' = Append(locQ, [c |-> LocCall(i), k |-> nCalls + 1])
    /\ nCalls' = nCalls + 1
    /\ UNCHANGED <<idRows, nameRows, locRows, linkRows, nextId, nameQ, linkQ, ren>>

\* add_loc_cb, remove_loc_cb: the put or the remove is done (or failed,
\* which is only logged); finished_serial_op.
LocCb ==
    LET c == Head(locQ).c
        match == {x \in locRows : LocMatches(c, x)} IN
    /\ locQ # <<>>
    /\ \/ c.kind = "locadd" /\ locRows' = locRows \cup {Stored(c.row, Head(locQ).k)}
       \/ c.kind = "locrm" /\ locRows' = locRows \ match
       \/ Faults /\ c.kind = "locadd" /\ UNCHANGED locRows
       \/ Faults /\ c.kind = "locrm" /\ locRows' \in PartlyRemoved(locRows, match)
    /\ Pop(locQ)
    /\ UNCHANGED <<idRows, nameRows, linkRows, nextId, nameQ, linkQ, ren, nCalls>>

-----------------------------------------------------------------------------
(* The link queue.                                                         *)

\* add_link queues get_all_links; remove_link queues its remove_all.
LinkCall ==
    /\ nCalls < MaxCalls
    /\ \E c \in LinkCalls :
          linkQ' = Append(linkQ, [c |-> c, k |-> nCalls + 1,
                                  st |-> IF c.kind = "linkadd" THEN "read" ELSE "remove"])
    /\ nCalls' = nCalls + 1
    /\ UNCHANGED <<idRows, nameRows, locRows, linkRows, nextId, nameQ, locQ, ren>>

\* get_all_links: get_links_cb reads the rows one by one, and on an error
\* calls back with the rows read so far.
LinksRead(stored) == IF Faults THEN SUBSET stored ELSE {stored}

\* add_link_cb1 finishes if the link is among the links read, else it
\* puts the link.
AddLinkCb1 ==
    LET op == Head(linkQ)
        stored == {l \in Links : linkRows[l] > 0} IN
    /\ linkQ # <<>> /\ op.st = "read"
    /\ \E read \in LinksRead(stored) :
          IF op.c.link \in read THEN Pop(linkQ) ELSE SetHead(linkQ, [op EXCEPT !.st = "put"])
    /\ UNCHANGED <<idRows, nameRows, locRows, linkRows, nextId, nameQ, locQ, ren, nCalls>>

\* add_link_cb2: the put is done or failed; finished_serial_op.
AddLinkCb2 ==
    LET op == Head(linkQ) IN
    /\ linkQ # <<>> /\ op.st = "put"
    /\ \/ linkRows' = [linkRows EXCEPT ![op.c.link] = @ + 1]
       \/ Faults /\ UNCHANGED linkRows
    /\ Pop(linkQ)
    /\ UNCHANGED <<idRows, nameRows, locRows, nextId, nameQ, locQ, ren, nCalls>>

\* remove_link_cb: the link's rows are removed (some of them on an error).
RemoveLinkCb ==
    LET op == Head(linkQ) IN
    /\ linkQ # <<>> /\ op.st = "remove"
    /\ \E n \in IF Faults THEN 0..linkRows[op.c.link] ELSE {0} :
          linkRows' = [linkRows EXCEPT ![op.c.link] = n]
    /\ Pop(linkQ)
    /\ UNCHANGED <<idRows, nameRows, locRows, nextId, nameQ, locQ, ren, nCalls>>

-----------------------------------------------------------------------------
(* Renames: rename_principal and rename_cb, outside the serial queues.     *)

\* A row's GUID: it survives the rename of the row (a name row is known by
\* its other columns, a location row by its g)
Guid(x) == [x EXCEPT !.name = ""]
RenTable(r) == IF r.type \in NameTypes THEN nameRows ELSE locRows
\* The row a rename has got (row and last_guid are empty or one element)
RenRow(r) == CHOOSE x \in r.row : TRUE
\* The renamed row: new_row["name"] = new_name
Renamed(r) == [RenRow(r) EXCEPT !.name = r.new]

\* rename_principal(event): an empty new name or the same name is ignored;
\* else get a row of the old name from the table of the principal type.
RenamePrincipal ==
    /\ nCalls < MaxCalls
    /\ \E i \in RenIns :
          /\ i[2] # "" /\ i[2] # i[1]
          /\ ren' = ren \cup {[k |-> nCalls + 1, old |-> i[1], new |-> i[2], type |-> i[3],
                               st |-> "get", row |-> {}, last |-> {}]}
    /\ nCalls' = nCalls + 1
    /\ UNCHANGED <<idRows, nameRows, locRows, linkRows, nextId, nameQ, locQ, linkQ>>

\* rename_cb after the get: an error, CONCURRENT_MODIFICATION or no row
\* ends the rename, and so does the row last modified coming back (same
\* GUID); else modify the row.
\* Mutant: the last_guid check left out.
RenameGetCb_noguid(r) ==
    LET rows == {x \in RenTable(r) : x.name = r.old /\ x.type = r.type} IN
    /\ r.st = "get"
    /\ \/ (Faults \/ rows = {}) /\ ren' = ren \ {r}
       \/ \E x \in rows : ren' = (ren \ {r}) \cup {[r EXCEPT !.st = "modify", !.row = {x}]}
    /\ UNCHANGED <<idRows, nameRows, locRows, linkRows, nextId, nameQ, locQ, linkQ, nCalls>>

RenameGetCb(r) ==
    LET rows == {x \in RenTable(r) : x.name = r.old /\ x.type = r.type} IN
    /\ r.st = "get"
    /\ \/ (Faults \/ rows = {}) /\ ren' = ren \ {r}
       \/ \E x \in rows :
          IF Guid(x) \in r.last THEN ren' = ren \ {r}
          ELSE ren' = (ren \ {r}) \cup {[r EXCEPT !.st = "modify", !.row = {x}]}
    /\ UNCHANGED <<idRows, nameRows, locRows, linkRows, nextId, nameQ, locQ, linkQ, nCalls>>

\* rename_cb after the modify: the row is renamed and the rename restarts
\* with a new get (last_guid = this row).  A row changed or removed since
\* the get answers CONCURRENT_MODIFICATION, which is not retried.
RenameModifyCb(r) ==
    /\ r.st = "modify"
    /\ \/ /\ RenRow(r) \notin RenTable(r) \/ Faults
          /\ ren' = ren \ {r}
          /\ UNCHANGED <<nameRows, locRows>>
       \/ /\ RenRow(r) \in RenTable(r)
          /\ ren' = (ren \ {r}) \cup {[r EXCEPT !.st = "get", !.row = {}, !.last = {Guid(RenRow(r))}]}
          /\ \/ r.type \in NameTypes /\ nameRows' = (nameRows \ r.row) \cup {Renamed(r)}
                /\ UNCHANGED locRows
             \/ r.type \in LocTypes /\ locRows' = (locRows \ r.row) \cup {Renamed(r)}
                /\ UNCHANGED nameRows
    /\ UNCHANGED <<idRows, linkRows, nextId, nameQ, locQ, linkQ, nCalls>>

-----------------------------------------------------------------------------
Quiet == nameQ = <<>> /\ locQ = <<>> /\ linkQ = <<>> /\ ren = {}

\* Every call has been made and answered: the component is idle.
Done == nCalls = MaxCalls /\ Quiet /\ UNCHANGED vars

Internal ==
    \/ AddGetCb \/ AddPutCb \/ RemoveGetCb \/ RemoveCb
    \/ LocCb \/ AddLinkCb1 \/ AddLinkCb2 \/ RemoveLinkCb
    \/ \E r \in ren : RenameGetCb(r) \/ RenameModifyCb(r)

Next ==
    \/ StoreBindingState \/ RemoveCall \/ \E i \in LocIns : LocationCall(i)
    \/ LinkCall \/ RenamePrincipal
    \/ Internal
    \/ Done

\* NDB answers every request and NOX runs every callback.
Spec == Init /\ [][Next]_vars /\ WF_vars(Internal)

-----------------------------------------------------------------------------
(* Properties.                                                             *)

Ents == {c.ent : c \in NameCalls}
AllNames == {c.name : c \in NameCalls} \cup {i[4] : i \in LocIns}
            \cup {i[1] : i \in RenIns} \cup {i[2] : i \in RenIns}
LocRowType ==
    {x \in [dp : {i[2] : i \in LocIns}, port : {i[3] : i \in LocIns} \cup {NoPort},
            name : AllNames, type : {"SWITCH", "LOCATION", "PORT"}, g : 1..MaxCalls] :
        (x.type = "SWITCH") = (x.port = NoPort)}
Ids == 1..MaxCalls
QueueOf(q, calls, states) ==
    \A j \in 1..Len(q) : q[j].c \in calls /\ q[j].k \in 1..MaxCalls /\ q[j].st \in states

\* The tables hold rows of their schema; a switch row of the location
\* table is at NO_PORT and no other row is (add_name_for_location).
TypeOK ==
    /\ idRows \subseteq [ent : Ents, id : Ids]
    /\ nameRows \subseteq [id : Ids, name : AllNames, type : NameTypes]
    /\ locRows \subseteq LocRowType
    /\ linkRows \in [Links -> 0..MaxCalls]
    /\ nextId \in 1..MaxCalls + 1
    /\ QueueOf(nameQ, NameCalls, {"id", "idins", "nameins", "find", "names", "ids"})
    /\ \A j \in 1..Len(locQ) : locQ[j].c \in LocCalls
    /\ QueueOf(linkQ, LinkCalls, {"read", "put", "remove"})
    /\ \A r \in ren : r.st \in {"get", "modify"} /\ r.k \in 1..MaxCalls

\* The call numbered k is still queued or, for a rename, in flight.
Pending(k) ==
    \/ \E j \in 1..Len(nameQ) : nameQ[j].k = k
    \/ \E j \in 1..Len(locQ) : locQ[j].k = k
    \/ \E j \in 1..Len(linkQ) : linkQ[j].k = k
    \/ \E r \in ren : r.k = k

\* Every call finishes: each FSM, error paths included, reaches
\* finished_serial_op so the calls queued behind it run, and every rename's
\* get/modify/restart loop ends, also when two renames turn the same row
\* back and forth (the last_guid check of rename_cb).
OpsComplete == \A k \in 1..MaxCalls : Pending(k) ~> ~Pending(k)

\* Every name row names an id that has an id row: the add FSM puts the id
\* row before the name row, and the remove FSM deletes an id's rows only
\* after its name rows are gone, an error of the name-row removal (a
\* partial non_trans_remove_all) finishing the FSM with the ids kept.
NamesHaveIds == \A n \in nameRows : \E r \in idRows : r.id = n.id

\* add_link_cb1 reports a link already in the table as an invalid attempt
\* and does not add it: the link table never holds a link twice.
LinkRowsUnique == \A l \in Links : linkRows[l] <= 1

-----------------------------------------------------------------------------
(* Refinement of BindingsAtomic.  A call of the name queue takes effect at *)
(* the answer to its first get, where the FSM decides what it will do; the *)
(* rest of its FSM then only carries that out.  The mapping adds to the    *)
(* tables what the head of the queue has decided and not yet done, and     *)
(* leaves that call out of the queue.  An add_link takes effect when it    *)
(* has read the links, a location call when it is answered.  The mapping  *)
(* itself is Atomic of BindingsLookup, where lookups run beside the calls. *)

Decided == nameQ # <<>> /\ Head(nameQ).st \notin {"id", "find"}
Calls(q) == [j \in 1..Len(q) |-> q[j].c]

AbsIdRows ==
    LET op == Head(nameQ) IN
    IF ~Decided THEN idRows
    ELSE IF op.st = "idins" THEN idRows \cup {[ent |-> op.c.ent, id |-> op.id]}
    ELSE IF op.st = "ids" \/ (op.st = "names" /\ op.c.rm # "NAME_ONLY")
         THEN idRows \ IdRowsMatch(op)
    ELSE idRows

AbsNameRows ==
    LET op == Head(nameQ) IN
    IF ~Decided THEN nameRows
    ELSE IF op.st \in {"idins", "nameins"} /\ op.c.type # "NONE" THEN nameRows \cup {NameRow(op)}
    ELSE IF op.st = "names" THEN nameRows \ NameRowsMatch(op)
    ELSE nameRows

LinkDecided == linkQ # <<>> /\ Head(linkQ).st = "put"
AbsLinkRows ==
    IF LinkDecided THEN [linkRows EXCEPT ![Head(linkQ).c.link] = @ + 1] ELSE linkRows

=============================================================================
