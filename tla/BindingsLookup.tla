---------------------------- MODULE BindingsLookup ----------------------------
(***************************************************************************)
(* The lookups of Bindings_Storage (bindings_storage.cc) against the       *)
(* tables that Bindings writes:                                            *)
(*   get_entities_by_name  for a HOST or USER name the GE FSM: one name-    *)
(*                         table get for the ids, then one id-table get per *)
(*                         id; for another type get_location_by_name, then  *)
(*                         one id-table get per location of its answer.     *)
(*   get_names_for_location the names of a location, switch or port; a      *)
(*                         LOCATION without a name, and every LOC_TUPLE,     *)
(*                         goes on to the switch name and the port name.     *)
(* Lookups are not serialized (bindings_storage.hh): each sends its gets at *)
(* once and runs beside the queued calls.  A lookup in flight is a record   *)
(* of look: its state st, the gets outstanding pend (a bag: one per entry   *)
(* of the list the code loops over), the list it crosses off as answers    *)
(* come (fetch), the entities or names found so far (bags) and the switch  *)
(* name a location lookup has found (sw).  An NDB get is answered by one    *)
(* action that reads the matching rows; with Faults it may answer an error  *)
(* after some of them.  posts counts the client callbacks each lookup has  *)
(* posted and lastCb is the one the last step posted (NoCb if none).  A    *)
(* lookup is clean while no table write and no error has met it.           *)
(***************************************************************************)
EXTENDS Bindings, Bags, BagsExt, FiniteSets, TLC

CONSTANTS
    LookIns,  \* <<"ent", name, type>>: get_entities_by_name;
              \* <<"names", dp, port, type>>: get_names_for_location
    EntLoc,   \* entity -> <<dpid, port>>, the access point of its id rows
    MaxLookups \* the lookups a behaviour makes, out of the MaxCalls calls

VARIABLES look, posts, lastCb

lookupVars == <<vars, look, posts, lastCb>>

Issued(k) == \E op \in look : op.k = k
Answered(k) == posts[k] > 0

\* A lookup takes its number from the call budget and changes no table:
\* the calls BindingsAtomic counts are the others.
NLookups == Cardinality({k \in 1..MaxCalls : Issued(k) \/ Answered(k)})

LocNameTypes == {"LOCATION", "PORT", "SWITCH", "LOC_TUPLE"}

\* The entities (NetEntity(row)) of an id-row set and the names of a
\* location-row set, as the lists the code builds from them (bags: equal
\* values from distinct rows count twice).
CountBy(rows, F(_)) == [v \in {F(x) : x \in rows} |-> Cardinality({x \in rows : F(x) = v})]
EntsOf(rows)  == CountBy(rows, LAMBDA r : r.ent)
NamesOf(rows) == CountBy(rows, LAMBDA x : x.name)
\* The id-table queries of the second stage: q["id"], or q["dpid"] and
\* q["port"] for a location of get_location_by_name's answer
IdQueries(ids) == SetToBag({[id |-> n] : n \in ids})
LocQueries(rows) == CountBy(rows, LAMBDA x : [dp |-> x.dp, port |-> x.port])

\* An answer to a get: every matching row and NO_MORE_ROWS, or with Faults
\* an error after some of them (the get_next scan stops at the error).
Answers(rows) == {[got |-> rows, err |-> FALSE]}
                 \cup (IF Faults THEN {[got |-> s, err |-> TRUE] : s \in SUBSET rows} ELSE {})

Upd(op, new) == look' = (look \ {op}) \cup {new}
Drop(op) == look' = look \ {op}
\* post(callback, list): the client is called with a copy of the list
Callback(op) == [k |-> op.k, in |-> op.in, ents |-> op.ents, names |-> op.names, clean |-> op.clean]
NoCb == [k |-> 0, in |-> <<>>, ents |-> EmptyBag, names |-> EmptyBag, clean |-> FALSE]
Post(op) == posts' = [posts EXCEPT ![op.k] = @ + 1] /\ lastCb' = Callback(op)
NoPost == UNCHANGED posts /\ lastCb' = NoCb
\* An answer that stopped at an error leaves the lookup unclean
Got(op, a) == [op EXCEPT !.clean = @ /\ ~a.err]

-----------------------------------------------------------------------------
(* The calls.                                                              *)

\* Mutant: the lookup is numbered from the calls made so far.
Lookup_k0(i) ==
    /\ nCalls < MaxCalls
    /\ NLookups < MaxLookups
    /\ IF i[1] = "names" THEN i[4] \in LocNameTypes ELSE TRUE
    /\ look' = look \cup {[k |-> nCalls, in |-> i,
                           st |-> IF i[1] = "names" THEN "loc"
                                  ELSE IF i[3] \in NameTypes THEN "names" ELSE "locs",
                           pend |-> EmptyBag, fetch |-> EmptyBag, ents |-> EmptyBag,
                           names |-> EmptyBag, sw |-> "", clean |-> TRUE]}
    /\ nCalls' = nCalls + 1
    /\ UNCHANGED <<idRows, nameRows, locRows, linkRows, nextId, nameQ, locQ, linkQ, ren, posts>>
    /\ lastCb' = NoCb

\* get_entities_by_name: a HOST or USER name runs the GE FSM from
\* GE_FIND_IDS; any other type calls get_location_by_name.
\* get_names_for_location: a valid type sends the location-table get (an
\* invalid one returns at once, without a callback).
Lookup(i) ==
    /\ nCalls < MaxCalls
    /\ NLookups < MaxLookups
    /\ IF i[1] = "names" THEN i[4] \in LocNameTypes ELSE TRUE
    /\ look' = look \cup {[k |-> nCalls + 1, in |-> i,
                           st |-> IF i[1] = "names" THEN "loc"
                                  ELSE IF i[3] \in NameTypes THEN "names" ELSE "locs",
                           pend |-> EmptyBag, fetch |-> EmptyBag, ents |-> EmptyBag,
                           names |-> EmptyBag, sw |-> "", clean |-> TRUE]}
    /\ nCalls' = nCalls + 1
    /\ UNCHANGED <<idRows, nameRows, locRows, linkRows, nextId, nameQ, locQ, linkQ, ren, posts>>
    /\ lastCb' = NoCb

-----------------------------------------------------------------------------
(* get_entities_by_name.                                                   *)

\* get_entities_cb1 and start_entity_lookups: an error calls back with no
\* entity; no id calls back; else one id-table get per (squashed) id.
EntitiesCb1(op) ==
    LET rows == {n \in nameRows : n.name = op.in[2] /\ n.type = op.in[3]} IN
    /\ op.st = "names"
    /\ \E a \in Answers(rows) :
          LET ids == {n.id : n \in a.got} IN
          IF a.err \/ ids = {} THEN Post(Got(op, a)) /\ Drop(op)
          ELSE Upd(op, [op EXCEPT !.st = "ids", !.pend = IdQueries(ids),
                                  !.fetch = IdQueries(ids)]) /\ NoPost

\* Mutant: the empty location list does not call back.
EntitiesByLocCb1_nopost(op) ==
    LET rows == {x \in locRows : x.name = op.in[2] /\ x.type = op.in[3]} IN
    /\ op.st = "locs"
    /\ \E a \in Answers(rows) :
          /\ LocQueries(a.got) # EmptyBag
          /\ Upd(op, [Got(op, a) EXCEPT !.st = "ids", !.pend = LocQueries(a.got),
                                        !.fetch = LocQueries(a.got)])
    /\ NoPost

\* Mutant: get_entities_by_loc_cb1 calls back whatever the list's size.
EntitiesByLocCb1_always(op) ==
    LET rows == {x \in locRows : x.name = op.in[2] /\ x.type = op.in[3]} IN
    /\ op.st = "locs"
    /\ \E a \in Answers(rows) :
          IF LocQueries(a.got) = EmptyBag THEN Post(Got(op, a)) /\ Drop(op)
          ELSE Upd(op, [Got(op, a) EXCEPT !.st = "ids", !.pend = LocQueries(a.got),
                                          !.fetch = LocQueries(a.got)]) /\ Post(Got(op, a))

\* get_location_by_name and get_loc_by_name_cb: the locations of the rows
\* with this name and type, the ones read before an error included; then
\* get_entities_by_loc_cb1: locs_to_fetch = loc_list, an empty list calls
\* back, and one id-table get goes out per entry of the list.
EntitiesByLocCb1(op) ==
    LET rows == {x \in locRows : x.name = op.in[2] /\ x.type = op.in[3]} IN
    /\ op.st = "locs"
    /\ \E a \in Answers(rows) :
          IF LocQueries(a.got) = EmptyBag THEN Post(Got(op, a)) /\ Drop(op)
          ELSE Upd(op, [Got(op, a) EXCEPT !.st = "ids", !.pend = LocQueries(a.got),
                                          !.fetch = LocQueries(a.got)]) /\ NoPost

\* get_entities_cb2 and get_entities_by_loc_cb2, for the get of one id or
\* location: its rows' entities are appended, then at NO_MORE_ROWS or an
\* error the key is removed from the list (every copy of it) and an empty
\* list calls back.
EntitiesCb2(op, q) ==
    LET rows == IF "id" \in DOMAIN q THEN {r \in idRows : r.id = q.id}
                ELSE {r \in idRows : EntLoc[r.ent] = <<q.dp, q.port>>} IN
    /\ op.st = "ids" /\ q \in DOMAIN op.pend
    /\ \E a \in Answers(rows) :
          LET new == [Got(op, a) EXCEPT !.pend = BagRemove(@, q),
                        !.fetch = BagRemoveAll(@, q), !.ents = @ (+) EntsOf(a.got)] IN
          /\ IF new.fetch = EmptyBag THEN Post(new) ELSE NoPost
          /\ IF new.pend = EmptyBag THEN Drop(op) ELSE Upd(op, new)

-----------------------------------------------------------------------------
(* get_names_for_location.                                                 *)

RowsAt(dp, port, type) == {x \in locRows : x.dp = dp /\ x.port = port /\ x.type = type}
\* The names get_locnames_cb2 and get_locnames_cb3 make when none is found
NoSwitchName(dp) == "none;" \o ToString(dp)
PortNumberName(port) == ToString(port)
LocationName(s, p) == s \o ":" \o p
\* The LOC_TUPLE form (the escaping of '#' and '\' is left out: no name of
\* the model holds either)
TupleName(n, s, p) == n \o "#" \o s \o "#" \o p

\* get_names_for_location's query (a switch at NO_PORT, a LOC_TUPLE looked
\* up as LOCATION) and get_locnames_cb: an error calls back with the names
\* read; at NO_MORE_ROWS a LOCATION without a name, and every LOC_TUPLE,
\* goes on to the switch-name get; the others call back.
LocNamesCb(op) ==
    LET type == op.in[4]
        rows == RowsAt(op.in[2], IF type = "SWITCH" THEN NoPort ELSE op.in[3],
                       IF type = "LOC_TUPLE" THEN "LOCATION" ELSE type) IN
    /\ op.st = "loc"
    /\ \E a \in Answers(rows) :
          LET new == [Got(op, a) EXCEPT !.names = NamesOf(a.got)] IN
          IF ~a.err /\ ((a.got = {} /\ type = "LOCATION") \/ type = "LOC_TUPLE")
          THEN Upd(op, [new EXCEPT !.st = "sw"]) /\ NoPost
          ELSE Post(new) /\ Drop(op)

\* Mutant: the switch query keeps the location's port.
SwitchNameCb_port(op) ==
    LET rows == RowsAt(op.in[2], op.in[3], "SWITCH") IN
    /\ op.st = "sw"
    /\ \E a \in Answers(rows) :
       \E s \in IF a.got = {} THEN {NoSwitchName(op.in[2])} ELSE {x.name : x \in a.got} :
          Upd(op, [Got(op, a) EXCEPT !.st = "port", !.sw = s])
    /\ NoPost

\* get_locnames_cb (type SWITCH) for the switch query, then get_locnames_cb2:
\* the first name read, or "none;<dpid>"; an error ends the inner lookup
\* with what it read, and cb2 goes on all the same with the port-name get.
SwitchNameCb(op) ==
    LET rows == RowsAt(op.in[2], NoPort, "SWITCH") IN
    /\ op.st = "sw"
    /\ \E a \in Answers(rows) :
       \E s \in IF a.got = {} THEN {NoSwitchName(op.in[2])} ELSE {x.name : x \in a.got} :
          Upd(op, [Got(op, a) EXCEPT !.st = "port", !.sw = s])
    /\ NoPost

\* get_locnames_cb (type PORT) for the port query, then get_locnames_cb3:
\* the first port name read, or the port number; a location without a name
\* gets "switch:port"; a LOC_TUPLE turns each name into name#switch#port.
PortNameCb(op) ==
    LET rows == RowsAt(op.in[2], op.in[3], "PORT") IN
    /\ op.st = "port"
    /\ \E a \in Answers(rows) :
       \E p \in IF a.got = {} THEN {PortNumberName(op.in[3])} ELSE {x.name : x \in a.got} :
          LET base == IF op.names = EmptyBag THEN SetToBag({LocationName(op.sw, p)})
                      ELSE op.names IN
          Post([Got(op, a) EXCEPT !.names =
                  IF op.in[4] = "LOC_TUPLE" THEN BagOfAll(LAMBDA n : TupleName(n, op.sw, p), base)
                  ELSE base])
    /\ Drop(op)

-----------------------------------------------------------------------------
(* The lookups beside the queued calls.                                    *)

LookupInit == Init /\ look = {} /\ posts = [k \in 1..MaxCalls |-> 0] /\ lastCb = NoCb

\* A step of the queued calls or a rename: a write to a table makes every
\* lookup in flight unclean.
Tables == <<idRows, nameRows, locRows>>
Touch ==
    /\ look' = IF Tables' = Tables THEN look ELSE {[op EXCEPT !.clean = FALSE] : op \in look}
    /\ NoPost

LookupInternal ==
    \E op \in look :
        \/ EntitiesCb1(op) \/ EntitiesByLocCb1(op)
        \/ \E key \in DOMAIN op.pend : EntitiesCb2(op, key)
        \/ LocNamesCb(op) \/ SwitchNameCb(op) \/ PortNameCb(op)

LookupNext ==
    \/ Next /\ Touch
    \/ \E i \in LookIns : Lookup(i)
    \/ LookupInternal /\ UNCHANGED vars

\* NDB answers every get and NOX runs every callback.
LookupSpec == LookupInit /\ [][LookupNext]_lookupVars
              /\ WF_lookupVars(Internal /\ Touch) /\ WF_lookupVars(LookupInternal /\ UNCHANGED vars)

-----------------------------------------------------------------------------
(* Properties.                                                             *)

LookupTypeOK ==
    /\ \A op \in look :
          /\ op.k \in 1..MaxCalls /\ op.in \in LookIns /\ op.clean \in BOOLEAN
          /\ op.st \in {"names", "locs", "ids", "loc", "sw", "port"}
          /\ IsABag(op.pend) /\ IsABag(op.fetch) /\ IsABag(op.ents) /\ IsABag(op.names)
    /\ posts \in [1..MaxCalls -> Nat]
    /\ lastCb = NoCb \/ (lastCb.k \in 1..MaxCalls /\ lastCb.in \in LookIns)


Atomic == INSTANCE BindingsAtomic WITH
    idRows <- AbsIdRows, nameRows <- AbsNameRows, linkRows <- AbsLinkRows,
    locRows <- {Content(x) : x \in locRows},
    nameQ <- Calls(IF Decided THEN Tail(nameQ) ELSE nameQ),
    locQ <- Calls(locQ),
    linkQ <- Calls(IF LinkDecided THEN Tail(linkQ) ELSE linkQ),
    nCalls <- nCalls - NLookups

\* The serial queues make every call atomic and ordered as the header of
\* bindings_storage.hh promises: the FSMs of store_binding_state,
\* remove_binding_state, remove_machine, the location calls and add_link
\* implement BindingsAtomic, and every queued call is carried out, with
\* lookups running beside them.
AtomicLookupSpec == Atomic!Spec

\* Every lookup calls its client back: the GE FSM, get_location_by_name
\* with the per-location gets, and the switch and port continuation of
\* get_names_for_location each reach a post(callback), on an empty list,
\* an error or the last answer alike.
LookupsAnswered == \A k \in 1..MaxCalls : Issued(k) ~> Answered(k)

\* The reference answers, stated on the tables: the entities bound to a
\* HOST or USER name through its ids, or sitting at a location row of the
\* name; the names of a switch, port or location, a nameless location
\* being called after its switch and port, and a LOC_TUPLE carrying both.
ExpectedEntities(i) ==
    IF i[3] \in NameTypes
    THEN {r.ent : r \in {r \in idRows : \E n \in nameRows :
                            n.id = r.id /\ n.name = i[2] /\ n.type = i[3]}}
    ELSE {r.ent : r \in {r \in idRows : \E x \in locRows :
                            x.name = i[2] /\ x.type = i[3] /\ EntLoc[r.ent] = <<x.dp, x.port>>}}
NamesAt(dp, port, type) ==
    {x.name : x \in {x \in locRows : x.dp = dp /\ x.port = port /\ x.type = type}}
ExpectedNames(i) ==
    LET dp == i[2]
        port == i[3]
        own == NamesAt(dp, port, "LOCATION")
        S == IF NamesAt(dp, NoPort, "SWITCH") = {} THEN {NoSwitchName(dp)}
             ELSE NamesAt(dp, NoPort, "SWITCH")
        P == IF NamesAt(dp, port, "PORT") = {} THEN {PortNumberName(port)}
             ELSE NamesAt(dp, port, "PORT") IN
    CASE i[4] = "SWITCH" -> {NamesAt(dp, NoPort, "SWITCH")}
      [] i[4] = "PORT" -> {NamesAt(dp, port, "PORT")}
      [] i[4] = "LOCATION" /\ own # {} -> {own}
      [] i[4] = "LOCATION" -> {{LocationName(s, p)} : s \in S, p \in P}
      [] i[4] = "LOC_TUPLE" ->
            {{TupleName(n, s, p) : n \in IF own = {} THEN {LocationName(s, p)} ELSE own} :
                s \in S, p \in P}
Expected(i) == IF i[1] = "ent" THEN {ExpectedEntities(i)} ELSE ExpectedNames(i)
Answer(e) == IF e.in[1] = "ent" THEN BagToSet(e.ents) ELSE BagToSet(e.names)

\* A callback of a lookup that met no error and no table write while it
\* ran holds exactly the reference answer: the FSMs' lists of ids and
\* locations, crossed off answer by answer, and the switch and port
\* continuation lose nothing and add nothing.
LookupAnswerExact == lastCb.clean => Answer(lastCb) \in Expected(lastCb.in)

\* A client is called back once per lookup (the header's API returns
\* "results via a callback").
AtMostOneCallback == \A k \in 1..MaxCalls : posts[k] <= 1

=============================================================================
