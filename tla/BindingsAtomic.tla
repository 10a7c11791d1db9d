---------------------------- MODULE BindingsAtomic ----------------------------
(***************************************************************************)
(* What Bindings_Storage promises its callers (bindings_storage.hh, the    *)
(* comment on the NDB tables): every call that adds or removes binding     *)
(* state is carried out after all the calls made before it, as if it were *)
(* one atomic step on the tables.  A call is queued when it is made        *)
(* (nameQ, locQ, linkQ: the calls not yet carried out, in call order) and  *)
(* applied later, whole.  The tables are sets of rows:                     *)
(*   idRows    [ent, id]              the id table                         *)
(*   nameRows  [id, name, type]       the name table                       *)
(*   locRows   [dp, port, name, type] the location table                   *)
(*   linkRows  link -> number of rows the link table holds for it          *)
(* Bindings refines this module when NDB never fails and no rename runs.  *)
(***************************************************************************)
EXTENDS Naturals, Sequences

CONSTANTS NameCalls, LocCalls, LinkCalls, Links, MaxCalls

VARIABLES idRows, nameRows, locRows, linkRows, nextId, nameQ, locQ, linkQ, nCalls

vars == <<idRows, nameRows, locRows, linkRows, nextId, nameQ, locQ, linkQ, nCalls>>

Init ==
    /\ idRows = {} /\ nameRows = {} /\ locRows = {}
    /\ linkRows = [l \in Links |-> 0]
    /\ nextId = 1
    /\ nameQ = <<>> /\ locQ = <<>> /\ linkQ = <<>>
    /\ nCalls = 0

\* A caller queues a call; nothing changes in the tables yet.
Call(q, calls) ==
    /\ nCalls < MaxCalls
    /\ \E c \in calls : q' = Append(q, c)
    /\ nCalls' = nCalls + 1

CallName == Call(nameQ, NameCalls) /\ UNCHANGED <<idRows, nameRows, locRows, linkRows, nextId, locQ, linkQ>>
CallLoc  == Call(locQ, LocCalls)   /\ UNCHANGED <<idRows, nameRows, locRows, linkRows, nextId, nameQ, linkQ>>
CallLink == Call(linkQ, LinkCalls) /\ UNCHANGED <<idRows, nameRows, locRows, linkRows, nextId, nameQ, locQ>>

\* The key a store looks its entity up by (ip_in_db when existing_record).
LookupEnt(c) == IF c.ex THEN <<c.ent[1], c.ipdb>> ELSE c.ent
NameRowFor(c, id) == IF c.type = "NONE" THEN {} ELSE {[id |-> id, name |-> c.name, type |-> c.type]}

\* A store binds the entity to the id found for it, or to a fresh id, and
\* the id to the name.
ApplyStore(c) ==
    LET found == {r \in idRows : r.ent = LookupEnt(c)} IN
    \/ /\ found = {}
       /\ idRows' = idRows \cup {[ent |-> c.ent, id |-> nextId]}
       /\ nameRows' = nameRows \cup NameRowFor(c, nextId)
       /\ nextId' = nextId + 1
    \/ \E r \in found :
       /\ idRows' = IF c.ex THEN idRows \cup {[ent |-> c.ent, id |-> r.id]} ELSE idRows
       /\ nameRows' = nameRows \cup NameRowFor(c, r.id)
       /\ UNCHANGED nextId

\* A removal finds the entity's id and removes one name of it (NAME_ONLY),
\* the entity's own id row (IP_ONLY), or the id with all its names (ALL).
ApplyRemove(c) ==
    LET found == {r \in idRows : r.ent = c.ent} IN
    /\ UNCHANGED nextId
    /\ \/ found = {} /\ UNCHANGED <<idRows, nameRows>>
       \/ \E r \in found :
          /\ nameRows' = IF c.rm = "IP_ONLY" THEN nameRows
                         ELSE {n \in nameRows : ~(n.id = r.id /\ (c.rm = "ALL" \/
                                   (n.name = c.name /\ n.type = c.type)))}
          /\ idRows' = IF c.rm = "NAME_ONLY" THEN idRows
                       ELSE {x \in idRows : ~(x.id = r.id /\ (c.rm = "ALL" \/ x.ent = c.ent))}

ApplyName ==
    /\ nameQ # <<>>
    /\ IF Head(nameQ).kind = "store" THEN ApplyStore(Head(nameQ)) ELSE ApplyRemove(Head(nameQ))
    /\ nameQ' = Tail(nameQ)
    /\ UNCHANGED <<locRows, linkRows, locQ, linkQ, nCalls>>

\* The rows a location removal matches: every row of the switch for a
\* switch name "", else the rows of that port and type (and name if given).
LocMatch(c, x) ==
    /\ x.dp = c.row.dp
    /\ \/ c.row.type = "SWITCH" /\ c.row.name = ""
       \/ x.port = c.row.port /\ x.type = c.row.type /\ (c.row.name = "" \/ x.name = c.row.name)

ApplyLoc ==
    /\ locQ # <<>>
    /\ LET c == Head(locQ) IN
       locRows' = IF c.kind = "locadd" THEN locRows \cup {c.row}
                  ELSE {x \in locRows : ~LocMatch(c, x)}
    /\ locQ' = Tail(locQ)
    /\ UNCHANGED <<idRows, nameRows, linkRows, nextId, nameQ, linkQ, nCalls>>

\* A link is added unless the table holds it already; a removal removes it.
ApplyLink ==
    /\ linkQ # <<>>
    /\ LET c == Head(linkQ) IN
       linkRows' = IF c.kind = "linkadd" /\ linkRows[c.link] = 0
                   THEN [linkRows EXCEPT ![c.link] = 1]
                   ELSE IF c.kind = "linkadd" THEN linkRows
                   ELSE [linkRows EXCEPT ![c.link] = 0]
    /\ linkQ' = Tail(linkQ)
    /\ UNCHANGED <<idRows, nameRows, locRows, nextId, nameQ, locQ, nCalls>>

Next == CallName \/ CallLoc \/ CallLink \/ ApplyName \/ ApplyLoc \/ ApplyLink

\* Every queued call is eventually carried out.
Spec == Init /\ [][Next]_vars /\ WF_vars(ApplyName) /\ WF_vars(ApplyLoc) /\ WF_vars(ApplyLink)

=============================================================================
