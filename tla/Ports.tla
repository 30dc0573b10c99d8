--------------------------------- MODULE Ports ---------------------------------
(***************************************************************************)
(* The ports of inbounds: the check that one is free, the write that comes *)
(* after it, the unique index of a core's ports, and the answer an         *)
(* administrator gets before creating an inbound on a port in use.         *)
(*                                                                         *)
(* A kind stands for a protocol and its transport: whether it can be       *)
(* routed by SNI, and whether the transport is UDP, has a path, or neither.*)
(*                                                                         *)
(* Sources: services/port_manager.go, services/inbound_service.go,         *)
(* haproxy/validator.go, haproxy/protocol_compat.go, api/inbounds.go.      *)
(***************************************************************************)
EXTENDS Naturals, FiniteSets

CONSTANTS
  Cores, PortNumbers,
  Reserved,    \* ports below 1024 or of another service
  PortRequests,
  Kinds,       \* of the inbounds made: records [sni, transport]
  Listens,     \* of their addresses "any", "one" and "other"
  MaxInbounds, \* bound on ids
  NoInbound    \* no row

VARIABLES
  inbounds, \* for each id NoInbound or [core, port, listen, kind, enabled]
  nextId,
  request,  \* for each request [at, id, row, late]; late: its check, if it
            \*   was answered at all, was of other rows than there are
  raced     \* history: a row was written by a request that was late

vars == <<inbounds, nextId, request, raced>>

Id   == 1..MaxInbounds
Idle == [at |-> "idle", id |-> 0, row |-> NoInbound, late |-> FALSE]

Present == {i \in Id : inbounds[i] # NoInbound}
Enabled == {i \in Present : inbounds[i].enabled}

Init ==
  /\ inbounds = [i \in Id |-> NoInbound] /\ nextId = 1
  /\ request = [q \in PortRequests |-> Idle] /\ raced = FALSE
-----------------------------------------------------------------------------
\* Mutant: the fallback's rule, ports are those of a core.
PortFreeOnCore(port, core, id, answered) ==
  /\ port \notin Reserved
  /\ answered => \A i \in Present \ {id} : inbounds[i].port = port => inbounds[i].core # core

\* IsPortAvailable: whatever core asks.  A query that fails is not told from
\* one that finds no row.
IsPortAvailable(port, core, id, answered) ==
  /\ port \notin Reserved
  /\ answered => \A i \in Present \ {id} : inbounds[i].port # port

\* idx_inbounds_core_port.
UniqueIndex(row, id) ==
  \A i \in Present \ {id} : <<inbounds[i].core, inbounds[i].port>> # <<row.core, row.port>>

\* The request has passed its check and is to write the row.
Passes(q, at, id, row, answered) ==
  request' = [request EXCEPT ![q] = [at |-> at, id |-> id, row |-> row, late |-> ~answered]]

CreateInbound(q, row) ==
  /\ request[q] = Idle /\ row.enabled
  /\ \E answered \in BOOLEAN :
       /\ IsPortAvailable(row.port, row.core, 0, answered)
       /\ Passes(q, "create", 0, row, answered)
  /\ UNCHANGED <<inbounds, nextId, raced>>

\* A port is checked if it is another than the row read has.
UpdateInbound(q, i, port, listen) ==
  /\ request[q] = Idle /\ i \in Present
  /\ \E enabled \in BOOLEAN, answered \in BOOLEAN :
       /\ IF port = inbounds[i].port THEN answered
          ELSE IsPortAvailable(port, inbounds[i].core, i, answered)
       /\ Passes(q, "update", i,
                 [inbounds[i] EXCEPT !.port = port, !.listen = listen, !.enabled = enabled], answered)
  /\ UNCHANGED <<inbounds, nextId, raced>>

\* The others' checks are of the table as it was.
Written(q) ==
  /\ request' = [p \in PortRequests |-> IF p = q THEN Idle
                                        ELSE [request[p] EXCEPT !.late = request[p].at # "idle"]]
  /\ raced' = (raced \/ request[q].late)

Insert(q) ==
  /\ request[q].at = "create" /\ nextId <= MaxInbounds /\ UniqueIndex(request[q].row, 0)
  /\ inbounds' = [inbounds EXCEPT ![nextId] = request[q].row]
  /\ nextId' = nextId + 1
  /\ Written(q)

\* An update of a row that is gone changes nothing.
Update(q) ==
  /\ request[q].at = "update" /\ UniqueIndex(request[q].row, request[q].id)
  /\ inbounds' = IF request[q].id \in Present
                 THEN [inbounds EXCEPT ![request[q].id] = request[q].row] ELSE inbounds
  /\ Written(q)
  /\ UNCHANGED nextId

\* The index refuses, or the certificate the row names.
WriteFails(q) ==
  /\ request[q] # Idle
  /\ request' = [request EXCEPT ![q] = Idle]
  /\ UNCHANGED <<inbounds, nextId, raced>>

DeleteInbound(i) ==
  /\ i \in Present
  /\ inbounds' = [inbounds EXCEPT ![i] = NoInbound]
  /\ request' = [p \in PortRequests |-> [request[p] EXCEPT !.late = request[p].at # "idle"]]
  /\ UNCHANGED <<nextId, raced>>

Rows == [core : Cores, port : PortNumbers, listen : Listens, kind : Kinds, enabled : BOOLEAN]

\* The handlers of the two.
Change(q) ==
  \/ \E row \in Rows : CreateInbound(q, row)
  \/ \E i \in Id, port \in PortNumbers, listen \in Listens : UpdateInbound(q, i, port, listen)
  \/ Insert(q) \/ Update(q) \/ WriteFails(q)

Next ==
  \/ \E q \in PortRequests : Change(q)
  \/ \E i \in Id : DeleteInbound(i)

Spec == Init /\ [][Next]_vars
-----------------------------------------------------------------------------
(***************************************************************************)
(* CheckPortAvailability: what is said of a port, to which the creation    *)
(* itself pays no heed.                                                    *)
(***************************************************************************)
isPortOverlap(a, b) == a = "any" \/ b = "any" \/ a = b

Conflicts(port, listen) ==
  {i \in Enabled : inbounds[i].port = port /\ isPortOverlap(listen, inbounds[i].listen)}

IsHaproxyCompatible(kind) == kind.transport # "udp"
CanShare(kind, i) == IsHaproxyCompatible(kind) /\ IsHaproxyCompatible(inbounds[i].kind)

GetSharingMechanism(kind, i) ==
  CASE kind.sni /\ inbounds[i].kind.sni -> "sni"
    [] ~(kind.sni /\ inbounds[i].kind.sni) /\ kind.transport = "path"
       /\ inbounds[i].kind.transport = "path" -> "path"
    [] OTHER -> "none"

\* One that can share is enough, and the last mechanism found is the answer.
ValidatePortConflict(port, listen, kind) ==
  LET conflicts == Conflicts(port, listen)
      sharing   == {i \in conflicts : CanShare(kind, i)}
      routed    == {i \in sharing : GetSharingMechanism(kind, i) # "none"}
      mechanism == IF routed = {} THEN "none"
                   ELSE GetSharingMechanism(kind, CHOOSE i \in routed : \A j \in routed : i >= j)
  IN  [action    |-> CASE conflicts = {} -> "allow"
                       [] conflicts # {} /\ sharing = {} -> "block"
                       [] sharing # {} -> IF mechanism = "none" THEN "confirm" ELSE "allow",
       mechanism |-> mechanism]
-----------------------------------------------------------------------------
\* Two inbounds have one port only if a check and a write crossed, or the query
\* of a check failed, and then on two cores.  Otherwise what is said of a port
\* holds for every inbound on it: each can share with the new one unless it is
\* blocked, and by the mechanism named when it is allowed.
PortsDistinct ==
  /\ \A i, j \in Present : i # j /\ inbounds[i].port = inbounds[j].port =>
       raced /\ inbounds[i].core # inbounds[j].core
  /\ ~raced => \A port \in PortNumbers, listen \in {"any", "one", "other"},
                kind \in [sni : BOOLEAN, transport : {"udp", "path", "plain"}] :
       LET answer == ValidatePortConflict(port, listen, kind) IN
         \A i \in Conflicts(port, listen) :
           /\ answer.action # "block" => CanShare(kind, i)
           /\ answer.action = "allow" => GetSharingMechanism(kind, i) = answer.mechanism
===============================================================================
