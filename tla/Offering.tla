------------------------------- MODULE Offering -------------------------------
(***************************************************************************)
(* Whether what a user is told works: the rows of one core (inbounds,      *)
(* outbounds, mappings of users), the configuration file generated from    *)
(* them, the configuration the core really runs, and the entries of a      *)
(* subscription in the four formats.                                       *)
(*                                                                         *)
(* An operation of the API is one step here, with everything it does to    *)
(* rows, file and core; their interleavings are in CoreLifecycle.  Ports   *)
(* are left out.  What the core reads is a copy of the rows (a snapshot):  *)
(* Served turns it into endpoints.                                         *)
(*                                                                         *)
(* Sources: services/inbound_service.go, outbound_service.go,              *)
(* user_service.go, config_service.go and core_lifecycle.go, under         *)
(* src/backend/internal.                                                   *)
(***************************************************************************)
EXTENDS SubscriptionFormats, FiniteSets

Sequence == INSTANCE SequencesExt

Registry == INSTANCE ProtocolRegistry

CONSTANTS
  Person,       \* names of the users
  Scenes,       \* instances: [core, files, templates, ops], where templates is
                \*   what CreateInbound is asked for, and ops bounds the operations
  Changes,      \* what UpdateInbound is asked for
  OutProtocols, \* protocols of outbounds
  MaxInbounds,  \* bound on the inbounds ever created
  MaxOutbounds, \* bound on the outbounds ever created
  None          \* no row, no file, no process

ASSUME OfferingAssumption ==  MaxInbounds \in Nat \ {0} /\ MaxOutbounds \in Nat

VARIABLES
  scene,   \* the core all this is about; are the files of certificates there,
           \*   and valid?
  db,      \* the rows: [inbounds, outbounds, mapped, version, deleted, next, nextOut]
  file,    \* the snapshot the configuration file holds, or None
  running, \* the snapshot the core was started with, or None when it is down
  ops,     \* number of operations so far
  behind   \* history: why the running configuration may differ from the rows

vars == <<scene, db, file, running, ops, behind>>

core  == scene.core
files == scene.files

Reasons == {"users", "outbounds", "refused", "disabled"}
Ids     == 1..MaxInbounds

(***************************************************************************)
(* Rows.  mapped[i] lists users in the order their mappings were made;     *)
(* version[p] counts the credentials of p; deletion of a user is soft and  *)
(* leaves the mappings.                                                    *)
(***************************************************************************)
Secret(p, kind, v) == p \o kind \o ToString(v)

User(p, v) == [label |-> "user_" \o p, name |-> p,
               uuid |-> Secret(p, " uuid ", v), token |-> Secret(p, " token ", v)]

Me(p) == User(p, db.version[p])

\* The others of a list, in their order.  (SelectSeq, as a recursive function.)
Without(list, people) ==
  LET kept[n \in 0..Len(list)] ==
        IF n = 0 THEN << >>
        ELSE IF list[n] \in people THEN kept[n - 1] ELSE Append(kept[n - 1], list[n])
  IN  kept[Len(list)]

\* Mutant: users that were deleted are loaded as well.
DeletedServed(d) ==
  [inbounds |-> d.inbounds, outbounds |-> d.outbounds,
   users |-> [i \in Ids |-> [n \in DOMAIN d.mapped[i] |->
                User(d.mapped[i][n], d.version[d.mapped[i][n]])]]]

GenerateConfig(d) ==
  [inbounds |-> d.inbounds, outbounds |-> d.outbounds,
   users |-> [i \in Ids |->
     LET present == Without(d.mapped[i], d.deleted)
     IN  [n \in DOMAIN present |-> User(present[n], d.version[present[n]])]]]

Rows(ids, of) == {of[i] : i \in {i \in ids : of[i] # None}}

Valid(snapshot) ==
  ValidateConfig(core, Rows(Ids, snapshot.inbounds), snapshot.outbounds, files)

\* The endpoints the core has for inbound i, the row as the generator reads it.
Strings(cfg) == [k \in {k \in DOMAIN cfg : cfg[k].type = "string"} |-> cfg[k].value]
AsRead(row)  == [row EXCEPT !.cfg = Strings(@)]

Served(i) == ConvertInbound(core, AsRead(running.inbounds[i]), running.users[i])

(***************************************************************************)
(* File and core.  A failure to generate is logged and the core restarted  *)
(* all the same, with the file there is.                                   *)
(***************************************************************************)
Regenerated(d) == IF Valid(GenerateConfig(d)) THEN GenerateConfig(d) ELSE file

Start(d) ==
  /\ file' = Regenerated(d)
  /\ running' = file'
  /\ behind' = IF Valid(GenerateConfig(d)) THEN {} ELSE behind \cup {"refused"}

Regenerate(d) ==
  /\ file' = Regenerated(d)
  /\ UNCHANGED running
  /\ behind' = IF Valid(GenerateConfig(d)) THEN behind ELSE behind \cup {"refused"}

RestartIfRunning(d) == IF running # None THEN Start(d) ELSE Regenerate(d)

OnInboundCreated(d) == Start(d)

OnInboundDeleted(d, i) ==
  IF \E j \in Ids \ {i} : d.inbounds[j] # None /\ d.inbounds[j].enabled
  THEN RestartIfRunning(d)
  ELSE /\ file' = Regenerated(d)
       /\ running' = None
       /\ behind' = {}

\* Mutant: the configuration of a running core is written and not loaded.
UpdatedNotLoaded(d, i, wasEnabled) ==
  LET enabled == d.inbounds[i].enabled IN
  CASE ~wasEnabled /\ enabled  -> OnInboundCreated(d)
    [] wasEnabled /\ ~enabled  -> OnInboundDeleted(d, i)
    [] wasEnabled /\ enabled   -> Regenerate(d)
    [] ~wasEnabled /\ ~enabled ->
         UNCHANGED <<file, running>> /\ behind' = behind \cup {"disabled"}

OnInboundUpdated(d, i, wasEnabled) ==
  LET enabled == d.inbounds[i].enabled IN
  CASE ~wasEnabled /\ enabled  -> OnInboundCreated(d)
    [] wasEnabled /\ ~enabled  -> OnInboundDeleted(d, i)
    [] wasEnabled /\ enabled   -> RestartIfRunning(d)
    [] ~wasEnabled /\ ~enabled ->
         UNCHANGED <<file, running>> /\ behind' = behind \cup {"disabled"}

\* RegenerateAndReload restarts the core before it renames the new file.
RegenerateAndReload(d) ==
  IF Valid(GenerateConfig(d))
  THEN /\ running' = IF running = None THEN None ELSE file
       /\ file' = GenerateConfig(d)
       /\ behind' = behind \cup {"outbounds"}
  ELSE UNCHANGED <<file, running>> /\ behind' = behind \cup {"refused"}

Operation ==
  /\ ops < scene.ops
  /\ ops' = ops + 1
  /\ UNCHANGED scene

(***************************************************************************)
(* Inbounds                                                                *)
(***************************************************************************)
\* A binding to a certificate is cleared while TLS is off.  A row is created
\* enabled: the column's default replaces false.
NewRow(i, t) ==
  [id |-> i, enabled |-> TRUE, protocol |-> t.protocol, tls |-> t.tls, cert |-> t.tls /\ t.cert,
   reality |-> t.reality, realityConfig |-> t.realityConfig, cfg |-> t.cfg]

\* The columns that are in changes are written.
Updated(row, changes) ==
  [column \in DOMAIN row |->
     IF column = "cert" /\ "tls" \in DOMAIN changes /\ ~changes["tls"] THEN FALSE
     ELSE IF column \in DOMAIN changes THEN changes[column] ELSE row[column]]

CreateInbound(t) ==
  LET i == db.next
      d == [db EXCEPT !.inbounds[i] = NewRow(i, t), !.next = i + 1] IN
  /\ Operation
  /\ i \in Ids
  /\ Registry!ValidateConfigJSON(t.protocol, t.cfg)
  /\ db' = d
  /\ OnInboundCreated(d)

\* config_json is checked against the protocol the row has had.
UpdateInbound(i, changes) ==
  LET old == db.inbounds[i]
      d   == [db EXCEPT !.inbounds[i] = Updated(old, changes)] IN
  /\ Operation
  /\ old # None
  /\ "cfg" \in DOMAIN changes => Registry!ValidateConfigJSON(old.protocol, changes["cfg"])
  /\ db' = d
  /\ OnInboundUpdated(d, i, old.enabled)

DeleteInbound(i) ==
  LET d == [db EXCEPT !.inbounds[i] = None, !.mapped[i] = << >>] IN
  /\ Operation
  /\ db.inbounds[i] # None
  /\ db' = d
  /\ OnInboundDeleted(d, i)

(***************************************************************************)
(* Users.  None of these touches file or core.                             *)
(***************************************************************************)
ForUsersOnly ==
  /\ Operation
  /\ UNCHANGED <<file, running>>
  /\ behind' = behind \cup {"users"}

Added(mappings, people) ==
  mappings \o Without(people, Sequence!Range(mappings))

AssignInboundToUser(p, i) ==
  /\ p \notin db.deleted
  /\ db.inbounds[i] # None
  /\ p \notin Sequence!Range(db.mapped[i])
  /\ db' = [db EXCEPT !.mapped[i] = Append(@, p)]
  /\ ForUsersOnly

UnassignInboundFromUser(p, i) ==
  /\ p \in Sequence!Range(db.mapped[i])
  /\ db' = [db EXCEPT !.mapped[i] = Without(@, {p})]
  /\ ForUsersOnly

BulkAssignUsers(i, add, remove) ==
  /\ db.inbounds[i] # None
  /\ db' = [db EXCEPT !.mapped[i] = Added(Without(@, remove), Without(add, db.deleted))]
  /\ ForUsersOnly

RegenerateCredentials(p) ==
  /\ p \notin db.deleted
  /\ db' = [db EXCEPT !.version[p] = @ + 1]
  /\ ForUsersOnly

DeleteUser(p) ==
  /\ p \notin db.deleted
  /\ db' = [db EXCEPT !.deleted = @ \cup {p}]
  /\ ForUsersOnly

Lists == UNION {Sequence!SetToSeqs(people) : people \in SUBSET Person}

(***************************************************************************)
(* Outbounds                                                               *)
(***************************************************************************)
\* The registry spells sing-box with a hyphen, the table cores without.
CreateOutbound(p) ==
  LET d == [db EXCEPT !.outbounds = @ \cup {[id |-> db.nextOut, protocol |-> p]},
                      !.nextOut = @ + 1] IN
  /\ Operation
  /\ db.nextOut <= MaxOutbounds
  /\ Registry!ValidateProtocolForCore(p, core)
  /\ Registry!GetSchema(p).direction # "inbound"
  /\ db' = d
  /\ RegenerateAndReload(d)

UpdateOutbound(o, p) ==
  LET d == [db EXCEPT !.outbounds = (@ \ {o}) \cup {[o EXCEPT !.protocol = p]}] IN
  /\ Operation
  /\ o.protocol # p => /\ Registry!ValidateProtocolForCore(p, core)
                       /\ Registry!GetSchema(p).direction # "inbound"
  /\ db' = d
  /\ RegenerateAndReload(d)

DeleteOutbound(o) ==
  LET d == [db EXCEPT !.outbounds = @ \ {o}] IN
  /\ Operation
  /\ db' = d
  /\ RegenerateAndReload(d)

(***************************************************************************)
(* The specification                                                       *)
(***************************************************************************)
Init ==
  /\ scene \in Scenes
  /\ db = [inbounds |-> [i \in Ids |-> None], outbounds |-> {},
           mapped |-> [i \in Ids |-> << >>], version |-> [p \in Person |-> 1],
           deleted |-> {}, next |-> 1,
           nextOut |-> 1]
  /\ file = None
  /\ running = None
  /\ ops = 0
  /\ behind = {}

\* The handlers of outbounds.
Outbound ==
  \/ \E p \in OutProtocols : CreateOutbound(p)
  \/ \E o \in db.outbounds : DeleteOutbound(o) \/ \E p \in OutProtocols : UpdateOutbound(o, p)

Next ==
  \/ \E t \in scene.templates : CreateInbound(t)
  \/ \E i \in Ids, c \in Changes : UpdateInbound(i, c)
  \/ \E i \in Ids : DeleteInbound(i)
  \/ \E p \in Person, i \in Ids : AssignInboundToUser(p, i) \/ UnassignInboundFromUser(p, i)
  \/ \E i \in Ids, add \in Lists, remove \in SUBSET Person : BulkAssignUsers(i, add, remove)
  \/ \E p \in Person : RegenerateCredentials(p) \/ DeleteUser(p)
  \/ Outbound

Spec == Init /\ [][Next]_vars

(***************************************************************************)
(* Properties                                                              *)
(***************************************************************************)
\* Numbers in range, copies made of the rows, reasons from the list.
TypeOK ==
  /\ ops \in 0..scene.ops
  /\ behind \subseteq Reasons
  /\ db.next \in 1..MaxInbounds + 1 /\ db.nextOut \in 1..MaxOutbounds + 1
  /\ db.deleted \subseteq Person
  /\ \A i \in Ids : /\ i >= db.next => db.inbounds[i] = None
                    /\ db.inbounds[i] = None => db.mapped[i] = << >>
                    /\ db.mapped[i] \in Lists
  /\ running # None => file # None

\* The inbounds in the subscription of p.
GetUserSubscriptionData(p) ==
  {i \in Ids : /\ p \notin db.deleted
               /\ p \in Sequence!Range(db.mapped[i])
               /\ db.inbounds[i].enabled}

\* What the apps understand: names of transports, in each format and what they
\* stand for, and an empty path as "/".
Vocabulary == [
  v2ray   |-> {"tcp", "ws", "grpc", "h2", "http", "xhttp", "httpupgrade"},
  singbox |-> {"tcp", "ws", "grpc", "http", "httpupgrade"},
  clash   |-> {"tcp", "ws", "grpc", "h2"},
  isolate |-> {"tcp", "ws", "websocket", "grpc", "http", "h2", "httpupgrade"}]

Meant(name) == CASE name \in {"ws", "websocket"} -> "ws"
                 [] name \in {"h2", "http"}      -> "h2"
                 [] OTHER                        -> name

SameTransport(format, client, server) ==
  /\ client.network \in Vocabulary[format]
  /\ Meant(client.network) = server.network
  /\ IF client.path = "" /\ server.network \in {"ws", "h2", "xhttp"}
     THEN server.path = "/" ELSE client.path = server.path

Accepts(server, format, entry) ==
  /\ SameTransport(format, entry.transport, server.transport)
  /\ entry.security = server.security
  /\ server.security = "tls" => server.certificate
  /\ entry.account \in server.accounts

\* Inbound i lets in who presents the entry the format makes for user.
LetsIn(i, format, user) ==
  \E entry \in Generate(format, AsRead(db.inbounds[i]), user) :
    \E server \in Served(i) : Accepts(server, format, entry)

Current == running # None /\ running = GenerateConfig(db)

(***************************************************************************)
(* What works, protocol by protocol, when the core is up to date.          *)
(***************************************************************************)
Carries(format, row) ==
  LET cfg  == AsRead(row).cfg
      name == TransportName(cfg)
  IN \/ name = "tcp"
     \/ name = "ws" /\ \/ Get(cfg, "ws_path") = "/"
                       \/ Get(cfg, "ws_path") # "" /\ format \in {"singbox", "clash"}
     \/ name = "grpc" /\ Get(cfg, "grpc_service_name") # ""
     \/ name = "h2" /\ format # "singbox" /\
          \/ Get(cfg, "h2_path") \in {"", "/"}
          \/ format = "clash" /\ row.protocol = "vmess"

\* The core must have plain TCP where the format names no transport.
PlainTcp(row) == Get(AsRead(row).cfg, "transport") \notin {"ws", "grpc", "h2"}

NamesTransport(format, protocol) ==
  \/ format = "isolate"
  \/ protocol \in {"vless", "vmess"}
  \/ protocol = "trojan" /\ format # "clash"

Carried(format, row) ==
  IF NamesTransport(format, row.protocol) THEN Carries(format, row) ELSE PlainTcp(row)

\* Security as the core has it, against what the format says of it.
Security(row) == IF HasReality(row) THEN "reality" ELSE IF row.tls THEN "tls" ELSE "none"

SameSecurity(format, row) ==
  CASE Security(row) = "reality" ->
         /\ row.protocol = "vmess"  => format \in {"singbox", "isolate"}
         /\ row.protocol = "trojan" => format # "clash"
    [] Security(row) = "tls" ->
         /\ row.cert
         /\ format = "v2ray" /\ row.protocol # "vmess" => ~row.reality
    [] OTHER ->
         /\ row.protocol = "trojan" => format # "clash"
         /\ row.reality => \/ format = "clash"
                           \/ format = "singbox" /\ row.protocol = "vmess"

\* The same for the other protocols.
OtherSecurity(format, row) ==
  CASE Security(row) = "reality" -> format \in {"singbox", "isolate"}
    [] Security(row) = "tls"     -> row.cert
    [] OTHER                     -> /\ row.protocol = "tuic_v5" => format # "clash"
                                    /\ format = "isolate" => ~row.reality

\* The flow must be in config_json exactly if reality is on.
SameFlow(format, row) ==
  LET flow == Get(AsRead(row).cfg, "flow") IN
  /\ row.protocol = "vless" => flow = Vision(row)
  /\ row.protocol = "vmess" /\ format = "isolate" => flow = ""

\* Of the other protocols: the formats that name what their one core has.
OthersKnown ==
  {"tuic_v5"} \X {"singbox"} \X Formats
    \cup {"xhttp"} \X {"xray"} \X {"isolate"}

\* With Mihomo there is nothing to connect to.
Understood(format, row) ==
  core # "mihomo" /\ Carried(format, row) /\
  CASE row.protocol \in {"vless", "vmess", "trojan"} ->
         SameSecurity(format, row) /\ SameFlow(format, row)
    [] row.protocol = "hysteria2" ->
         format = "v2ray" /\ Security(row) = "tls" /\ row.cert
    [] OTHER -> <<row.protocol, core, format>> \in OthersKnown /\ OtherSecurity(format, row)

\* With a core that is up to date, the entry a format makes for an inbound of a
\* user's subscription gets the user in exactly if the format knows the inbound's
\* transport with its path, says the security the core has, and names the flow; for
\* most other protocols no format does.
WorksExactly ==
  Current =>
    \A p \in Person : \A i \in GetUserSubscriptionData(p), format \in Formats :
      LetsIn(i, format, Me(p)) <=> Understood(format, db.inbounds[i])

\* With a core that is up to date, nobody gets in whose mapping or user is gone, or
\* with credentials of before.
NobodyElse ==
  Current =>
    \A p \in Person, i \in Ids, format \in Formats : \A v \in 1..db.version[p] :
      /\ db.inbounds[i] # None
      /\ LetsIn(i, format, User(p, v))
      => v = db.version[p] /\ p \in Sequence!Range(db.mapped[i]) \ db.deleted

\* The core runs what the rows say, unless a change of users or outbounds, of a
\* disabled inbound, or a refused configuration came since its last restart.
ChangesReach == running # None /\ behind = {} => Current

\* docs/USER_MANUAL.md: "Пользователь не может подключиться без привязки к инбаундам"
\* (a user cannot connect without being assigned to inbounds).
OnlyAssignedServed ==
  running # None =>
    \A p \in Person, i \in Ids, format \in Formats :
      /\ db.inbounds[i] # None /\ running.inbounds[i] = db.inbounds[i]
      /\ LetsIn(i, format, Me(p))
      => p \in Sequence!Range(db.mapped[i])
===============================================================================
