-------------------------------- MODULE Egress --------------------------------
(***************************************************************************)
(* Where the traffic of a core leaves: the tables of WARP routes and geo   *)
(* rules under the handlers of the API, composed with the account file     *)
(* that the generators read and the geo database files.                    *)
(*                                                                         *)
(* A handler is one step here.  Rows of outbounds are given: their         *)
(* operations are in Offering.                                             *)
(*                                                                         *)
(* Sources: api/warp.go, services/warp_service.go, services/geo_service.go *)
(* and the generators (see RouteRules).                                    *)
(***************************************************************************)
EXTENDS Naturals, Sequences, FiniteSets

CONSTANTS
  Parts,        \* what a behaviour exercises: "tables", "account" or "files"
  MaxRows,      \* bound on the ids of each of the two tables
  RouteChoices, \* [kind, value, priority] of WARP routes in requests
  GeoChoices,   \* [kind, value, action, priority] of geo rules in requests
  Presets,      \* presets: sets of [kind, value, priority]
  OutboundRows, \* the rows of outbounds, in the order of their ids: the cases
  Traffic,      \* the traffic considered: sets of conditions
  IPv6, NoRow, NoAccount, Torn,
  MaxDevices, MaxTokens, MaxReleases, MaxRestarts, NoFile

VARIABLES
  part,      \* what this behaviour exercises
  routes,    \* warp_routes: a row or NoRow for each id
  rules,     \* geo_rules
  used,      \* the ids handed out in the two tables: AUTOINCREMENT
  outbounds, \* the rows of outbounds
  account, wgconf, caller, devices, tokens, current, accountRestarts,
  accountOverlap, cut,
  final, tmp, inode, update, upstream, wanted, fileRestarts, fileOverlap, raced

tables      == <<routes, rules, used>>
accountVars == <<account, wgconf, caller, devices, tokens, current, accountRestarts,
                 accountOverlap, cut>>
fileVars    == <<final, tmp, inode, update, upstream, wanted, fileRestarts, fileOverlap, raced>>
vars        == <<part, outbounds, tables, accountVars, fileVars>>

INSTANCE RouteRules

Warp == INSTANCE WarpAccount WITH restarts <- accountRestarts, overlapped <- accountOverlap

Geo == INSTANCE GeoFiles WITH restarts <- fileRestarts, overlapped <- fileOverlap

Id == 1..MaxRows

Present(table) == {i \in Id : table[i] # NoRow}

RouteRow(c, enabled) ==
  [kind |-> c.kind, value |-> c.value, priority |-> c.priority, enabled |-> enabled]

GeoRow(c, enabled) ==
  [kind |-> c.kind, value |-> c.value, action |-> c.action, priority |-> c.priority,
   enabled |-> enabled]

(***************************************************************************)
(* WARP routes.                                                            *)
(***************************************************************************)
SameRoute(r, c) == r.kind = c.kind /\ r.value = c.value

\* A kind the API does not know, or a route the core already has, is refused.
CreateWarpRoute(c) ==
  /\ used.route < MaxRows
  /\ c.kind \in {"domain", "ip", "cidr"}
  /\ \A i \in Present(routes) : ~SameRoute(routes[i], c)
  /\ used' = [used EXCEPT !.route = @ + 1]
  /\ routes' = [routes EXCEPT ![used'.route] = RouteRow(c, TRUE)]
  /\ UNCHANGED rules

\* Neither kind nor duplicates are checked.
UpdateWarpRoute(i, c) ==
  /\ i \in Present(routes)
  /\ routes' = [routes EXCEPT ![i] = RouteRow(c, @.enabled)]
  /\ UNCHANGED <<rules, used>>

DeleteWarpRoute(i) ==
  /\ i \in Present(routes)
  /\ routes' = [routes EXCEPT ![i] = NoRow]
  /\ UNCHANGED <<rules, used>>

ToggleWarpRoute(i) ==
  /\ i \in Present(routes)
  /\ routes' = [routes EXCEPT ![i].enabled = ~@]
  /\ UNCHANGED <<rules, used>>

\* The routes of a preset that the core has not yet, each with priority 50.
ApplyPreset(preset) ==
  LET new == {c \in preset : \A i \in Present(routes) : ~SameRoute(routes[i], c)} IN
  /\ new # {} /\ used.route + Cardinality(new) <= MaxRows
  /\ used' = [used EXCEPT !.route = @ + Cardinality(new)]
  /\ \E at \in [new -> (used.route + 1)..used'.route] :
       /\ \A c, o \in new : c # o => at[c] # at[o]
       /\ routes' = [i \in Id |-> IF \E c \in new : at[c] = i
                                  THEN RouteRow(CHOOSE c \in new : at[c] = i, TRUE) ELSE routes[i]]
  /\ UNCHANGED rules

(***************************************************************************)
(* Geo rules.                                                              *)
(***************************************************************************)
CreateGeoRule(c) ==
  /\ used.rule < MaxRows
  /\ c.kind \in {"geoip", "geosite"} /\ c.action \in {"proxy", "direct", "block", "warp"}
  /\ \A i \in Present(rules) :
       <<rules[i].kind, rules[i].value, rules[i].action>> # <<c.kind, c.value, c.action>>
  /\ used' = [used EXCEPT !.rule = @ + 1]
  /\ rules' = [rules EXCEPT ![used'.rule] = GeoRow(c, TRUE)]
  /\ UNCHANGED routes

UpdateGeoRule(i, c) ==
  /\ i \in Present(rules)
  /\ rules' = [rules EXCEPT ![i] = GeoRow(c, @.enabled)]
  /\ UNCHANGED <<routes, used>>

DeleteGeoRule(i) ==
  /\ i \in Present(rules)
  /\ rules' = [rules EXCEPT ![i] = NoRow]
  /\ UNCHANGED <<routes, used>>

ToggleGeoRule(i) ==
  /\ i \in Present(rules)
  /\ rules' = [rules EXCEPT ![i].enabled = ~@]
  /\ UNCHANGED <<routes, used>>
-----------------------------------------------------------------------------
Empty == [i \in Id |-> NoRow]

\* The account of a behaviour of the tables is any the file may hold.
Init ==
  /\ part \in Parts
  /\ routes = Empty /\ rules = Empty /\ used = [route |-> 0, rule |-> 0]
  /\ Geo!Init
  /\ IF part = "tables"
     THEN /\ outbounds \in OutboundRows
          /\ account \in {NoAccount, Torn, [device |-> 1, token |-> 1]}
          /\ wgconf = 0 /\ caller = [c \in Warp!Caller |-> Warp!Idle]
          /\ devices = 1 /\ tokens = 1 /\ current = 1 /\ accountRestarts = 0
          /\ accountOverlap = FALSE /\ cut = TRUE
     ELSE Warp!Init /\ outbounds = <<>>

RouteRequest ==
  \/ \E c \in RouteChoices : CreateWarpRoute(c)
  \/ \E i \in Id, c \in RouteChoices : UpdateWarpRoute(i, c)
  \/ \E i \in Id : DeleteWarpRoute(i) \/ ToggleWarpRoute(i)
  \/ \E preset \in Presets : ApplyPreset(preset)

GeoRequest ==
  \/ \E c \in GeoChoices : CreateGeoRule(c)
  \/ \E i \in Id, c \in GeoChoices : UpdateGeoRule(i, c)
  \/ \E i \in Id : DeleteGeoRule(i) \/ ToggleGeoRule(i)

Next ==
  /\ UNCHANGED <<part, outbounds>>
  /\ \/ /\ part = "tables" /\ (RouteRequest \/ GeoRequest)
        /\ UNCHANGED <<accountVars, fileVars>>
     \/ /\ part = "account" /\ Warp!Next /\ UNCHANGED <<tables, fileVars>>
     \/ /\ part = "files" /\ Geo!Next /\ UNCHANGED <<tables, accountVars>>

Spec == Init /\ [][Next]_vars
-----------------------------------------------------------------------------
(***************************************************************************)
(* What the administrator asks for: traffic of an enabled WARP route (of a *)
(* domain and what is under it, an address or a net) goes there, other     *)
(* traffic where the enabled geo rule of the highest priority says (any of *)
(* those, if several have it), and the rest to the default.                *)
(***************************************************************************)
Db == [routes |-> routes, rules |-> rules, outbounds |-> outbounds, account |-> account]

RowsInForce(table) == {table[i] : i \in Enabled(table)}

AskedCondition(route) ==
  CASE route.kind = "domain" -> {<<"suffix", route.value>>}
    [] route.kind = "ip"     -> {<<"address", route.value>>}
    [] route.kind = "cidr"   -> {<<"net", route.value>>}
    [] OTHER                 -> {}

Covered(t) == \E r \in RowsInForce(routes) : AskedCondition(r) \cap t # {}

Applying(t) == {r \in RowsInForce(rules) : GeoCondition(r) \cap t # {}}

Asked(core, t) ==
  IF AccountReadable(account) /\ Covered(t) THEN {WarpTag}
  ELSE IF Applying(t) = {} THEN {Default(core, Db)}
  ELSE {GeoTarget(core, r) : r \in {r \in Applying(t) :
          \A o \in Applying(t) : r.priority >= o.priority}}

(***************************************************************************)
(* What each core can be asked for.                                        *)
(***************************************************************************)
Injected == AccountReadable(account) /\ RowsInForce(routes) # {}

\* xray and sing-box have no outbound "block" or "proxy", and "direct" only
\* without rows of outbounds; mihomo has no "proxy"; "warp-out" is there only
\* with a readable account and an enabled route.
Exists(core, action) ==
  CASE action = "warp"  -> Injected
    [] action = "proxy" -> FALSE
    [] action = "block" -> core = "mihomo"
    [] OTHER            -> core = "mihomo" \/ outbounds = <<>>

Sound(table, kinds) == \A r \in RowsInForce(table) : r.kind \in kinds

\* xray takes whatever has a condition; sing-box needs its final outbound as
\* well, and takes neither the rows of outbounds that become rules nor the
\* WARP endpoint; both of the others need every target.
Starts(core) ==
  /\ core # "mihomo" => /\ Injected => Sound(routes, {"domain", "ip", "cidr"})
                        /\ Sound(rules, {"geoip", "geosite"})
  /\ core = "singbox" => outbounds = <<>> /\ ~Injected
  /\ core # "xray" => \A r \in RowsInForce(rules) :
                        r.kind \in {"geoip", "geosite"} => Exists(core, r.action)
  /\ core = "singbox" => \A r \in RowsInForce(rules) : Exists(core, r.action)

\* A domain takes every name with that part in xray, an IPv6 address its whole
\* /32 in mihomo.
Overreaches(core, t) ==
  /\ Injected /\ ~Covered(t)
  /\ \E r \in RowsInForce(routes) :
       \/ core = "xray" /\ r.kind = "domain" /\ <<"part", r.value>> \in t
       \/ /\ core = "mihomo" /\ r.kind = "ip" /\ r.value \in IPv6
          /\ <<"prefix", r.value>> \in t

Fallback(t) == {IF Exists("xray", r.action) THEN GeoTarget("xray", r) ELSE Default("xray", Db) :
                  r \in {r \in Applying(t) : \A o \in Applying(t) : r.priority >= o.priority}}

\* A core starts exactly with the rules it can be asked for, and then sends
\* traffic where the administrator asked, whatever the order in which rows of
\* the same priority are loaded; with two exceptions: xray sends the traffic
\* of a rule whose target does not exist to its first outbound, and a route
\* takes more than it names: of a domain in xray, of an IPv6 address in mihomo.
RulesDecide ==
  part = "tables" =>
    \A core \in Cores, w \in Orders(routes), g \in Orders(rules) :
      LET written == Rules(core, Db, w, g) IN
      /\ Accepts(core, Db, written) <=> Starts(core)
      /\ Starts(core) => \A t \in Traffic :
           LET got == Decision(core, Db, written, t) IN
           IF Overreaches(core, t) THEN got = WarpTag
           ELSE IF core = "xray" /\ Applying(t) # {} /\ ~(Injected /\ Covered(t))
                THEN got \in Fallback(t)
           ELSE got \in Asked(core, t)

AccountStands == part = "account" => Warp!AccountStands
GeoCurrent    == part = "files" => Geo!GeoCurrent
===============================================================================
