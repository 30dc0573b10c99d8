------------------------------ MODULE RouteRules ------------------------------
(***************************************************************************)
(* Where a core sends traffic: the outbounds and rules that GenerateConfig *)
(* appends for the rows of outbounds, WARP routes and geo rules, and what  *)
(* the core makes of them.                                                 *)
(*                                                                         *)
(* Traffic is the set of conditions it meets, pairs such as                *)
(* <<"suffix", d>>, <<"part", d>>, <<"address", a>> or <<"geoip", c>>.  A  *)
(* rule [if, to] takes the traffic that meets one of its conditions, and   *)
(* the first such rule decides.  A row of outbounds is [tag, filter], with *)
(* the conditions in its ConfigJSON.  A tag is <<protocol, id>> for a row  *)
(* and <<name, 0>> for what the generator adds.                            *)
(*                                                                         *)
(* Sources: cores/warp_integration.go, cores/geo_integration.go and        *)
(* GenerateConfig in cores/{xray,singbox,mihomo}/config.go.                *)
(***************************************************************************)
EXTENDS Naturals, Sequences

Sequence == INSTANCE SequencesExt

CONSTANTS
  IPv6,      \* the resource values that are IPv6 addresses
  NoRow,     \* an id without a row
  NoAccount, \* there is no account file
  Torn       \* the account file was truncated and not yet written

Cores     == {"xray", "singbox", "mihomo"}
Tag(name) == <<name, 0>>
WarpTag   == Tag("warp-out")

\* The WireGuard outbounds: their tags and the names of their fields.
XrayWARPOutbound == [tag |-> WarpTag, fields |-> {"secretKey", "address", "peers", "mtu"}]

SingboxWARPOutbound ==
  [tag |-> WarpTag, fields |-> {"type", "tag", "server", "server_port", "local_address",
                                "private_key", "peer_public_key", "mtu"}]

MihomoWARPProxy ==
  [tag |-> WarpTag, fields |-> {"name", "type", "server", "port", "private-key", "public-key",
                                "udp", "mtu", "ip", "ipv6"}]

WARPOutbound(core) ==
  CASE core = "xray"    -> XrayWARPOutbound
    [] core = "singbox" -> SingboxWARPOutbound
    [] core = "mihomo"  -> MihomoWARPProxy

(***************************************************************************)
(* Loading: WHERE is_enabled ORDER BY priority DESC.  Rows of the same     *)
(* priority come in any order.                                             *)
(***************************************************************************)
Enabled(table) == {i \in DOMAIN table : table[i] # NoRow /\ table[i].enabled}

\* Mutant: rows in the order of their ids.
OrdersById(table) ==
  {s \in Sequence!SetToSeqs(Enabled(table)) : \A i, j \in DOMAIN s : i < j => s[i] < s[j]}

Orders(table) ==
  {s \in Sequence!SetToSeqs(Enabled(table)) :
     \A i, j \in DOMAIN s : i < j => table[s[i]].priority >= table[s[j]].priority}

Loaded(table, order) == [n \in DOMAIN order |-> table[order[n]]]

\* loadWARPAccount: a file that cannot be read counts as none.
AccountReadable(account) == account \notin {NoAccount, Torn}

LoadWARPOutbound(account, routes) == AccountReadable(account) /\ Enabled(routes) # {}

(***************************************************************************)
(* The conditions of a row.  A kind that no case names leaves none.  A     *)
(* domain is written bare for xray, which finds it in any part of a name,  *)
(* and as a suffix for the others.  An address gets the length 32 in       *)
(* sing-box and mihomo, whatever its family: for IPv6 that is a prefix     *)
(* shared with others.                                                     *)
(***************************************************************************)
Slash32(value) == IF value \in IPv6 THEN <<"prefix", value>> ELSE <<"address", value>>

XrayWARPCondition(route) ==
  CASE route.kind = "domain" -> {<<"part", route.value>>}
    [] route.kind = "ip"     -> {<<"address", route.value>>}
    [] route.kind = "cidr"   -> {<<"net", route.value>>}
    [] OTHER                 -> {}

SingboxWARPCondition(route) ==
  CASE route.kind = "domain" -> {<<"suffix", route.value>>}
    [] route.kind = "ip"     -> {Slash32(route.value)}
    [] route.kind = "cidr"   -> {<<"net", route.value>>}
    [] OTHER                 -> {}

MihomoWARPCondition(route) == SingboxWARPCondition(route)

WARPCondition(core, route) ==
  CASE core = "xray"    -> XrayWARPCondition(route)
    [] core = "singbox" -> SingboxWARPCondition(route)
    [] core = "mihomo"  -> MihomoWARPCondition(route)

GeoCondition(rule) ==
  IF rule.kind \in {"geoip", "geosite"} THEN {<<rule.kind, rule.value>>} ELSE {}

mapGeoAction(action) ==
  CASE action = "block" -> Tag("block")
    [] action = "warp"  -> WarpTag
    [] action = "proxy" -> Tag("proxy")
    [] OTHER            -> Tag("direct")

MihomoTag(tag) ==
  CASE tag = Tag("direct") -> Tag("DIRECT")
    [] tag = Tag("block")  -> Tag("REJECT")
    [] OTHER               -> tag

GeoTarget(core, rule) ==
  IF core = "mihomo" THEN MihomoTag(mapGeoAction(rule.action)) ELSE mapGeoAction(rule.action)

(***************************************************************************)
(* The rules.  mihomo gets none for a row without condition.               *)
(***************************************************************************)
Rule(if, to) == [if |-> if, to |-> to]

WARPRules(core, routes) ==
  [n \in DOMAIN routes |-> Rule(WARPCondition(core, routes[n]), WarpTag)]

GeoRules(core, rules) ==
  [n \in DOMAIN rules |-> Rule(GeoCondition(rules[n]), GeoTarget(core, rules[n]))]

\* The members of list that are in S (SelectSeq, as a recursive function).
Chosen(list, S) ==
  LET kept[n \in 0..Len(list)] ==
        IF n = 0 THEN << >>
        ELSE IF list[n] \in S THEN Append(kept[n - 1], list[n]) ELSE kept[n - 1]
  IN  kept[Len(list)]

WithCondition(rules) == Chosen(rules, {r \in Sequence!ToSet(rules) : r.if # {}})

\* sing-box gets a rule with the protocol as its action for these rows, and
\* no outbound.
IsAction(core, row) == core = "singbox" /\ row.tag[1] \in {"block", "dns"}

RowRules(core, outbounds) ==
  LET rows == Chosen(outbounds, {r \in Sequence!ToSet(outbounds) : IsAction(core, r)})
  IN  [n \in DOMAIN rows |-> Rule(rows[n].filter, Tag(rows[n].tag[1]))]

Written(core, rules) == IF core = "mihomo" THEN WithCondition(rules) ELSE rules

\* d is [routes, rules, outbounds, account], w and g orders of its two tables.
RoutingRules(core, d, w, g) ==
  (IF LoadWARPOutbound(d.account, d.routes) THEN WARPRules(core, Loaded(d.routes, w)) ELSE <<>>)
  \o GeoRules(core, Loaded(d.rules, g))

Rules(core, d, w, g) ==
  Written(core, RowRules(core, d.outbounds) \o RoutingRules(core, d, w, g))

\* The tags of rows; without any, xray and sing-box get a direct outbound.
RowTags(core, outbounds) ==
  LET rows == Chosen(outbounds, {r \in Sequence!ToSet(outbounds) : ~IsAction(core, r)})
  IN  IF core # "mihomo" /\ rows = <<>> THEN <<Tag("direct")>>
      ELSE [n \in DOMAIN rows |-> rows[n].tag]

OutboundTags(core, d) ==
  RowTags(core, d.outbounds)
  \o (IF LoadWARPOutbound(d.account, d.routes) THEN <<WARPOutbound(core).tag>> ELSE <<>>)

\* DIRECT and REJECT are mihomo's own.
Known(core, d) ==
  Sequence!ToSet(OutboundTags(core, d))
  \cup (IF core = "mihomo" THEN {Tag("DIRECT"), Tag("REJECT")} ELSE {})

\* xray sends the rest to its first outbound, sing-box to route.final, and
\* mihomo gets the rule MATCH,DIRECT.
Default(core, d) ==
  CASE core = "xray"    -> OutboundTags(core, d)[1]
    [] core = "singbox" -> Tag("direct")
    [] core = "mihomo"  -> Tag("DIRECT")

(***************************************************************************)
(* What the cores make of it: they refuse a rule without condition, and    *)
(* all but xray refuse one whose target does not exist; xray sends its     *)
(* traffic to the first outbound.  sing-box knows no action "block" or     *)
(* "dns", and refuses an endpoint with a field it does not know; the       *)
(* others pass over such fields.                                           *)
(***************************************************************************)
EndpointFields == {"type", "tag", "system", "name", "mtu", "address", "private_key",
                   "listen_port", "peers", "udp_timeout", "workers"}

Accepts(core, d, rules) ==
  /\ \A n \in DOMAIN rules : rules[n].if # {}
  /\ core # "xray" => /\ \A n \in DOMAIN rules : rules[n].to \in Known(core, d)
                      /\ Default(core, d) \in Known(core, d)
  /\ core = "singbox" /\ LoadWARPOutbound(d.account, d.routes) =>
       WARPOutbound(core).fields \subseteq EndpointFields

Decision(core, d, rules, traffic) ==
  LET fits == {n \in DOMAIN rules : rules[n].if \cap traffic # {}}
      to   == rules[Sequence!Min(fits)].to
  IN  IF fits # {} /\ to \in Known(core, d) THEN to ELSE Default(core, d)
===============================================================================
