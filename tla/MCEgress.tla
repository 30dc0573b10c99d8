------------------------------- MODULE MCEgress -------------------------------
EXTENDS Egress

\* A domain and an IPv6 address; an update may also ask for a kind that
\* nothing knows.
MCRouteChoices ==
  {[kind |-> "domain", value |-> "chat", priority |-> 50],
   [kind |-> "ip", value |-> "v6", priority |-> 60],
   [kind |-> "other", value |-> "chat", priority |-> 50]}

Geo1(kind, value, action, priority) ==
  [kind |-> kind, value |-> value, action |-> action, priority |-> priority]

\* Rules of equal and of different priority for the same country.
MCGeoChoices ==
  {Geo1("geoip", "CN", "block", 60), Geo1("geoip", "CN", "direct", 50),
   Geo1("geoip", "CN", "warp", 50),  Geo1("geosite", "ads", "proxy", 60),
   Geo1("geosite", "ads", "block", 40), Geo1("other", "ads", "allow", 50)}

MCPresets == {{[kind |-> "domain", value |-> v, priority |-> 50] : v \in {"chat", "claude"}}}

MCOutboundRows ==
  {<<>>, <<[tag |-> <<"direct", 1>>, filter |-> {}]>>,
   <<[tag |-> <<"block", 1>>, filter |-> {<<"suffix", "ads">>}]>>,
   <<[tag |-> <<"block", 1>>, filter |-> {}], [tag |-> <<"direct", 2>>, filter |-> {}]>>}

\* Chat in China and a name that only contains it, an advertisement in China,
\* an IPv6 host and its neighbour.
MCTraffic == {{<<"suffix", "chat">>, <<"part", "chat">>, <<"geoip", "CN">>},
              {<<"part", "chat">>, <<"geoip", "CN">>},
              {<<"geosite", "ads">>, <<"geoip", "CN">>},
              {<<"address", "v6">>, <<"prefix", "v6">>},
              {<<"prefix", "v6">>, <<"geoip", "CN">>}}

MCIPv6 == {"v6"}
===============================================================================
