--------------------------- MODULE ProtocolRegistry ---------------------------
(***************************************************************************)
(* The registry of protocol schemas: which protocols exist, which cores    *)
(* list them, in which direction, and which parameters their configuration *)
(* has; the validation of a configuration against its schema, and the      *)
(* defaults the creation wizard starts from.                               *)
(*                                                                         *)
(* A JSON value is a record of its type and, where the schema looks at it, *)
(* its value.  Parameters that are optional, free and of no interest to a  *)
(* generator (bandwidths, windows, the options of TUN) are left out.       *)
(*                                                                         *)
(* Sources: protocol/protocols.go, registry.go, validation.go and          *)
(* generators.go, api/protocols.go, under src/backend/internal.            *)
(***************************************************************************)
EXTENDS Integers, Sequences, FiniteSets

Json(type, value) == [type |-> type, value |-> value]
Str(value)        == Json("string", value)

(***************************************************************************)
(* Parameters: their type, whether they are required, the values allowed   *)
(* ({}: any), the function that generates one, and the default.            *)
(***************************************************************************)
Parameter(type, required, options, gen, default) ==
  [type |-> type, required |-> required, options |-> options, gen |-> gen,
   default |-> default]

NoDefault == Json("none", "")

Text              == Parameter("string", FALSE, {}, "", NoDefault)
Required(gen)     == Parameter("string", TRUE, {}, gen, NoDefault)
RequiredUuid      == Parameter("uuid", TRUE, {}, "generate_uuid_v4", NoDefault)
Select(options, default) ==
  Parameter("select", FALSE, options, "", Str(default))
Flag(default)     == Parameter("boolean", FALSE, {}, "", Json("boolean", default))
Number(options, default) ==
  Parameter("integer", FALSE, options, "", Json("integer", default))

\* The parameters of two schemas, or of one and what is common to several.
With(params, others) ==
  [key \in DOMAIN params \cup DOMAIN others |->
     IF key \in DOMAIN params THEN params[key] ELSE others[key]]

Password == [password |-> Required("generate_password_16")]
Login    == [username |-> Text, password |-> Text]
Uuid     == [uuid |-> RequiredUuid]

CongestionControl ==
  [congestion_control |-> Select({"cubic", "new_reno", "bbr"}, "bbr")]

\* The QUIC settings vmess, vless, trojan and hysteria2 share.
Finalmask ==
  [finalmask_enabled    |-> Flag(FALSE),
   finalmask_congestion |-> Select({"", "bbr", "cubic", "new_reno"}, "")]

Methods2022 == {"2022-blake3-aes-128-gcm", "2022-blake3-aes-256-gcm",
                "2022-blake3-chacha20-poly1305"}
MethodsAead == {"aes-128-gcm", "aes-256-gcm", "chacha20-ietf-poly1305",
                "xchacha20-ietf-poly1305"}
Methods     == Methods2022 \cup MethodsAead \cup {"none", "plain"}

(***************************************************************************)
(* Schemas, in the order they are registered.                              *)
(***************************************************************************)
Schema(protocol, core, direction, tls, parameters, transport) ==
  [protocol |-> protocol, core |-> core, direction |-> direction, tls |-> tls,
   parameters |-> parameters, transport |-> transport]

NoParameters == << >>
AllCores  == {"sing-box", "xray", "mihomo"}
V2Ray     == {"websocket", "grpc", "http", "httpupgrade"}
Plain(protocol, core, direction, parameters) ==
  Schema(protocol, core, direction, FALSE, parameters, {})
Tls(protocol, core, direction, parameters) ==
  Schema(protocol, core, direction, TRUE, parameters, {})

Http   == Plain("http", AllCores, "both", Login)
Socks5 == Plain("socks5", AllCores, "both", With(Login, [udp |-> Flag(TRUE)]))
Mixed  == Plain("mixed", {"sing-box", "mihomo"}, "inbound", Login)

Shadowsocks == Schema("shadowsocks", AllCores, "both", FALSE, With(Password,
  [method |-> [Select(Methods, "2022-blake3-aes-128-gcm") EXCEPT !.required = TRUE]]),
  {"websocket", "grpc"})

Vmess == Schema("vmess", AllCores, "both", FALSE, With(With(Uuid, Finalmask),
  [alter_id |-> Number(0..65535, 0),
   cipher   |-> Select({"auto", "aes-128-gcm", "chacha20-poly1305", "none"}, "auto")]),
  V2Ray)

Vless == Schema("vless", AllCores, "both", FALSE, With(With(Uuid, Finalmask),
  [flow |-> Select({"", "xtls-rprx-vision"}, "")]), V2Ray)

Trojan == Schema("trojan", AllCores, "both", TRUE, With(Password, Finalmask),
                 {"websocket", "grpc"})

MaxRate == 1000   \* bound on bandwidths, which the schema leaves open

Rates == [up_mbps |-> Number(1..MaxRate, 100), down_mbps |-> Number(1..MaxRate, 100)]

AuthStr == [auth_str |-> Required("generate_password_16")]

Trusttunnel == Plain("trusttunnel", {"mihomo"}, "both", Password)
Hysteria    == Tls("hysteria", {"singbox", "mihomo"}, "both", With(AuthStr, Rates))

Hysteria2 == Tls("hysteria2", AllCores, "both", With(With(Password, Finalmask),
  [obfs_type          |-> Select({"", "salamander"}, ""),
   congestion_control |-> Select({"", "cubic", "bbr", "new_reno"}, ""),
   brutal_mode |-> Flag(FALSE), force_brutal |-> Flag(FALSE),
   up_mbps |-> Number(0..MaxRate, 0), down_mbps |-> Number(0..MaxRate, 0),
   congestion |-> Select({"", "bbr", "cubic", "new_reno"}, "")]))

TuicV4 == Tls("tuic_v4", {"sing-box", "mihomo"}, "both",
  With([token |-> Required("generate_base64_token_32")], CongestionControl))

TuicV5 == Tls("tuic_v5", {"sing-box", "mihomo"}, "both",
  With(With(Uuid, Password), CongestionControl))

Anytls == Tls("anytls", {"singbox"}, "both",
  [password       |-> Required("generate_base64_token_32"),
   padding_scheme |-> Parameter("array", FALSE, {}, "", NoDefault)])

Redirect == Plain("redirect", {"sing-box", "mihomo"}, "inbound", NoParameters)

Xhttp == Plain("xhttp", {"xray"}, "both", With(Uuid,
  [path |-> Parameter("string", FALSE, {}, "generate_random_path", Str("/xhttp")),
   mode |-> Select({"auto", "packet-up", "stream-up"}, "auto")]))

Tun == Plain("tun", {"xray"}, "inbound",
  [mtu   |-> Number(576..9000, 1500),
   stack |-> Select({"system", "gvisor"}, "system")])

Mieru == Plain("mieru", {"mihomo"}, "both",
  With(Password, [transport |-> Select({"TCP", "UDP"}, "TCP")]))

Sudoku == Plain("sudoku", {"mihomo"}, "both", Password)

Shadowsocksr == Plain("shadowsocksr", {"mihomo"}, "both", With(Password,
  [cipher |-> [Select({"aes-128-cfb", "aes-256-cfb", "chacha20", "chacha20-ietf", "rc4-md5"},
                      "aes-256-cfb") EXCEPT !.required = TRUE],
   obfs   |-> Select({"plain", "http_simple", "http_post", "tls1.2_ticket_auth"}, "plain")]))

Snell == Plain("snell", {"mihomo"}, "both",
  [psk     |-> Required("generate_base64_token_32"),
   version |-> Select({"2", "3"}, "3"),
   obfs    |-> Select({"", "tls", "http"}, "")])

\* Anytls is registered twice.
registerInboundProtocols == <<
  Http, Socks5, Mixed, Shadowsocks, Vmess, Vless, Trojan, Trusttunnel, Hysteria, Hysteria2,
  TuicV4, TuicV5, Anytls, Redirect, Xhttp, Tun, Mieru, Anytls, Sudoku, Shadowsocksr, Snell >>

Direct      == Plain("direct", AllCores, "outbound", NoParameters)
Block       == Plain("block", AllCores, "outbound", NoParameters)
Dns         == Plain("dns", AllCores, "outbound", NoParameters)
HysteriaOut == Tls("hysteria", AllCores, "outbound", With(AuthStr, Rates))
Tor         == Plain("tor", {"sing-box"}, "outbound", NoParameters)
Masque      == Tls("masque", {"mihomo"}, "outbound", With(Login, [url |-> Required("")]))

registerOutboundProtocols == <<Direct, Block, Dns, HysteriaOut, Tor, Masque>>

(***************************************************************************)
(* The registry is a map: of two schemas of one name the later one stays.  *)
(***************************************************************************)
Register(schemas) ==
  [p \in {schemas[i].protocol : i \in DOMAIN schemas} |->
     schemas[CHOOSE i \in DOMAIN schemas :
               /\ schemas[i].protocol = p
               /\ \A j \in DOMAIN schemas : schemas[j].protocol = p => j <= i]]

registry == Register(registerInboundProtocols \o registerOutboundProtocols)
Protocol == DOMAIN registry

GetSchema(name) == registry[name]

ValidateProtocolForCore(protocol, core) ==
  protocol \in Protocol /\ core \in registry[protocol].core

GetProtocolsByCoreAndDirection(core, direction) ==
  {p \in Protocol : /\ core \in registry[p].core
                    /\ direction # "" => registry[p].direction \in {direction, "both"}}

(***************************************************************************)
(* Validation.  cfg is the object in config_json, a function from names to *)
(* JSON values; unknown names are allowed.                                 *)
(***************************************************************************)
Accepts(type) ==
  CASE type \in {"string", "select", "uuid"} -> {"string"}
    [] type = "array"                        -> {"array", "string"}
    [] OTHER                                 -> {type}

validateParameterValue(value, param) ==
  /\ value.type \in Accepts(param.type)
  /\ param.options # {} =>
       \/ value.value \in param.options
       \/ param.type \in {"string", "select"} /\ value.value = ""

validateAgainstSchema(cfg, schema) ==
  /\ \A key \in DOMAIN cfg \cap DOMAIN schema.parameters :
       validateParameterValue(cfg[key], schema.parameters[key])
  /\ {name \in DOMAIN schema.parameters : schema.parameters[name].required}
       \subseteq DOMAIN cfg

\* An empty config_json (no object at all) is valid, and so is any object of a
\* protocol without a schema.
ValidateConfigJSON(protocol, cfg) ==
  protocol \in Protocol => validateAgainstSchema(cfg, registry[protocol])

(***************************************************************************)
(* Defaults of the creation wizard: generated values, else the default.    *)
(***************************************************************************)
Generators == {"generate_uuid_v4", "generate_password_8", "generate_password_16",
               "generate_password_32", "generate_base64_token_32",
               "generate_base64_token_44", "generate_random_path",
               "generate_short_id_8"}

AutoGenerate(gen) == Str(gen)   \* a fresh value: one per function is enough

Offered(param) == param.gen \in Generators \/ (param.gen = "" /\ param.default.type # "none")

GetProtocolDefaults(name) ==
  LET params == registry[name].parameters
  IN  [key \in {k \in DOMAIN params : Offered(params[k])} |->
         IF params[key].gen # "" THEN AutoGenerate(params[key].gen)
                                 ELSE params[key].default]
===============================================================================
