------------------------------ MODULE CoreConfigs ------------------------------
(***************************************************************************)
(* What the three generators write for the rows of a core: for an inbound  *)
(* the endpoint the core then serves (transport, security and the accounts *)
(* it accepts; none with Mihomo), for an outbound its tag, and whether the configuration     *)
(* passes ValidateConfig.                                                  *)
(*                                                                         *)
(* A row is a record [id, protocol, tls, cert, reality, realityConfig,     *)
(* cfg]: cert says that a certificate is bound, realityConfig that the     *)
(* column is not empty, and cfg is config_json, a function from names to   *)
(* strings.  A user is [label, name, uuid, token]; label stands for        *)
(* user_<id>.  Bandwidths, masks and hosts are left out.                   *)
(*                                                                         *)
(* Sources: cores/xray/config.go, cores/singbox/config.go and              *)
(* cores/mihomo/config.go, under src/backend/internal.                     *)
(***************************************************************************)
EXTENDS Naturals, Sequences

GetStringOrDefault(cfg, key, default) ==
  IF key \in DOMAIN cfg THEN cfg[key] ELSE default

Get(cfg, key) == GetStringOrDefault(cfg, key, "")

NonEmpty(cfg, key, default) ==
  IF Get(cfg, key) = "" THEN default ELSE Get(cfg, key)

Prefix2022(method) == method \in {"2022-blake3-aes-128-gcm", "2022-blake3-aes-256-gcm",
                                  "2022-blake3-chacha20-poly1305"}

\* What a server accepts and a client presents.  id: a UUID or a user name.
Account(id, secret, method, flow) ==
  [id |-> id, secret |-> secret, method |-> method, flow |-> flow]
ById(id)         == Account(id, "", "", "")
BySecret(secret) == Account("", secret, "", "")
Login(id, secret) == Account(id, secret, "", "")

Vision(row) == IF row.reality THEN "xtls-rprx-vision" ELSE ""

HasReality(row) == row.reality /\ row.realityConfig

Each(users, F(_)) == {F(users[i]) : i \in DOMAIN users}

(***************************************************************************)
(* Transports.  A core knows some names and keeps plain TCP otherwise;     *)
(* "h2" is HTTP/2 in any spelling.                                         *)
(***************************************************************************)
Transport(network, path) == [network |-> network, path |-> path]

WsGrpcH2(cfg) ==
  CASE Get(cfg, "transport") = "ws"   -> Transport("ws", NonEmpty(cfg, "ws_path", "/ws"))
    [] Get(cfg, "transport") = "grpc" -> Transport("grpc", NonEmpty(cfg, "grpc_service_name", "grpc"))
    [] Get(cfg, "transport") = "h2"   -> Transport("h2", NonEmpty(cfg, "h2_path", "/"))
    [] OTHER                          -> Transport("tcp", "")

Endpoint(row, transport, accounts) ==
  [tag |-> <<row.protocol, row.id>>, transport |-> transport,
   security |-> IF HasReality(row) THEN "reality" ELSE IF row.tls THEN "tls" ELSE "none",
   certificate |-> row.tls /\ row.cert, accounts |-> accounts]

(***************************************************************************)
(* Xray                                                                    *)
(***************************************************************************)
XrayTransport(row) ==
  CASE row.protocol = "tun" -> Transport("tcp", "")
    [] row.protocol # "tun" /\ Get(row.cfg, "transport") = "xhttp" ->
         Transport("xhttp", NonEmpty(row.cfg, "xhttp_path", "/xhttp"))
    [] OTHER -> WsGrpcH2(row.cfg)

XrayClient(row, user) ==
  CASE row.protocol \in {"vmess", "xhttp"}       -> {ById(user.uuid)}
    [] row.protocol = "vless"                    -> {Account(user.uuid, "", "", Vision(row))}
    [] row.protocol \in {"trojan", "hysteria2"}  -> {BySecret(user.uuid)}
    [] OTHER                                     -> {}

\* With a 2022 method the password of the inbound is a new random key each time
\* the configuration is generated, and clients name no method.
RandomKey == "a random key"

XrayShadowsocks(row, user) ==
  LET method == Get(row.cfg, "method") IN
  {IF Prefix2022(method) THEN Account(RandomKey, user.uuid, method, "")
                         ELSE Account("", user.uuid, "aes-128-gcm", "")}

XrayAccounts(row, users) ==
  CASE row.protocol \in {"socks", "http"} -> Each(users, LAMBDA u : Login(u.label, u.uuid))
    [] row.protocol = "tun"               -> {}
    [] row.protocol = "shadowsocks"       -> UNION Each(users, LAMBDA u : XrayShadowsocks(row, u))
    [] OTHER                              -> UNION Each(users, LAMBDA u : XrayClient(row, u))

XrayInbound(row, users) ==
  [Endpoint(row, XrayTransport(row), XrayAccounts(row, users)) EXCEPT
     !.security = IF row.protocol = "tun" THEN "none" ELSE @]

(***************************************************************************)
(* sing-box                                                                *)
(***************************************************************************)
\* The password of the row is the server's key for the 2022 methods; users have
\* their own beside it.
SingboxShadowsocks(row, user) ==
  LET method == GetStringOrDefault(row.cfg, "method", "2022-blake3-aes-128-gcm") IN
  Account(IF Prefix2022(method) THEN Get(row.cfg, "password") ELSE "",
          user.uuid, method, "")

\* Mutant: VLESS users have no flow.
NoFlow(row, user) ==
  CASE row.protocol \in {"vmess", "vless"} -> ById(user.uuid)
    [] row.protocol \in {"trojan", "hysteria2", "tuic_v4", "anytls"} -> BySecret(user.uuid)
    [] row.protocol = "shadowsocks" -> SingboxShadowsocks(row, user)
    [] row.protocol = "tuic_v5"     ->
         Login(user.uuid, IF user.token # "" THEN user.token ELSE user.uuid)
    [] row.protocol = "naive"       -> Login(user.label, user.uuid)

SingboxUser(row, user) ==
  CASE row.protocol = "vmess"       -> ById(user.uuid)
    [] row.protocol = "vless"       -> Account(user.uuid, "", "", Vision(row))
    [] row.protocol \in {"trojan", "hysteria2", "tuic_v4", "anytls"} -> BySecret(user.uuid)
    [] row.protocol = "shadowsocks" -> SingboxShadowsocks(row, user)
    [] row.protocol = "tuic_v5"     ->
         Login(user.uuid, IF user.token # "" THEN user.token ELSE user.uuid)
    [] row.protocol = "naive"       -> Login(user.label, user.uuid)

HasUsers == {"vmess", "vless", "trojan", "shadowsocks", "hysteria2", "tuic_v4",
             "tuic_v5", "naive", "anytls"}

\* http, socks5 and mixed have one account, the row's.
RowAccount(row) ==
  IF row.protocol \in {"http", "socks5", "mixed"} /\ Get(row.cfg, "username") # ""
  THEN {Login(row.cfg["username"], Get(row.cfg, "password"))}
  ELSE {}

buildUsers(row, users) ==
  IF row.protocol \in HasUsers THEN Each(users, LAMBDA u : SingboxUser(row, u)) ELSE {}

SingboxInbound(row, users) ==
  Endpoint(row, WsGrpcH2(row.cfg), buildUsers(row, users) \cup RowAccount(row))

(***************************************************************************)
(* Mihomo.  What its generator makes of an inbound, with users and all, is *)
(* put into the list `proxies`, beside the outbounds: upstreams of Mihomo's *)
(* own.  It writes no listeners, so no row has an endpoint.                *)
(***************************************************************************)
MihomoInbound == {}

(***************************************************************************)
(* The whole configuration: all inbounds and outbounds of the core,        *)
(* enabled or not, with the users mapped to each inbound.                  *)
(***************************************************************************)
\* The endpoints the core opens for an inbound: one, or none.
ConvertInbound(core, row, users) ==
  CASE core = "xray"    -> {XrayInbound(row, users)}
    [] core = "singbox" -> {SingboxInbound(row, users)}
    [] core = "mihomo"  -> MihomoInbound

\* sing-box turns block and dns into rules, which have no tag.
OutboundTags(core, outbounds) ==
  {<<o.protocol, o.id>> : o \in {o \in outbounds :
     core = "singbox" => o.protocol \notin {"block", "dns"}}}

\* One name space for both: inbound 1 and outbound 1 of a protocol clash.
TagsDistinct(inbounds, tags) == {<<r.protocol, r.id>> : r \in inbounds} \cap tags = {}

\* The inbound of the API is there whatever the rows are; mihomo counts proxies.
AtLeastOne(core, inbounds, tags) ==
  CASE core = "xray"    -> TRUE
    [] core = "singbox" -> inbounds # {}
    [] core = "mihomo"  -> inbounds # {} \/ tags # {}

\* Certificate and key of an inbound with plain TLS must be there, not empty, and
\* belong together; files says that they are and do.
CertFilesFound(core, inbounds, files) ==
  \A r \in inbounds :
    /\ core \in {"xray", "singbox"}
    /\ r.tls /\ r.cert /\ ~HasReality(r)
    /\ core = "xray" => r.protocol # "tun"
    => files

ValidateConfig(core, inbounds, outbounds, files) ==
  LET tags == OutboundTags(core, outbounds) IN
  /\ AtLeastOne(core, inbounds, tags)
  /\ TagsDistinct(inbounds, tags)
  /\ CertFilesFound(core, inbounds, files)
===============================================================================
