-------------------------- MODULE SubscriptionFormats --------------------------
(***************************************************************************)
(* What a subscription tells the app of a user about an inbound, in each   *)
(* of the four formats: v2ray (links), singbox, clash and isolate.  An     *)
(* entry is [transport, security, account], in the names of the format;    *)
(* no entry is written for protocols a format does not know.               *)
(*                                                                         *)
(* The clash builder exists twice, here and in                             *)
(* services/subscription_clash.go, which nothing calls any more.           *)
(*                                                                         *)
(* Sources: services/subscription/*.go, under src/backend/internal.        *)
(***************************************************************************)
EXTENDS CoreConfigs, TLC

Formats == {"v2ray", "singbox", "clash", "isolate"}

Entry(transport, security, account) ==
  [transport |-> transport, security |-> security, account |-> account]

(***************************************************************************)
(* Shared helpers                                                          *)
(***************************************************************************)
IsTLS(row) == row.tls \/ HasReality(row)

\* Once realityConfig is missing, a link says reality and no more.
AddTLSAndRealityParams(row) ==
  CASE row.reality -> IF row.realityConfig THEN "reality" ELSE "reality without a key"
    [] ~row.reality /\ row.tls -> "tls"
    [] OTHER -> "none"

TransportName(cfg) == GetStringOrDefault(cfg, "transport", "tcp")

PathKey(name) == CASE name \in {"websocket", "ws", "httpupgrade"} -> "ws_path"
                   [] name = "grpc"                            -> "grpc_service_name"
                   [] OTHER                                    -> "h2_path"

\* The path is written only for the names a builder knows.
Named(cfg, known) ==
  LET name == TransportName(cfg) IN
  Transport(name, IF name \in known THEN Get(cfg, PathKey(name)) ELSE "")

AddTransportParams(cfg) == Named(cfg, {"websocket", "grpc", "http", "httpupgrade"})

TokenOf(user) == IF user.token # "" THEN user.token ELSE user.uuid

RowPassword(row, user) == GetStringOrDefault(row.cfg, "password", user.uuid)

RowMethod(row, user) ==
  Account("", RowPassword(row, user), GetStringOrDefault(row.cfg, "method", "aes-256-gcm"), "")

WithFlow(row, user) == Account(user.uuid, "", "", Get(row.cfg, "flow"))

NoTransport == Transport("tcp", "")

(***************************************************************************)
(* v2ray                                                                   *)
(***************************************************************************)
protocolLinks == {"vless", "vmess", "trojan", "anytls", "shadowsocks", "hysteria2",
  "tuic_v4", "tuic_v5", "tuic", "naive", "naiveproxy", "xhttp", "ssr", "shadowsocksr",
  "http", "socks5", "mixed", "snell"}

LinkTransport(row) ==
  CASE row.protocol \in {"vless", "vmess", "trojan"} -> AddTransportParams(row.cfg)
    [] row.protocol = "xhttp" -> Transport("xhttp", Get(row.cfg, "path"))
    [] OTHER -> NoTransport

LinkSecurity(row) ==
  CASE row.protocol \in {"vless", "trojan", "anytls", "xhttp"} -> AddTLSAndRealityParams(row)
    [] row.protocol = "vmess" -> IF IsTLS(row) \/ row.reality THEN "tls" ELSE "none"
    [] row.protocol \in {"hysteria2", "naive", "naiveproxy"} -> "tls"
    [] row.protocol \in {"tuic_v4", "tuic_v5", "tuic"} -> IF IsTLS(row) THEN "tls" ELSE "none"
    [] OTHER -> "none"

LinkAccount(row, user) ==
  CASE row.protocol = "vless"                 -> WithFlow(row, user)
    [] row.protocol \in {"vmess", "xhttp"}    -> ById(user.uuid)
    [] row.protocol \in {"trojan", "hysteria2"} -> BySecret(user.uuid)
    [] row.protocol = "anytls"                -> BySecret(RowPassword(row, user))
    [] row.protocol = "shadowsocks"           -> RowMethod(row, user)
    [] row.protocol \in {"tuic_v4", "snell"}  -> BySecret(TokenOf(user))
    [] row.protocol \in {"tuic_v5", "tuic"}   -> Login(user.uuid, TokenOf(user))
    [] row.protocol \in {"ssr", "shadowsocksr"} -> Account("", user.uuid,
                             GetStringOrDefault(row.cfg, "method", "chacha20-poly1305"), "")
    [] OTHER                                  -> Login(user.name, user.uuid)

V2RayLink(row, user) ==
  {Entry(LinkTransport(row), LinkSecurity(row), LinkAccount(row, user)) :
     p \in protocolLinks \cap {row.protocol}}

(***************************************************************************)
(* singbox                                                                 *)
(***************************************************************************)
singboxProtocols == {"vless", "vmess", "trojan", "shadowsocks", "hysteria2", "hysteria",
  "tuic_v4", "tuic_v5", "tuic", "naive", "naiveproxy", "anytls", "http", "socks5", "mixed"}

\* buildTLSConfig: reality if the row has it, else TLS.
buildTLSConfig(row) == IF HasReality(row) THEN "reality" ELSE "tls"

SingboxSecurity(row) ==
  CASE row.protocol \in {"hysteria2", "hysteria"} -> buildTLSConfig(row)
    [] row.protocol \in {"vless", "trojan", "anytls"} /\ row.reality -> buildTLSConfig(row)
    [] row.protocol \in {"shadowsocks", "socks5", "mixed"} -> "none"
    [] OTHER -> IF IsTLS(row) THEN buildTLSConfig(row) ELSE "none"

SingboxAccount(row, user) ==
  CASE row.protocol = "vless"       -> WithFlow(row, user)
    [] row.protocol = "vmess"       -> ById(user.uuid)
    [] row.protocol = "trojan"      -> BySecret(user.uuid)
    [] row.protocol = "shadowsocks" -> RowMethod(row, user)
    [] row.protocol \in {"hysteria2", "anytls"} -> BySecret(RowPassword(row, user))
    [] row.protocol = "hysteria"    ->
         BySecret(GetStringOrDefault(row.cfg, "auth_str", user.uuid))
    [] row.protocol \in {"tuic_v4", "tuic_v5", "tuic"} -> Login(user.uuid, TokenOf(user))
    [] OTHER                        -> Login(user.name, user.uuid)

SingboxOutbound(row, user) ==
  {Entry(IF row.protocol \in {"vless", "vmess", "trojan"}
         THEN Named(row.cfg, {"ws", "grpc", "http", "httpupgrade"}) ELSE NoTransport,
         SingboxSecurity(row), SingboxAccount(row, user)) :
     p \in singboxProtocols \cap {row.protocol}}

(***************************************************************************)
(* clash                                                                   *)
(***************************************************************************)
clashProtocols == {"vless", "vmess", "trojan", "shadowsocks", "hysteria2", "tuic_v4",
  "tuic_v5", "tuic", "ssr", "shadowsocksr", "snell", "mieru", "sudoku", "trusttunnel",
  "http", "socks5", "mixed", "anytls", "hysteria"}

ClashTransport(row) ==
  CASE row.protocol = "vless" -> Named(row.cfg, {"ws", "grpc", "httpupgrade"})
    [] row.protocol = "vmess" -> Named(row.cfg, {"ws", "grpc", "h2", "httpupgrade"})
    [] OTHER                  -> NoTransport

\* trojan, tuic, hysteria and anytls are TLS by themselves.
ClashSecurity(row) ==
  CASE row.protocol = "vless" /\ HasReality(row) -> "reality"
    [] row.protocol \in {"trojan", "hysteria2", "hysteria", "tuic_v4", "tuic_v5", "tuic",
                         "anytls"} -> "tls"
    [] row.protocol \in {"vless", "vmess", "http", "socks5"} /\ IsTLS(row)
         /\ ~(row.protocol = "vless" /\ HasReality(row)) -> "tls"
    [] OTHER -> "none"

ClashAccount(row, user) ==
  CASE row.protocol = "vless"       -> WithFlow(row, user)
    [] row.protocol = "vmess"       -> ById(user.uuid)
    [] row.protocol \in {"trojan", "mieru", "trusttunnel"} -> BySecret(user.uuid)
    [] row.protocol = "shadowsocks" -> RowMethod(row, user)
    [] row.protocol \in {"hysteria2", "anytls", "sudoku"} -> BySecret(RowPassword(row, user))
    [] row.protocol \in {"tuic_v4", "snell"} -> BySecret(TokenOf(user))
    [] row.protocol \in {"tuic_v5", "tuic"}  -> Login(user.uuid, TokenOf(user))
    [] row.protocol \in {"ssr", "shadowsocksr"} -> Account("", user.uuid,
         GetStringOrDefault(row.cfg, "cipher",
           GetStringOrDefault(row.cfg, "method", "chacha20-poly1305")), "")
    [] row.protocol = "hysteria"    ->
         BySecret(GetStringOrDefault(row.cfg, "auth_str", user.uuid))
    [] OTHER                        -> Login(user.name, user.uuid)

buildClashProxy(row, user) ==
  {Entry(ClashTransport(row), ClashSecurity(row), ClashAccount(row, user)) :
     p \in clashProtocols \cap {row.protocol}}

(***************************************************************************)
(* isolate: an entry for every inbound, whatever its protocol              *)
(***************************************************************************)
buildIsolateTLS(row) ==
  CASE HasReality(row) -> "reality"
    [] ~HasReality(row) /\ (row.tls \/ row.reality) -> "tls"
    [] OTHER -> "none"

IsolateAccount(row, user) ==
  CASE row.protocol \in {"vless", "vmess"} -> WithFlow(row, user)
    [] row.protocol = "trojan"      -> BySecret(user.uuid)
    [] row.protocol = "shadowsocks" -> RowMethod(row, user)
    [] row.protocol \in {"hysteria2", "mieru", "sudoku", "trusttunnel", "anytls"} ->
         BySecret(RowPassword(row, user))
    [] row.protocol \in {"tuic_v4", "tuic_v5", "tuic"} -> Login(user.uuid, TokenOf(user))
    [] row.protocol \in {"http", "socks5", "mixed", "naive", "naiveproxy"} ->
         Login(user.name, user.uuid)
    [] row.protocol = "xhttp"       -> ById(user.uuid)
    [] row.protocol \in {"ssr", "shadowsocksr"} -> Account("", RowPassword(row, user),
         GetStringOrDefault(row.cfg, "cipher",
           GetStringOrDefault(row.cfg, "method", "chacha20-poly1305")), "")
    [] row.protocol = "snell"       -> BySecret(TokenOf(user))
    [] row.protocol = "hysteria"    ->
         BySecret(GetStringOrDefault(row.cfg, "auth_str", user.uuid))
    [] OTHER                        -> Account("", "", "", "")

IsolateInbound(row, user) ==
  {Entry(Named(row.cfg, {"websocket", "grpc", "http", "httpupgrade"}),
         buildIsolateTLS(row), IsolateAccount(row, user))}

Generate(format, row, user) ==
  CASE format = "v2ray"   -> V2RayLink(row, user)
    [] format = "singbox" -> SingboxOutbound(row, user)
    [] format = "clash"   -> buildClashProxy(row, user)
    [] format = "isolate" -> IsolateInbound(row, user)
===============================================================================
