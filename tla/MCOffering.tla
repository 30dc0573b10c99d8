----------------------------- MODULE MCOffering -----------------------------
(* Instances of Offering for TLC: rows as the creation wizard makes them,     *)
(* the defaults of the protocol with the settings of transport and flow.      *)
EXTENDS Offering

CONSTANT LongOps   \* operations in the scenes with few templates

Wizard(p, name, own, flow) ==
  (IF name = "" THEN << >> ELSE "transport" :> Registry!Str(name)) @@
  (IF own THEN [k \in {"ws_path", "grpc_service_name", "h2_path", "xhttp_path"} |->
                  Registry!Str("/p")] ELSE << >>) @@
  (IF flow THEN "flow" :> Registry!Str("xtls-rprx-vision") ELSE << >>) @@
  Registry!GetProtocolDefaults(p)

Template(p, tls, cert, reality, key, cfg) ==
  [protocol |-> p, tls |-> tls, cert |-> cert, reality |-> reality,
   realityConfig |-> key, cfg |-> cfg]

States3 == {<<FALSE, FALSE>>, <<TRUE, FALSE>>, <<TRUE, TRUE>>}

Main == {"vless", "vmess", "trojan"}

\* The names the schemas offer, and those the generators know.
Names == {"websocket", "grpc", "http", "httpupgrade", "ws", "h2"}

\* Every transport with and without a path, every mix of TLS and reality; the other
\* protocols as the wizard offers them.
Wide ==
  {Template(p, t[1], t[2], r[1], r[2], Wizard(p, "", FALSE, f)) :
     p \in Main, t \in States3, r \in States3, f \in BOOLEAN}
  \cup
  {Template(p, t, t, r, r, Wizard(p, name, own, r)) :
     p \in Main, t \in BOOLEAN, r \in BOOLEAN, name \in Names, own \in BOOLEAN}
  \cup
  {Template(p, t, t, FALSE, FALSE, Wizard(p, "", FALSE, FALSE)) :
     p \in Registry!Protocol \ (Main \cup {"masque"}), t \in BOOLEAN}

\* The registry writes sing-box.
ListedFor(c) ==
  {p \in Registry!Protocol : (IF c = "singbox" THEN {c, "sing-box"} ELSE {c})
                               \cap Registry!registry[p].core # {}}

Cores == {"xray", "singbox", "mihomo"}

\* Two that differ in all that matters to users and certificates.
Typical == {Template("vless", FALSE, FALSE, TRUE, TRUE, Wizard("vless", "", FALSE, TRUE)),
            Template("trojan", TRUE, TRUE, FALSE, FALSE, Wizard("trojan", "", FALSE, FALSE))}

MCScenes ==
  {[core |-> c, files |-> f, templates |-> Typical, ops |-> LongOps] :
     c \in Cores, f \in BOOLEAN}
  \cup UNION
  {{[core |-> c, files |-> TRUE, templates |-> {t}, ops |-> 3] :
     t \in {t \in Wide : t.protocol \in ListedFor(c)}} : c \in Cores}

MCChanges ==
  {"enabled" :> FALSE, "enabled" :> TRUE, "tls" :> FALSE, "protocol" :> "vmess",
   "cfg" :> Wizard("vless", "ws", TRUE, FALSE)}

===============================================================================
