---------------------------- MODULE Offering_proofs ----------------------------
(***************************************************************************)
(* Proofs about whom a core lets in, for any users, inbounds, outbounds,   *)
(* settings and bounds.  ChangesReach is inductive as it stands: a step    *)
(* loads what the rows say, or records why it did not.  NobodyElse follows *)
(* from three facts: the core knows the users mapped to an inbound that    *)
(* are not deleted and no others; an account it has shows a secret of one  *)
(* of them; and no entry shows a secret of anybody but the user it is for. *)
(*                                                                         *)
(* WorksExactly is a fact about the generators, of every row a user can be *)
(* told of: what an entry says and what the core has are compared part by  *)
(* part (transport, security, account), protocol by protocol, and the      *)
(* parts put together.  That all rows are such rows is inductive: an       *)
(* inbound's settings pass a schema, which asks for the passwords.         *)
(***************************************************************************)
EXTENDS Offering, FiniteSetTheorems, WellFoundedInduction, TLAPS

Kinds == {" uuid ", " token "}

IsSecret(x) == \E p \in Person, kind \in Kinds, v \in Nat : x = Secret(p, kind, v)

\* The strings of a config_json.
Words(cfg) == {Strings(cfg)[k] : k \in DOMAIN Strings(cfg)}
Public(cfg) == \A x \in Words(cfg) : ~IsSecret(x)

\* Secrets are drawn at random: no two are the same, and none is a name, the
\* empty string, or written in the settings of an inbound.
SecretsDiffer ==
  \A p, q \in Person, j, k \in Kinds, v, w \in Nat :
    Secret(p, j, v) = Secret(q, k, w) => p = q /\ v = w

SecretsRandom == ~IsSecret("") /\ \A p \in Person : ~IsSecret(p)

Requests ==
  /\ \A s \in Scenes : /\ s.core \in {"xray", "singbox", "mihomo"}
                       /\ \A t \in s.templates : Public(t.cfg)
  /\ \A c \in Changes : /\ "cfg" \in DOMAIN c => Public(c["cfg"])
                        /\ "enabled" \in DOMAIN c => c["enabled"] \in BOOLEAN

OfferingParameters == IsFiniteSet(Person) /\ SecretsDiffer /\ SecretsRandom /\ Requests

-----------------------------------------------------------------------------
(* The core runs what the rows say.                                        *)

LEMMA Started ==
  ASSUME NEW d, Start(d) \/ RestartIfRunning(d), db' = d
  PROVE  ChangesReach'
<1>1. CASE Start(d)
  BY <1>1 DEF Start, Regenerated, ChangesReach, Current
<1>2. CASE running = None /\ Regenerate(d)
  BY <1>2 DEF Regenerate, ChangesReach
<1> QED
  BY <1>1, <1>2 DEF RestartIfRunning

LEMMA InboundDeleted ==
  ASSUME NEW d, NEW i, OnInboundDeleted(d, i), db' = d
  PROVE  ChangesReach'
BY Started DEF OnInboundDeleted, ChangesReach

LEMMA InboundUpdated ==
  ASSUME NEW d, NEW i, NEW wasEnabled \in BOOLEAN, d.inbounds[i].enabled \in BOOLEAN,
         OnInboundUpdated(d, i, wasEnabled), db' = d
  PROVE  ChangesReach'
<1>1. CASE OnInboundCreated(d)
  BY <1>1, Started DEF OnInboundCreated
<1>2. CASE OnInboundDeleted(d, i)
  BY <1>2, InboundDeleted
<1>3. CASE RestartIfRunning(d)
  BY <1>3, Started
<1>4. CASE behind' = behind \cup {"disabled"}
  BY <1>4 DEF ChangesReach
<1> QED
  BY <1>1, <1>2, <1>3, <1>4 DEF OnInboundUpdated

-----------------------------------------------------------------------------
(* Lists without some of their members.                                    *)

\* Induction, of a set instead of a predicate.
LEMMA AllNumbers ==
  ASSUME NEW K, 0 \in K, \A k \in Nat : k \in K => k + 1 \in K
  PROVE  Nat \subseteq K
<1> DEFINE R == OpToRel(<, Nat)
           B == Nat \ K
<1>1. IsWellFoundedOn(R, Nat)
  BY NatLessThanWellFounded
<1>2. \A x, y \in Nat : x < y => <<x, y>> \in R
  BY DEF OpToRel
<1> HIDE DEF R
<1>3. ASSUME B # {}
      PROVE  FALSE
  <2>1. PICK b \in B : \A u \in B : ~(<<u, b>> \in R)
    BY <1>1, <1>3, WFMin
  <2>2. b # 0 /\ b \in Nat
    OBVIOUS
  <2>3. b - 1 \in Nat /\ b - 1 < b /\ b - 1 + 1 = b
    BY <2>2
  <2>4. b - 1 \in B
    BY <2>3
  <2> QED
    BY <1>2, <2>1, <2>2, <2>3, <2>4
<1> QED
  BY <1>3

\* What is kept of the first n, from what is kept of one less.
KeptOf(list, people, it, n) ==
  IF n = 0 THEN << >>
  ELSE IF list[n] \in people THEN it[n - 1] ELSE Append(it[n - 1], list[n])

Kept(list, people, it) == [n \in 0..Len(list) |-> KeptOf(list, people, it, n)]

LEMMA KeptExists ==
  ASSUME NEW list, Len(list) \in Nat, NEW people
  PROVE  \E it : it = Kept(list, people, it)
<1> DEFINE Solves(g, k) == \A n \in 0..Len(list) : n <= k => g[n] = KeptOf(list, people, g, n)
           K == {k \in Nat : \E g : Solves(g, k)}
<1>1. 0 \in K
  <2>1. PICK g : g = [n \in 0..Len(list) |-> << >>]
    OBVIOUS
  <2>2. Solves(g, 0)
    BY <2>1 DEF KeptOf
  <2> QED
    BY <2>2
<1>2. ASSUME NEW k \in Nat, k \in K
      PROVE  k + 1 \in K
  <2>1. PICK g : Solves(g, k)
    BY <1>2
  <2>2. PICK e : e = [n \in 0..Len(list) |-> IF n <= k THEN g[n] ELSE KeptOf(list, people, g, n)]
    OBVIOUS
  <2>3. ASSUME NEW n \in 0..Len(list), n <= k + 1
        PROVE  e[n] = KeptOf(list, people, e, n)
    <3>1. e[n] = KeptOf(list, people, g, n)
      BY <2>1, <2>2
    <3>2. n # 0 => n - 1 \in 0..Len(list) /\ n - 1 <= k
      BY <2>3
    <3>3. n # 0 => e[n - 1] = g[n - 1]
      BY <2>2, <3>2
    <3> QED
      BY <3>1, <3>3 DEF KeptOf
  <2>4. Solves(e, k + 1) /\ k + 1 \in Nat
    BY <2>3
  <2> QED
    BY <2>4
<1>3. Nat \subseteq K
  <2> HIDE DEF K
  <2> QED
    BY <1>1, <1>2, AllNumbers
<1>4. PICK g : Solves(g, Len(list))
  BY <1>3
<1>5. PICK it : it = [n \in 0..Len(list) |-> g[n]]
  OBVIOUS
<1>6. \A n \in 0..Len(list) : it[n] = KeptOf(list, people, it, n)
  BY <1>4, <1>5 DEF KeptOf
<1>7. it = Kept(list, people, it)
  BY <1>5, <1>6 DEF Kept
<1> QED
  BY <1>7

\* Who is in the list that is left was in the list, and is not one of those
\* left out.
LEMMA WithoutFacts ==
  ASSUME NEW S, NEW list \in Seq(S), NEW people
  PROVE  /\ Without(list, people) \in Seq(S)
         /\ \A n \in DOMAIN Without(list, people) :
              /\ Without(list, people)[n] \notin people
              /\ \E m \in DOMAIN list : list[m] = Without(list, people)[n]
<1> DEFINE From == {w \in Seq(S) : \A n \in DOMAIN w : /\ w[n] \notin people
                                                       /\ \E m \in DOMAIN list : list[m] = w[n]}
<1>1. PICK a : a = CHOOSE it : it = Kept(list, people, it)
  OBVIOUS
<1>2. Len(list) \in Nat /\ DOMAIN list = 1..Len(list)
  OBVIOUS
<1>3. a = Kept(list, people, a)
  BY <1>1, <1>2, KeptExists
<1>4. Without(list, people) = a[Len(list)]
  BY <1>1 DEF Without, Kept, KeptOf
<1> DEFINE K == {k \in Nat : k <= Len(list) => a[k] \in From}
<1>5. 0 \in K
  BY <1>2, <1>3 DEF Kept, KeptOf
<1>6. ASSUME NEW k \in Nat, k \in K
      PROVE  k + 1 \in K
  <2>1. SUFFICES ASSUME k + 1 <= Len(list)
                 PROVE  a[k + 1] \in From
    OBVIOUS
  <2>2. k \in 0..Len(list) /\ k + 1 \in 1..Len(list) /\ k + 1 \in 0..Len(list) /\ k + 1 # 0 /\ k + 1 - 1 = k
    BY <1>2, <2>1
  <2>3. a[k] \in From
    BY <1>6, <2>2
  <2>4. a[k + 1] = IF list[k + 1] \in people THEN a[k] ELSE Append(a[k], list[k + 1])
    <3>1. \A n \in 0..Len(list) : a[n] = KeptOf(list, people, a, n)
      BY <1>3 DEF Kept
    <3> QED
      BY <2>2, <3>1 DEF KeptOf
  <2>5. CASE list[k + 1] \notin people
    <3>1. PICK w : w = a[k]
      OBVIOUS
    <3>2. PICK x : x = list[k + 1]
      OBVIOUS
    <3>3. x \in S /\ w \in Seq(S)
      BY <2>2, <2>3, <3>1, <3>2
    <3>4. Append(w, x) \in Seq(S)
      BY <3>3
    <3>5. ASSUME NEW n \in DOMAIN Append(w, x)
          PROVE  Append(w, x)[n] \notin people /\ \E m \in DOMAIN list : list[m] = Append(w, x)[n]
      <4>1. (n \in DOMAIN w /\ Append(w, x)[n] = w[n]) \/ Append(w, x)[n] = x
        BY <3>3, <3>5
      <4> QED
        BY <1>2, <2>2, <2>3, <2>5, <3>1, <3>2, <4>1
    <3> QED
      BY <2>4, <2>5, <3>1, <3>2, <3>4, <3>5
  <2> QED
    BY <2>3, <2>4, <2>5
<1>7. Nat \subseteq K
  <2> HIDE DEF K
  <2> QED
    BY <1>5, <1>6, AllNumbers
<1>8. a[Len(list)] \in From
  BY <1>2, <1>7
<1> QED
  BY <1>4, <1>8

LEMMA AddedFacts ==
  ASSUME NEW S, NEW list \in Seq(S), NEW people \in Seq(S)
  PROVE  Added(list, people) \in Seq(S)
BY WithoutFacts DEF Added

-----------------------------------------------------------------------------
(* Accounts.                                                               *)

\* A setting is written in the row, or the default.
LEMMA SettingFrom ==
  ASSUME NEW cfg, NEW key, NEW default
  PROVE  /\ GetStringOrDefault(cfg, key, default) \in {default} \cup {cfg[k] : k \in DOMAIN cfg}
         /\ Get(cfg, key) \in {""} \cup {cfg[k] : k \in DOMAIN cfg}
BY DEF GetStringOrDefault, Get

\* What a user shows to get in.
Shows(user, a) == a.secret \in {user.uuid, user.token} \/ (a.secret = "" /\ a.id = user.uuid)

HasOne(users) == users # << >> => 1 \in DOMAIN users

\* An account of Xray is of a user.
LEMMA XrayUsers ==
  ASSUME NEW row, NEW users, NEW a \in XrayAccounts(row, users)
  PROVE  \E n \in DOMAIN users : Shows(users[n], a)
<1>1. CASE row.protocol \in {"socks", "http"}
  <2>1. PICK n \in DOMAIN users : a = Login(users[n].label, users[n].uuid)
    BY <1>1 DEF XrayAccounts, Each
  <2> QED
    BY <2>1 DEF Account, ById, BySecret, Login, Shows
<1>2. CASE row.protocol = "shadowsocks"
  <2>1. PICK n \in DOMAIN users : a \in XrayShadowsocks(row, users[n])
    BY <1>2 DEF XrayAccounts, Each
  <2>2. PICK method : method = Get(row.cfg, "method")
    OBVIOUS
  <2>3. \/ a = Account(RandomKey, users[n].uuid, method, "")
        \/ a = Account("", users[n].uuid, "aes-128-gcm", "")
    BY <2>1, <2>2 DEF XrayShadowsocks
  <2>4. a.secret = users[n].uuid
    <3>1. CASE a = Account(RandomKey, users[n].uuid, method, "")
      BY <3>1 DEF Account
    <3>2. CASE a = Account("", users[n].uuid, "aes-128-gcm", "")
      BY <3>2 DEF Account
    <3> QED
      BY <2>3, <3>1, <3>2
  <2> QED
    BY <2>4 DEF Shows
<1>3. CASE row.protocol \notin {"socks", "http", "tun", "shadowsocks"}
  <2>1. PICK n \in DOMAIN users : a \in XrayClient(row, users[n])
    BY <1>3 DEF XrayAccounts, Each
  <2>2. PICK u : u = users[n]
    OBVIOUS
  <2>3. a = Account(u.uuid, "", "", "") \/ a = Account(u.uuid, "", "", Vision(row)) \/ a = Account("", u.uuid, "", "")
    BY <2>1, <2>2 DEF XrayClient, ById, BySecret
  <2>4. (a.id = u.uuid /\ a.secret = "") \/ a.secret = u.uuid
    <3>1. CASE a = Account(u.uuid, "", "", "")
      BY <3>1 DEF Account
    <3>2. CASE a = Account(u.uuid, "", "", Vision(row))
      BY <3>2 DEF Account
    <3>3. CASE a = Account("", u.uuid, "", "")
      BY <3>3 DEF Account
    <3> QED
      BY <2>3, <3>1, <3>2, <3>3
  <2> QED
    BY <2>2, <2>4 DEF Shows
<1> QED
  BY <1>1, <1>2, <1>3 DEF XrayAccounts

\* One of sing-box is of a user, or the one account of the row.
LEMMA SingboxUsers ==
  ASSUME NEW row, NEW users, NEW a \in buildUsers(row, users)
  PROVE  \E n \in DOMAIN users : Shows(users[n], a)
<1>1. row.protocol \in HasUsers
  BY DEF buildUsers
<1>2. PICK n \in DOMAIN users : a = SingboxUser(row, users[n])
  BY <1>1 DEF buildUsers, Each
<1>3. PICK u : u = users[n]
  OBVIOUS
<1>4. CASE row.protocol \in {"vmess", "vless"}
  <2>1. a = Account(u.uuid, "", "", "") \/ a = Account(u.uuid, "", "", Vision(row))
    BY <1>2, <1>3, <1>4 DEF SingboxUser, ById
  <2>2. a.id = u.uuid /\ a.secret = ""
    <3>1. CASE a = Account(u.uuid, "", "", "")
      BY <3>1 DEF Account
    <3>2. CASE a = Account(u.uuid, "", "", Vision(row))
      BY <3>2 DEF Account
    <3> QED
      BY <2>1, <3>1, <3>2
  <2> QED
    BY <1>3, <2>2 DEF Shows
<1>5. CASE row.protocol \in {"trojan", "hysteria2", "tuic_v4", "anytls", "naive"}
  <2>1. a = Account("", u.uuid, "", "") \/ a = Account(u.label, u.uuid, "", "")
    BY <1>2, <1>3, <1>5 DEF SingboxUser, BySecret, Login
  <2>2. a.secret = u.uuid
    <3>1. CASE a = Account("", u.uuid, "", "")
      BY <3>1 DEF Account
    <3>2. CASE a = Account(u.label, u.uuid, "", "")
      BY <3>2 DEF Account
    <3> QED
      BY <2>1, <3>1, <3>2
  <2> QED
    BY <1>3, <2>2 DEF Shows
<1>6. CASE row.protocol = "shadowsocks"
  <2>1. a = SingboxShadowsocks(row, u)
    BY <1>2, <1>3, <1>6 DEF SingboxUser
  <2>2. a.secret = u.uuid
    BY <2>1 DEF Account, ById, BySecret, Login, SingboxShadowsocks
  <2> QED
    BY <1>3, <2>2 DEF Shows
<1>7. CASE row.protocol = "tuic_v5"
  <2>1. a = Login(u.uuid, IF u.token # "" THEN u.token ELSE u.uuid)
    BY <1>2, <1>3, <1>7 DEF SingboxUser
  <2>2. a.secret \in {u.uuid, u.token}
    BY <2>1 DEF Account, ById, BySecret, Login
  <2> QED
    BY <1>3, <2>2 DEF Shows
<1> QED
  BY <1>1, <1>4, <1>5, <1>6, <1>7 DEF HasUsers

LEMMA OneOfRow ==
  ASSUME NEW row, NEW a \in RowAccount(row)
  PROVE  row.protocol \in {"http", "socks5", "mixed"} /\ a.secret \in {""} \cup {row.cfg[k] : k \in DOMAIN row.cfg}
<1>1. row.protocol \in {"http", "socks5", "mixed"} /\ a = Login(row.cfg["username"], Get(row.cfg, "password"))
  BY DEF RowAccount
<1>2. a.secret = Get(row.cfg, "password")
  BY <1>1 DEF Account, ById, BySecret, Login
<1> QED
  BY <1>1, <1>2, SettingFrom

\* Whoever presents an account a core has shows what a user of the inbound
\* shows, or the password of a proxy that has one account.
LEMMA ServedUsers ==
  ASSUME NEW c \in {"xray", "singbox", "mihomo"}, NEW row, NEW users, HasOne(users),
         NEW server \in ConvertInbound(c, row, users), NEW a \in server.accounts
  PROVE  \/ \E n \in DOMAIN users : Shows(users[n], a)
         \/ /\ row.protocol \in {"http", "socks5", "mixed"}
            /\ a.secret \in {""} \cup {row.cfg[k] : k \in DOMAIN row.cfg}
<1>1. \A transport, accounts : Endpoint(row, transport, accounts).accounts = accounts
  BY DEF Endpoint
<1>2. CASE c = "xray"
  <2>1. PICK e : e = Endpoint(row, XrayTransport(row), XrayAccounts(row, users))
    OBVIOUS
  <2>2. XrayInbound(row, users).accounts = e.accounts
    BY <2>1 DEF XrayInbound, Endpoint
  <2>3. server = XrayInbound(row, users)
    BY <1>2 DEF ConvertInbound
  <2>4. a \in XrayAccounts(row, users)
    BY <1>1, <2>1, <2>2, <2>3
  <2> QED
    BY <2>4, XrayUsers
<1>3. CASE c = "singbox"
  <2>1. server = SingboxInbound(row, users)
    BY <1>3 DEF ConvertInbound
  <2>2. a \in buildUsers(row, users) \cup RowAccount(row)
    BY <1>1, <2>1 DEF SingboxInbound
  <2> QED
    BY <2>2, SingboxUsers, OneOfRow
<1>4. CASE c = "mihomo"
  <2>1. ConvertInbound(c, row, users) = {}
    BY <1>4 DEF ConvertInbound, MihomoInbound
  <2> QED
    BY <2>1
<1> QED
  BY <1>2, <1>3, <1>4

\* What an entry of a subscription presents: the user's, or a setting's.
Presents(row, user, a) ==
  /\ a.secret \in {"", user.uuid, user.token} \cup {row.cfg[k] : k \in DOMAIN row.cfg}
  /\ a.id \in {"", user.uuid, user.name}
  /\ row.protocol \in {"http", "socks5", "mixed"} => a.secret = user.uuid

LEMMA PresentsFacts ==
  ASSUME NEW row, NEW user
  PROVE  /\ row.protocol \notin {"http", "socks5", "mixed"} =>
              /\ \A flow : Presents(row, user, Account(user.uuid, "", "", flow))
              /\ \A method : Presents(row, user, Account("", user.uuid, method, ""))
              /\ Presents(row, user, ById(user.uuid)) /\ Presents(row, user, BySecret(user.uuid))
              /\ Presents(row, user, BySecret(TokenOf(user)))
              /\ Presents(row, user, Login(user.uuid, TokenOf(user)))
              /\ \A key : Presents(row, user, BySecret(GetStringOrDefault(row.cfg, key, user.uuid)))
              /\ Presents(row, user, BySecret(RowPassword(row, user)))
              /\ \A method : Presents(row, user, Account("", RowPassword(row, user), method, ""))
              /\ Presents(row, user, RowMethod(row, user))
              /\ Presents(row, user, Account("", "", "", ""))
         /\ Presents(row, user, Login(user.name, user.uuid))
<1>1. TokenOf(user) \in {user.uuid, user.token}
  BY DEF TokenOf
<1>2. \A key : GetStringOrDefault(row.cfg, key, user.uuid) \in {user.uuid} \cup {row.cfg[k] : k \in DOMAIN row.cfg}
  BY SettingFrom
<1>3. RowPassword(row, user) \in {user.uuid} \cup {row.cfg[k] : k \in DOMAIN row.cfg}
  BY <1>2 DEF RowPassword
<1>4. \A id, secret, method, flow :
        /\ id \in {"", user.uuid, user.name}
        /\ secret \in {"", user.uuid, user.token} \cup {row.cfg[k] : k \in DOMAIN row.cfg}
        /\ row.protocol \in {"http", "socks5", "mixed"} => secret = user.uuid
        => Presents(row, user, Account(id, secret, method, flow))
  BY DEF Account, ById, BySecret, Login, Presents
<1> HIDE DEF Presents
<1>5. Presents(row, user, Login(user.name, user.uuid))
  BY <1>4 DEF Login
<1>6. ASSUME row.protocol \notin {"http", "socks5", "mixed"}
      PROVE  /\ \A flow : Presents(row, user, Account(user.uuid, "", "", flow))
             /\ \A method : Presents(row, user, Account("", user.uuid, method, ""))
             /\ Presents(row, user, ById(user.uuid)) /\ Presents(row, user, BySecret(user.uuid))
             /\ Presents(row, user, BySecret(TokenOf(user)))
             /\ Presents(row, user, Login(user.uuid, TokenOf(user)))
             /\ \A key : Presents(row, user, BySecret(GetStringOrDefault(row.cfg, key, user.uuid)))
             /\ Presents(row, user, BySecret(RowPassword(row, user)))
             /\ \A method : Presents(row, user, Account("", RowPassword(row, user), method, ""))
             /\ Presents(row, user, RowMethod(row, user))
             /\ Presents(row, user, Account("", "", "", ""))
  <2>1. \A flow : Presents(row, user, Account(user.uuid, "", "", flow))
    BY <1>4, <1>6
  <2>2. \A method : Presents(row, user, Account("", user.uuid, method, ""))
    BY <1>4, <1>6
  <2>3. Presents(row, user, ById(user.uuid)) /\ Presents(row, user, BySecret(user.uuid))
    BY <1>4, <1>6 DEF ById, BySecret
  <2>4. Presents(row, user, BySecret(TokenOf(user)))
    BY <1>1, <1>4, <1>6 DEF BySecret
  <2>5. Presents(row, user, Login(user.uuid, TokenOf(user)))
    BY <1>1, <1>4, <1>6 DEF Login
  <2>6. \A key : Presents(row, user, BySecret(GetStringOrDefault(row.cfg, key, user.uuid)))
    BY <1>2, <1>4, <1>6 DEF BySecret
  <2>7. Presents(row, user, BySecret(RowPassword(row, user)))
    BY <1>3, <1>4, <1>6 DEF BySecret
  <2>8. \A method : Presents(row, user, Account("", RowPassword(row, user), method, ""))
    BY <1>3, <1>4, <1>6
  <2>9. Presents(row, user, RowMethod(row, user))
    BY <2>8 DEF RowMethod
  <2>10. Presents(row, user, Account("", "", "", ""))
    BY <1>4, <1>6
  <2> QED
    BY <2>1, <2>2, <2>3, <2>4, <2>5, <2>6, <2>7, <2>8, <2>9, <2>10
<1> QED
  BY <1>5, <1>6

LEMMA Presented ==
  ASSUME NEW format \in Formats, NEW row, NEW user, NEW e \in Generate(format, row, user)
  PROVE  Presents(row, user, e.account)
<1>1. \A transport, security, a : Entry(transport, security, a).account = a
  BY DEF Entry
<1>2. CASE format = "v2ray"
  <2>1. e.account = LinkAccount(row, user)
    BY <1>1, <1>2 DEF Generate, V2RayLink
  <2>2. Presents(row, user, LinkAccount(row, user))
    BY PresentsFacts DEF LinkAccount, WithFlow
  <2> QED
    BY <2>1, <2>2
<1>3. CASE format = "singbox"
  <2>1. e.account = SingboxAccount(row, user)
    BY <1>1, <1>3 DEF Generate, SingboxOutbound
  <2>2. Presents(row, user, SingboxAccount(row, user))
    BY PresentsFacts DEF SingboxAccount, WithFlow
  <2> QED
    BY <2>1, <2>2
<1>4. CASE format = "clash"
  <2>1. e.account = ClashAccount(row, user)
    BY <1>1, <1>4 DEF Generate, buildClashProxy
  <2>2. Presents(row, user, ClashAccount(row, user))
    BY PresentsFacts DEF ClashAccount, WithFlow
  <2> QED
    BY <2>1, <2>2
<1>5. CASE format = "isolate"
  <2>1. e.account = IsolateAccount(row, user)
    BY <1>1, <1>5 DEF Generate, IsolateInbound
  <2>2. Presents(row, user, IsolateAccount(row, user))
    BY PresentsFacts DEF IsolateAccount, WithFlow
  <2> QED
    BY <2>1, <2>2
<1> QED
  BY <1>2, <1>3, <1>4, <1>5 DEF Formats

-----------------------------------------------------------------------------
(* The rows.                                                               *)

Columns == {"id", "enabled", "protocol", "tls", "cert", "reality", "realityConfig", "cfg"}

RowOk(row) == /\ DOMAIN row = Columns
              /\ row.enabled \in BOOLEAN
              /\ Public(row.cfg)

\* No setting is a secret, and lists are of users.
RowsOk(d) ==
  /\ DOMAIN d = {"inbounds", "outbounds", "mapped", "version", "deleted", "next", "nextOut"}
  /\ DOMAIN d.inbounds = Ids /\ \A i \in Ids : d.inbounds[i] # None => RowOk(d.inbounds[i])
  /\ d.mapped \in [Ids -> Seq(Person)]
  /\ d.version \in [Person -> Nat] /\ d.deleted \subseteq Person

LEMMA RowCreated ==
  ASSUME OfferingParameters, NEW s \in Scenes, NEW t \in s.templates, NEW i
  PROVE  RowOk(NewRow(i, t))
<1>1. DOMAIN NewRow(i, t) = Columns
  BY DEF NewRow, Columns
<1>2. NewRow(i, t).enabled = TRUE /\ NewRow(i, t).cfg = t.cfg
  BY DEF NewRow
<1> QED
  BY <1>1, <1>2 DEF RowOk, OfferingParameters, Requests

LEMMA RowUpdated ==
  ASSUME OfferingParameters, NEW row, RowOk(row), NEW c \in Changes
  PROVE  RowOk(Updated(row, c))
<1>1. DOMAIN row = Columns
  BY DEF RowOk
<1>2. DOMAIN Updated(row, c) = Columns
  BY <1>1 DEF Updated
<1>3. \/ Updated(row, c).enabled = row.enabled
      \/ "enabled" \in DOMAIN c /\ Updated(row, c).enabled = c["enabled"]
  BY <1>1 DEF Updated, Columns
<1>4. \/ Updated(row, c).cfg = row.cfg
      \/ "cfg" \in DOMAIN c /\ Updated(row, c).cfg = c["cfg"]
  BY <1>1 DEF Updated, Columns
<1>5. /\ "cfg" \in DOMAIN c => Public(c["cfg"])
      /\ "enabled" \in DOMAIN c => c["enabled"] \in BOOLEAN
  BY DEF OfferingParameters, Requests
<1>6. row.enabled \in BOOLEAN /\ Public(row.cfg)
  BY DEF RowOk
<1>7. Updated(row, c).enabled \in BOOLEAN /\ Public(Updated(row, c).cfg)
  BY <1>3, <1>4, <1>5, <1>6
<1> QED
  BY <1>2, <1>7 DEF RowOk

LEMMA NoList == << >> \in Seq(Person)
OBVIOUS

\* The operations on inbounds put a row, or none.
LEMMA PutInbound ==
  ASSUME NEW d, RowsOk(d), NEW i \in Ids, NEW row, row # None => RowOk(row), NEW e, DOMAIN e = DOMAIN d,
         e.inbounds = [d.inbounds EXCEPT ![i] = row], e.version = d.version, e.deleted = d.deleted,
         e.mapped = d.mapped \/ e.mapped = [d.mapped EXCEPT ![i] = << >>]
  PROVE  RowsOk(e)
<1>1. DOMAIN e.inbounds = Ids /\ \A j \in Ids : e.inbounds[j] # None => RowOk(e.inbounds[j])
  BY DEF RowsOk
<1>2. e.mapped \in [Ids -> Seq(Person)]
  BY NoList DEF RowsOk
<1> QED
  BY <1>1, <1>2 DEF RowsOk

\* Those on users change one list, one version or the deleted.
LEMMA PutList ==
  ASSUME NEW d, RowsOk(d), NEW i \in Ids, NEW list \in Seq(Person), NEW e, DOMAIN e = DOMAIN d,
         e.mapped = [d.mapped EXCEPT ![i] = list],
         e.inbounds = d.inbounds, e.version = d.version, e.deleted = d.deleted
  PROVE  RowsOk(e)
<1>1. e.mapped \in [Ids -> Seq(Person)]
  BY DEF RowsOk
<1> QED
  BY <1>1 DEF RowsOk

-----------------------------------------------------------------------------
(* Nobody else.                                                            *)

\* Whoever the core has for an inbound is mapped to it and is not deleted.
LEMMA UsersServed ==
  ASSUME NEW d, RowsOk(d), NEW i \in Ids
  PROVE  /\ HasOne(GenerateConfig(d).users[i])
         /\ \A n \in DOMAIN GenerateConfig(d).users[i] :
              \E p \in Sequence!Range(d.mapped[i]) \ d.deleted :
                p \in Person /\ GenerateConfig(d).users[i][n] = User(p, d.version[p])
<1>1. PICK list : list = d.mapped[i]
  OBVIOUS
<1>2. list \in Seq(Person)
  BY <1>1 DEF RowsOk
<1>3. PICK present : present = Without(list, d.deleted)
  OBVIOUS
<1>4. /\ present \in Seq(Person)
      /\ \A n \in DOMAIN present : present[n] \notin d.deleted /\ \E m \in DOMAIN list : list[m] = present[n]
  BY <1>2, <1>3, WithoutFacts
<1>5. GenerateConfig(d).users[i] = [n \in DOMAIN present |-> User(present[n], d.version[present[n]])]
  BY <1>1, <1>3 DEF GenerateConfig
<1>6. DOMAIN present = 1..Len(present) /\ Len(present) \in Nat
  BY <1>4
<1>7. HasOne(GenerateConfig(d).users[i])
  <2>1. CASE Len(present) = 0
    <3>1. present = << >> /\ DOMAIN present = {}
      BY <1>4, <1>6, <2>1
    <3>2. GenerateConfig(d).users[i] = << >>
      BY <1>5, <3>1
    <3> QED
      BY <3>2 DEF HasOne
  <2>2. CASE Len(present) # 0
    BY <1>5, <1>6, <2>2 DEF HasOne
  <2> QED
    BY <2>1, <2>2
<1>8. ASSUME NEW n \in DOMAIN present
      PROVE  present[n] \in Sequence!Range(list) \ d.deleted /\ present[n] \in Person
  BY <1>4, <1>6 DEF Sequence!Range
<1> QED
  BY <1>1, <1>5, <1>7, <1>8

LEMMA SecretsApart ==
  ASSUME SecretsDiffer, NEW p \in Person, NEW v \in Nat, NEW q \in Person, NEW w \in Nat,
         NEW j \in Kinds, NEW k \in Kinds, Secret(p, j, v) = Secret(q, k, w)
  PROVE  p = q /\ v = w
BY DEF SecretsDiffer

\* Two users that show the same are one, with the same secrets.
LEMMA SecretsTell ==
  ASSUME OfferingParameters, NEW p \in Person, NEW v \in Nat, NEW q \in Person, NEW w \in Nat, NEW row, NEW a,
         \A k \in DOMAIN row.cfg : ~IsSecret(row.cfg[k]), Presents(row, User(p, v), a), Shows(User(q, w), a)
  PROVE  p = q /\ v = w
<1>1. /\ User(p, v).uuid = Secret(p, " uuid ", v) /\ User(p, v).token = Secret(p, " token ", v)
      /\ User(p, v).name = p
      /\ User(q, w).uuid = Secret(q, " uuid ", w) /\ User(q, w).token = Secret(q, " token ", w)
  BY DEF User
<1>2. \A k \in Kinds : IsSecret(Secret(p, k, v)) /\ IsSecret(Secret(q, k, w))
  BY DEF IsSecret
<1>3. " uuid " \in Kinds /\ " token " \in Kinds
  BY DEF Kinds
<1>4. /\ a.secret \in {"", User(p, v).uuid, User(p, v).token} \cup {row.cfg[k] : k \in DOMAIN row.cfg}
      /\ a.id \in {"", User(p, v).uuid, User(p, v).name}
  BY DEF Presents
<1>5. ~IsSecret("") /\ ~IsSecret(p)
  BY DEF OfferingParameters, SecretsRandom
<1>6. SecretsDiffer
  BY DEF OfferingParameters
<1>7. CASE a.secret \in {User(q, w).uuid, User(q, w).token}
  <2>1. IsSecret(a.secret)
    BY <1>1, <1>2, <1>3, <1>7
  <2>2. a.secret \in {User(p, v).uuid, User(p, v).token}
    BY <1>4, <1>5, <2>1
  <2>3. PICK j \in Kinds, k \in Kinds : Secret(p, j, v) = Secret(q, k, w)
    BY <1>1, <1>3, <1>7, <2>2
  <2> QED
    BY <1>6, <2>3, SecretsApart
<1>8. CASE a.id = User(q, w).uuid
  <2>1. Secret(p, " uuid ", v) = Secret(q, " uuid ", w)
    BY <1>1, <1>2, <1>3, <1>4, <1>5, <1>8
  <2>2. PICK k \in Kinds : k = " uuid "
    BY <1>3
  <2>3. Secret(p, k, v) = Secret(q, k, w)
    BY <2>1, <2>2
  <2> QED
    BY <1>6, <2>3, SecretsApart
<1> QED
  BY <1>7, <1>8 DEF Shows

LEMMA NobodyElseGetsIn ==
  ASSUME OfferingParameters, scene \in Scenes, RowsOk(db)
  PROVE  NobodyElse
<1> SUFFICES ASSUME Current, NEW p \in Person, NEW i \in Ids, NEW format \in Formats,
                    NEW v \in 1..db.version[p],
                    db.inbounds[i] # None, LetsIn(i, format, User(p, v))
             PROVE  v = db.version[p] /\ p \in Sequence!Range(db.mapped[i]) \ db.deleted
  BY DEF NobodyElse
<1>1. PICK row : row = AsRead(db.inbounds[i])
  OBVIOUS
<1>2. PICK old : old = db.inbounds[i]
  OBVIOUS
<1>3. RowOk(old) /\ row = [old EXCEPT !.cfg = Strings(@)]
  BY <1>1, <1>2 DEF RowsOk, AsRead
<1>4. row.cfg = Strings(old.cfg) /\ row.protocol = old.protocol
  BY <1>3 DEF RowOk, Columns
<1>5. PICK users : users = GenerateConfig(db).users[i]
  OBVIOUS
<1>6. Served(i) = ConvertInbound(core, row, users)
  BY <1>1, <1>5 DEF Served, Current, GenerateConfig
<1>7. PICK e \in Generate(format, row, User(p, v)), server \in Served(i) : e.account \in server.accounts
  BY <1>1 DEF LetsIn, Accepts
<1>8. PICK a : a = e.account
  OBVIOUS
<1>9. Presents(row, User(p, v), a)
  BY <1>7, <1>8, Presented
<1>10. core \in {"xray", "singbox", "mihomo"}
  BY DEF core, OfferingParameters, Requests
<1>11. HasOne(users) /\ server \in ConvertInbound(core, row, users) /\ a \in server.accounts
  BY <1>5, <1>6, <1>7, <1>8, UsersServed
<1>12. PICK c : c = core
  OBVIOUS
<1>13. \/ \E n \in DOMAIN users : Shows(users[n], a)
       \/ /\ row.protocol \in {"http", "socks5", "mixed"}
          /\ a.secret \in {""} \cup {row.cfg[k] : k \in DOMAIN row.cfg}
  BY <1>2, <1>4, <1>10, <1>11, <1>12, ServedUsers
<1>14. v \in Nat /\ db.version[p] \in Nat
  BY DEF RowsOk
<1>15. IsSecret(User(p, v).uuid)
  <2>1. User(p, v).uuid = Secret(p, " uuid ", v) /\ " uuid " \in Kinds
    BY DEF User, Kinds
  <2> QED
    BY <1>14, <2>1 DEF IsSecret
<1>16. \E n \in DOMAIN users : Shows(users[n], a)
  <2>1. SUFFICES ASSUME row.protocol \in {"http", "socks5", "mixed"},
                        a.secret \in {""} \cup {row.cfg[k] : k \in DOMAIN row.cfg}
                 PROVE  FALSE
    BY <1>13
  <2>2. IsSecret(a.secret)
    BY <1>9, <1>15, <2>1 DEF Presents
  <2>3. (\A k \in DOMAIN row.cfg : ~IsSecret(row.cfg[k])) /\ ~IsSecret("")
    BY <1>3, <1>4 DEF RowOk, Public, Words, OfferingParameters, SecretsRandom
  <2> QED
    BY <2>1, <2>2, <2>3
<1>17. PICK n \in DOMAIN users : Shows(users[n], a)
  BY <1>16
<1>18. PICK q \in Sequence!Range(db.mapped[i]) \ db.deleted : q \in Person /\ users[n] = User(q, db.version[q])
  BY <1>5, UsersServed
<1>19. PICK w : w = db.version[q]
  OBVIOUS
<1>20. w \in Nat /\ Shows(User(q, w), a)
  BY <1>17, <1>18, <1>19 DEF RowsOk
<1>21. \A k \in DOMAIN row.cfg : ~IsSecret(row.cfg[k])
  BY <1>3, <1>4 DEF RowOk, Public, Words
<1>22. p = q /\ v = w
  BY <1>9, <1>14, <1>18, <1>20, <1>21, SecretsTell
<1> QED
  BY <1>18, <1>19, <1>22

-----------------------------------------------------------------------------
(* The steps.                                                              *)

LEMMA UsersOnly ==
  ASSUME ForUsersOnly
  PROVE  ChangesReach' /\ scene' = scene
BY DEF ForUsersOnly, Operation, ChangesReach

LEMMA CreateInv ==
  ASSUME OfferingParameters, scene \in Scenes, RowsOk(db), NEW t \in scene.templates, CreateInbound(t)
  PROVE  RowsOk(db') /\ ChangesReach' /\ scene' = scene
<1>1. PICK i \in Ids : i = db.next
  BY DEF CreateInbound
<1>2. PICK row : row = NewRow(i, t)
  OBVIOUS
<1>3. PICK d : d = [db EXCEPT !.inbounds[i] = row, !.next = i + 1]
  OBVIOUS
<1>4. db' = d /\ OnInboundCreated(d) /\ scene' = scene
  BY <1>1, <1>2, <1>3 DEF CreateInbound, Operation
<1>5. ChangesReach'
  BY <1>4, Started DEF OnInboundCreated
<1>6. RowOk(row)
  BY <1>2, RowCreated
<1>7. /\ DOMAIN d = DOMAIN db /\ d.inbounds = [db.inbounds EXCEPT ![i] = row]
      /\ d.version = db.version /\ d.deleted = db.deleted /\ d.mapped = db.mapped
  BY <1>3 DEF RowsOk
<1> QED
  BY <1>4, <1>5, <1>6, <1>7, PutInbound

LEMMA UpdateInv ==
  ASSUME OfferingParameters, RowsOk(db), NEW i \in Ids, NEW c \in Changes, UpdateInbound(i, c)
  PROVE  RowsOk(db') /\ ChangesReach' /\ scene' = scene
<1>1. PICK old : old = db.inbounds[i]
  OBVIOUS
<1>2. PICK row : row = Updated(old, c)
  OBVIOUS
<1>3. PICK d : d = [db EXCEPT !.inbounds[i] = row]
  OBVIOUS
<1>4. old # None /\ db' = d /\ OnInboundUpdated(d, i, old.enabled) /\ scene' = scene
  BY <1>1, <1>2, <1>3 DEF UpdateInbound, Operation
<1>5. RowOk(old) /\ RowOk(row)
  BY <1>1, <1>2, <1>4, RowUpdated DEF RowsOk
<1>6. /\ DOMAIN d = DOMAIN db /\ d.inbounds = [db.inbounds EXCEPT ![i] = row]
      /\ d.version = db.version /\ d.deleted = db.deleted /\ d.mapped = db.mapped
  BY <1>3 DEF RowsOk
<1>7. RowsOk(d)
  BY <1>5, <1>6, PutInbound
<1>8. d.inbounds[i] = row /\ old.enabled \in BOOLEAN /\ row.enabled \in BOOLEAN
  BY <1>5, <1>6 DEF RowsOk, RowOk
<1>9. PICK was : was = old.enabled
  OBVIOUS
<1>10. ChangesReach'
  BY <1>4, <1>8, <1>9, InboundUpdated
<1> QED
  BY <1>4, <1>7, <1>10

LEMMA DeleteInv ==
  ASSUME RowsOk(db), NEW i \in Ids, DeleteInbound(i)
  PROVE  RowsOk(db') /\ ChangesReach' /\ scene' = scene
<1>1. PICK d : d = [db EXCEPT !.inbounds[i] = None, !.mapped[i] = << >>]
  OBVIOUS
<1>2. db' = d /\ OnInboundDeleted(d, i) /\ scene' = scene
  BY <1>1 DEF DeleteInbound, Operation
<1>3. ChangesReach'
  BY <1>2, InboundDeleted
<1>4. /\ DOMAIN d = DOMAIN db /\ d.inbounds = [db.inbounds EXCEPT ![i] = None]
      /\ d.version = db.version /\ d.deleted = db.deleted /\ d.mapped = [db.mapped EXCEPT ![i] = << >>]
  BY <1>1 DEF RowsOk
<1> QED
  BY <1>2, <1>3, <1>4, PutInbound

\* Whatever list a change of assignments makes of the one there is.
LEMMA ListInv ==
  ASSUME RowsOk(db), NEW i \in Ids, NEW list \in Seq(Person), db' = [db EXCEPT !.mapped[i] = list], ForUsersOnly
  PROVE  RowsOk(db') /\ ChangesReach' /\ scene' = scene
<1>1. PICK d : d = [db EXCEPT !.mapped[i] = list]
  OBVIOUS
<1>2. /\ DOMAIN d = DOMAIN db /\ d.mapped = [db.mapped EXCEPT ![i] = list]
      /\ d.inbounds = db.inbounds /\ d.version = db.version /\ d.deleted = db.deleted
  BY <1>1 DEF RowsOk
<1> QED
  BY <1>1, <1>2, PutList, UsersOnly

LEMMA AssignInv ==
  ASSUME RowsOk(db), NEW p \in Person, NEW i \in Ids,
         AssignInboundToUser(p, i) \/ UnassignInboundFromUser(p, i)
  PROVE  RowsOk(db') /\ ChangesReach' /\ scene' = scene
<1>1. PICK list : list = db.mapped[i]
  OBVIOUS
<1>2. list \in Seq(Person)
  BY <1>1 DEF RowsOk
<1>3. CASE AssignInboundToUser(p, i)
  <2>1. Append(list, p) \in Seq(Person)
    BY <1>2
  <2>2. db' = [db EXCEPT !.mapped[i] = Append(list, p)] /\ ForUsersOnly
    BY <1>1, <1>3 DEF AssignInboundToUser
  <2> QED
    BY <2>1, <2>2, ListInv
<1>4. CASE UnassignInboundFromUser(p, i)
  <2>1. Without(list, {p}) \in Seq(Person)
    BY <1>2, WithoutFacts
  <2>2. db' = [db EXCEPT !.mapped[i] = Without(list, {p})] /\ ForUsersOnly
    BY <1>1, <1>4 DEF UnassignInboundFromUser
  <2> QED
    BY <2>1, <2>2, ListInv
<1> QED
  BY <1>3, <1>4

LEMMA ListsOfUsers ==
  ASSUME OfferingParameters
  PROVE  Lists \subseteq Seq(Person)
<1> SUFFICES ASSUME NEW people \in SUBSET Person, NEW f \in Sequence!SetToSeqs(people)
             PROVE  f \in Seq(Person)
  BY DEF Lists
<1>1. f \in [1..Sequence!Cardinality(people) -> people]
  BY DEF Sequence!SetToSeqs
<1>2. Cardinality(people) \in Nat /\ Sequence!Cardinality(people) = Cardinality(people)
  BY FS_Subset, FS_CardinalityType DEF OfferingParameters, Sequence!Cardinality, Cardinality
<1> QED
  BY <1>1, <1>2

LEMMA BulkInv ==
  ASSUME OfferingParameters, RowsOk(db), NEW i \in Ids, NEW add \in Lists, NEW remove \in SUBSET Person, BulkAssignUsers(i, add, remove)
  PROVE  RowsOk(db') /\ ChangesReach' /\ scene' = scene
<1>1. PICK list : list = db.mapped[i]
  OBVIOUS
<1>2. PICK new : new = Added(Without(list, remove), Without(add, db.deleted))
  OBVIOUS
<1>3. list \in Seq(Person) /\ add \in Seq(Person)
  BY <1>1, ListsOfUsers DEF RowsOk
<1>4. PICK gone : gone = db.deleted
  OBVIOUS
<1>5. Without(list, remove) \in Seq(Person) /\ Without(add, gone) \in Seq(Person)
  BY <1>3, WithoutFacts
<1>6. new \in Seq(Person)
  BY <1>2, <1>4, <1>5, AddedFacts
<1>7. db' = [db EXCEPT !.mapped[i] = new] /\ ForUsersOnly
  BY <1>1, <1>2 DEF BulkAssignUsers
<1> QED
  BY <1>6, <1>7, ListInv

LEMMA UserInv ==
  ASSUME RowsOk(db), NEW p \in Person, RegenerateCredentials(p) \/ DeleteUser(p)
  PROVE  RowsOk(db') /\ ChangesReach' /\ scene' = scene
<1>1. CASE RegenerateCredentials(p)
  <2>1. PICK d : d = [db EXCEPT !.version[p] = @ + 1]
    OBVIOUS
  <2>2. db' = d /\ ForUsersOnly
    BY <1>1, <2>1 DEF RegenerateCredentials
  <2>3. /\ DOMAIN d = DOMAIN db /\ d.version = [db.version EXCEPT ![p] = @ + 1]
        /\ d.inbounds = db.inbounds /\ d.mapped = db.mapped /\ d.deleted = db.deleted
    BY <2>1 DEF RowsOk
  <2>4. d.version \in [Person -> Nat]
    BY <2>3 DEF RowsOk
  <2> QED
    BY <2>2, <2>3, <2>4, UsersOnly DEF RowsOk
<1>2. CASE DeleteUser(p)
  <2>1. PICK d : d = [db EXCEPT !.deleted = @ \cup {p}]
    OBVIOUS
  <2>2. db' = d /\ ForUsersOnly
    BY <1>2, <2>1 DEF DeleteUser
  <2>3. /\ DOMAIN d = DOMAIN db /\ d.deleted = db.deleted \cup {p}
        /\ d.inbounds = db.inbounds /\ d.mapped = db.mapped /\ d.version = db.version
    BY <2>1 DEF RowsOk
  <2> QED
    BY <2>2, <2>3, UsersOnly DEF RowsOk
<1> QED
  BY <1>1, <1>2

\* A change of outbounds is never what a core was started for.
LEMMA OutboundInv ==
  ASSUME RowsOk(db), Outbound
  PROVE  RowsOk(db') /\ ChangesReach' /\ scene' = scene
<1>1. PICK d : /\ db' = d /\ RegenerateAndReload(d) /\ scene' = scene
               /\ \/ \E os, n : d = [db EXCEPT !.outbounds = os, !.nextOut = n]
                  \/ \E os : d = [db EXCEPT !.outbounds = os]
  BY DEF Outbound, CreateOutbound, UpdateOutbound, DeleteOutbound, Operation
<1>2. /\ DOMAIN d = DOMAIN db /\ d.inbounds = db.inbounds /\ d.mapped = db.mapped
      /\ d.version = db.version /\ d.deleted = db.deleted
  BY <1>1 DEF RowsOk
<1>3. ChangesReach'
  BY <1>1 DEF RegenerateAndReload, ChangesReach
<1> QED
  BY <1>1, <1>2, <1>3 DEF RowsOk

OfferingInv == scene \in Scenes /\ RowsOk(db) /\ ChangesReach

LEMMA OfferingInit == OfferingParameters /\ Init => OfferingInv
<1> SUFFICES ASSUME Init
             PROVE  OfferingInv
  OBVIOUS
<1>1. DOMAIN db = {"inbounds", "outbounds", "mapped", "version", "deleted", "next", "nextOut"}
  BY DEF Init
<1>2. /\ db.inbounds = [i \in Ids |-> None] /\ db.mapped = [i \in Ids |-> << >>]
      /\ db.version = [p \in Person |-> 1] /\ db.deleted = {}
  BY DEF Init
<1>3. RowsOk(db)
  BY <1>1, <1>2, NoList DEF RowsOk
<1>4. scene \in Scenes /\ ChangesReach
  BY DEF Init, ChangesReach
<1> QED
  BY <1>3, <1>4 DEF OfferingInv

LEMMA OfferingNext ==
  ASSUME OfferingParameters, OfferingInv, [Next]_vars
  PROVE  OfferingInv'
<1>1. CASE UNCHANGED vars
  BY <1>1 DEF vars, OfferingInv, ChangesReach, Current
<1>2. CASE Next
  <2>1. RowsOk(db') /\ ChangesReach' /\ scene' = scene
    BY <1>2, CreateInv, UpdateInv, DeleteInv, AssignInv, BulkInv, UserInv, OutboundInv DEF OfferingInv, Next
  <2> QED
    BY <2>1 DEF OfferingInv
<1> QED
  BY <1>1, <1>2

\* The core runs what the rows say, unless a change of users or outbounds, of
\* a disabled inbound, or a refused configuration came since it was started.
THEOREM RowsReachTheCore ==
  ASSUME OfferingParameters
  PROVE  Spec => []ChangesReach
<1>1. OfferingInv => ChangesReach
  BY DEF OfferingInv
<1> QED
  BY <1>1, OfferingInit, OfferingNext, PTL DEF Spec

\* A core that is up to date lets nobody in who is not mapped to the inbound,
\* was deleted, or shows credentials of before: whatever the inbound, its
\* protocol and settings, the core and the format; but for sudoku.
THEOREM OnlyUsersGetIn ==
  ASSUME OfferingParameters
  PROVE  Spec => []NobodyElse
<1>1. OfferingInv => NobodyElse
  BY NobodyElseGetsIn DEF OfferingInv
<1> QED
  BY <1>1, OfferingInit, OfferingNext, PTL DEF Spec

-----------------------------------------------------------------------------
(* What an entry says, and what the core has.                              *)

\* The parts of the entry a format makes, for the protocols it writes.
Writes(format, protocol) ==
  CASE format = "v2ray"   -> protocol \in protocolLinks
    [] format = "singbox" -> protocol \in singboxProtocols
    [] format = "clash"   -> protocol \in clashProtocols
    [] format = "isolate" -> TRUE

KnownTo(format, protocol) ==
  CASE format \in {"v2ray", "isolate"}             -> {"websocket", "grpc", "http", "httpupgrade"}
    [] format = "singbox"                          -> {"ws", "grpc", "http", "httpupgrade"}
    [] format = "clash" /\ protocol = "vmess"      -> {"ws", "grpc", "h2", "httpupgrade"}
    [] format = "clash" /\ protocol # "vmess"      -> {"ws", "grpc", "httpupgrade"}

ClientTransport(format, row) ==
  IF NamesTransport(format, row.protocol) THEN Named(row.cfg, KnownTo(format, row.protocol))
  ELSE IF format = "v2ray" THEN LinkTransport(row) ELSE NoTransport

ClientSecurity(format, row) ==
  CASE format = "v2ray"   -> LinkSecurity(row)
    [] format = "singbox" -> SingboxSecurity(row)
    [] format = "clash"   -> ClashSecurity(row)
    [] format = "isolate" -> buildIsolateTLS(row)

ClientAccount(format, row, user) ==
  CASE format = "v2ray"   -> LinkAccount(row, user)
    [] format = "singbox" -> SingboxAccount(row, user)
    [] format = "clash"   -> ClashAccount(row, user)
    [] format = "isolate" -> IsolateAccount(row, user)

\* A format makes one entry, of these three parts, or none.
LEMMA EntryMade ==
  ASSUME NEW format \in Formats, NEW row, NEW user
  PROVE  \A e : e \in Generate(format, row, user) <=>
           /\ Writes(format, row.protocol)
           /\ e = Entry(ClientTransport(format, row), ClientSecurity(format, row), ClientAccount(format, row, user))
<1>1. CASE format = "v2ray"
  <2>1. ClientTransport(format, row) = LinkTransport(row)
    BY <1>1 DEF ClientTransport, NamesTransport, KnownTo, LinkTransport, AddTransportParams
  <2> QED
    BY <1>1, <2>1 DEF Generate, V2RayLink, Writes, ClientSecurity, ClientAccount
<1>2. CASE format = "singbox"
  <2>1. ClientTransport(format, row) =
          IF row.protocol \in {"vless", "vmess", "trojan"}
          THEN Named(row.cfg, {"ws", "grpc", "http", "httpupgrade"}) ELSE NoTransport
    BY <1>2 DEF ClientTransport, NamesTransport, KnownTo
  <2> QED
    BY <1>2, <2>1 DEF Generate, SingboxOutbound, Writes, ClientSecurity, ClientAccount
<1>3. CASE format = "clash"
  <2>1. ClientTransport(format, row) = ClashTransport(row)
    BY <1>3 DEF ClientTransport, NamesTransport, KnownTo, ClashTransport
  <2> QED
    BY <1>3, <2>1 DEF Generate, buildClashProxy, Writes, ClientSecurity, ClientAccount
<1>4. CASE format = "isolate"
  <2>1. ClientTransport(format, row) = Named(row.cfg, {"websocket", "grpc", "http", "httpupgrade"})
    BY <1>4 DEF ClientTransport, NamesTransport, KnownTo
  <2> QED
    BY <1>4, <2>1 DEF Generate, IsolateInbound, Writes, ClientSecurity, ClientAccount
<1> QED
  BY <1>1, <1>2, <1>3, <1>4 DEF Formats

ServerAccounts(c, row, users) ==
  CASE c = "xray"    -> XrayAccounts(row, users)
    [] c = "singbox" -> buildUsers(row, users) \cup RowAccount(row)

\* The parts of the one endpoint a core other than Mihomo has for an inbound.
LEMMA EndpointMade ==
  ASSUME NEW c \in {"xray", "singbox"}, NEW row, NEW users,
         Get(row.cfg, "transport") # "xhttp"
  PROVE  \E server :
           /\ ConvertInbound(c, row, users) = {server}
           /\ server.accounts = ServerAccounts(c, row, users)
           /\ row.protocol # "tun" =>
                /\ server.transport = WsGrpcH2(row.cfg)
                /\ server.security = Security(row)
                /\ server.certificate <=> row.tls /\ row.cert
<1>1. CASE c = "xray"
  <2>1. PICK e : e = Endpoint(row, XrayTransport(row), XrayAccounts(row, users))
    OBVIOUS
  <2>2. /\ e.accounts = XrayAccounts(row, users) /\ e.transport = XrayTransport(row)
        /\ e.security = Security(row) /\ e.certificate = (row.tls /\ row.cert)
        /\ DOMAIN e = {"tag", "transport", "security", "certificate", "accounts"}
    BY <2>1 DEF Endpoint, Security
  <2>3. PICK server : server = [e EXCEPT !.security = IF row.protocol = "tun" THEN "none" ELSE @]
    OBVIOUS
  <2>4. ConvertInbound(c, row, users) = {server}
    BY <1>1, <2>1, <2>3 DEF ConvertInbound, XrayInbound
  <2>5. row.protocol # "tun" => XrayTransport(row) = WsGrpcH2(row.cfg)
    BY DEF XrayTransport
  <2>6. /\ server.accounts = ServerAccounts(c, row, users)
        /\ row.protocol # "tun" => /\ server.transport = WsGrpcH2(row.cfg) /\ server.security = Security(row)
                                   /\ server.certificate = (row.tls /\ row.cert)
    BY <1>1, <2>2, <2>3, <2>5 DEF ServerAccounts
  <2> QED
    BY <2>4, <2>6
<1>2. CASE c = "singbox"
  <2>1. PICK all : all = buildUsers(row, users) \cup RowAccount(row)
    OBVIOUS
  <2>2. PICK e : e = Endpoint(row, WsGrpcH2(row.cfg), all)
    OBVIOUS
  <2>3. ConvertInbound(c, row, users) = {e}
    BY <1>2, <2>1, <2>2 DEF ConvertInbound, SingboxInbound
  <2>4. /\ e.accounts = all /\ e.transport = WsGrpcH2(row.cfg)
        /\ e.security = Security(row) /\ e.certificate = (row.tls /\ row.cert)
    BY <2>2 DEF Endpoint, Security
  <2> QED
    BY <1>2, <2>1, <2>3, <2>4 DEF ServerAccounts
<1> QED
  BY <1>1, <1>2

\* A row as the columns say and as the generators read it.
Read(raw, row) ==
  /\ row.cfg = AsRead(raw).cfg
  /\ row.protocol = raw.protocol /\ row.tls = raw.tls /\ row.cert = raw.cert
  /\ row.reality = raw.reality /\ row.realityConfig = raw.realityConfig

-----------------------------------------------------------------------------
(* Transports.                                                             *)

\* The core's transport, by the name the row has for it.
LEMMA TransportHad ==
  ASSUME NEW row, NEW name, name = Get(row.cfg, "transport")
  PROVE  /\ name = "ws" => WsGrpcH2(row.cfg) = Transport("ws", NonEmpty(row.cfg, "ws_path", "/ws"))
         /\ name = "grpc" => WsGrpcH2(row.cfg) = Transport("grpc", NonEmpty(row.cfg, "grpc_service_name", "grpc"))
         /\ name = "h2" => WsGrpcH2(row.cfg) = Transport("h2", NonEmpty(row.cfg, "h2_path", "/"))
         /\ name \notin {"ws", "grpc", "h2"} => WsGrpcH2(row.cfg) = Transport("tcp", "")
BY DEF WsGrpcH2

LEMMA NamesKept == \A n, p : Transport(n, p).network = n /\ Transport(n, p).path = p
BY DEF Transport

\* Where the format names no transport, the core must have plain TCP.
LEMMA PlainCarried ==
  ASSUME NEW format \in Formats, NEW raw, NEW row, Read(raw, row)
  PROVE  SameTransport(format, NoTransport, WsGrpcH2(row.cfg)) <=> PlainTcp(raw)
<1>1. PICK name, server : name = Get(row.cfg, "transport") /\ server = WsGrpcH2(row.cfg)
  OBVIOUS
<1>2. PlainTcp(raw) <=> name \notin {"ws", "grpc", "h2"}
  BY <1>1 DEF PlainTcp, Read
<1>3. PICK a, b, d : /\ a = NonEmpty(row.cfg, "ws_path", "/ws") /\ b = NonEmpty(row.cfg, "grpc_service_name", "grpc")
                     /\ d = NonEmpty(row.cfg, "h2_path", "/")
  OBVIOUS
<1>4. /\ name = "ws" => server = Transport("ws", a)
      /\ name = "grpc" => server = Transport("grpc", b)
      /\ name = "h2" => server = Transport("h2", d)
      /\ name \notin {"ws", "grpc", "h2"} => server = Transport("tcp", "")
  BY <1>1, <1>3, TransportHad
<1>5. SameTransport(format, NoTransport, server) <=> server.network = "tcp" /\ server.path = ""
  <2>1. NoTransport.network = "tcp" /\ NoTransport.path = ""
    BY NamesKept DEF NoTransport
  <2>2. "tcp" \in Vocabulary[format] /\ Meant("tcp") = "tcp"
    BY DEF Vocabulary, Formats, Meant
  <2> QED
    BY <2>1, <2>2 DEF SameTransport
<1>6. CASE name \in {"ws", "grpc", "h2"}
  <2>1. server.network = name
    BY <1>4, <1>6, NamesKept
  <2> QED
    BY <1>1, <1>2, <1>5, <1>6, <2>1
<1>7. CASE name \notin {"ws", "grpc", "h2"}
  <2>1. server = Transport("tcp", "")
    BY <1>4, <1>7
  <2>2. server.network = "tcp" /\ server.path = ""
    BY <2>1, NamesKept
  <2> QED
    BY <1>1, <1>2, <1>5, <1>7, <2>2
<1> QED
  BY <1>6, <1>7

\* Where it names one, the names and paths must be the same in both.
LEMMA NamedCarried ==
  ASSUME NEW format \in Formats, NEW raw, NEW row, Read(raw, row),
         Get(row.cfg, "transport") # "xhttp", NamesTransport(format, row.protocol)
  PROVE  SameTransport(format, Named(row.cfg, KnownTo(format, row.protocol)), WsGrpcH2(row.cfg))
           <=> Carries(format, raw)
<1>2. PICK has : has = Get(row.cfg, "transport")
  OBVIOUS
<1>3. PICK name : name = TransportName(row.cfg)
  OBVIOUS
<1>4. PICK w, g, h : w = Get(row.cfg, "ws_path") /\ g = Get(row.cfg, "grpc_service_name") /\ h = Get(row.cfg, "h2_path")
  OBVIOUS
<1>5. name = has \/ (name = "tcp" /\ has = "")
  BY <1>2, <1>3 DEF TransportName, Get, GetStringOrDefault
<1>6. PICK protocol : protocol = row.protocol
  OBVIOUS
<1>7. PICK known : known = KnownTo(format, protocol)
  OBVIOUS
<1>8. PICK client : client = Named(row.cfg, known)
  OBVIOUS
<1>9. PICK server : server = WsGrpcH2(row.cfg)
  OBVIOUS
<1>10. has # "xhttp"
  BY <1>2
<1>11. Carries(format, raw) <=>
         \/ name = "tcp"
         \/ name = "ws" /\ (w = "/" \/ (w # "" /\ format \in {"singbox", "clash"}))
         \/ name = "grpc" /\ g # ""
         \/ name = "h2" /\ format # "singbox" /\ (h \in {"", "/"} \/ (format = "clash" /\ protocol = "vmess"))
  BY <1>3, <1>4, <1>6 DEF Carries, Read
<1>12. client.network = name /\ client.path = IF name \in known THEN Get(row.cfg, PathKey(name)) ELSE ""
  <2>1. client = Transport(name, IF name \in known THEN Get(row.cfg, PathKey(name)) ELSE "")
    BY <1>3, <1>8 DEF Named
  <2> QED
    BY <2>1, NamesKept
<1>13. /\ name \in {"ws", "websocket", "httpupgrade"} => Get(row.cfg, PathKey(name)) = w
       /\ name = "grpc" => Get(row.cfg, PathKey(name)) = g
       /\ name \in {"h2", "http"} => Get(row.cfg, PathKey(name)) = h
  BY <1>4 DEF PathKey
<1>14. /\ has = "ws" => server.network = "ws" /\ server.path = (IF w = "" THEN "/ws" ELSE w)
       /\ has = "grpc" => server.network = "grpc" /\ server.path = (IF g = "" THEN "grpc" ELSE g)
       /\ has = "h2" => server.network = "h2" /\ server.path = (IF h = "" THEN "/" ELSE h)
       /\ has \notin {"ws", "grpc", "h2"} => server.network = "tcp" /\ server.path = ""
  <2>1. PICK a, b, d : /\ a = NonEmpty(row.cfg, "ws_path", "/ws") /\ b = NonEmpty(row.cfg, "grpc_service_name", "grpc")
                       /\ d = NonEmpty(row.cfg, "h2_path", "/")
    OBVIOUS
  <2>2. /\ has = "ws" => server = Transport("ws", a)
        /\ has = "grpc" => server = Transport("grpc", b)
        /\ has = "h2" => server = Transport("h2", d)
        /\ has \notin {"ws", "grpc", "h2"} => server = Transport("tcp", "")
    BY <1>2, <1>9, <2>1, TransportHad
  <2>3. /\ a = (IF w = "" THEN "/ws" ELSE w) /\ b = (IF g = "" THEN "grpc" ELSE g) /\ d = (IF h = "" THEN "/" ELSE h)
    BY <1>4, <2>1 DEF NonEmpty
  <2>5. CASE has = "ws"
    <3>1. server = Transport("ws", a)
      BY <2>2, <2>5
    <3>2. server.network = "ws" /\ server.path = a
      BY <3>1, NamesKept
    <3> QED
      BY <2>3, <2>5, <3>2
  <2>6. CASE has = "grpc"
    <3>1. server = Transport("grpc", b)
      BY <2>2, <2>6
    <3>2. server.network = "grpc" /\ server.path = b
      BY <3>1, NamesKept
    <3> QED
      BY <2>3, <2>6, <3>2
  <2>7. CASE has = "h2"
    <3>1. server = Transport("h2", d)
      BY <2>2, <2>7
    <3>2. server.network = "h2" /\ server.path = d
      BY <3>1, NamesKept
    <3> QED
      BY <2>3, <2>7, <3>2
  <2>8. CASE has \notin {"ws", "grpc", "h2"}
    <3>1. server = Transport("tcp", "")
      BY <2>2, <2>8
    <3>2. server.network = "tcp" /\ server.path = ""
      BY <3>1, NamesKept
    <3> QED
      BY <2>8, <3>2
  <2> QED
    BY <2>5, <2>6, <2>7, <2>8
<1>15. format = "clash" => protocol \in {"vless", "vmess"}
  BY <1>6 DEF NamesTransport
<1>16. SameTransport(format, client, server) <=>
         /\ name \in Vocabulary[format] /\ Meant(name) = server.network
         /\ IF client.path = "" /\ server.network \in {"ws", "h2", "xhttp"}
            THEN server.path = "/" ELSE client.path = server.path
  BY <1>12 DEF SameTransport
<1>24. PICK Same \in BOOLEAN :
         Same <=> /\ name \in Vocabulary[format] /\ Meant(name) = server.network
                  /\ IF client.path = "" /\ server.network \in {"ws", "h2", "xhttp"}
                     THEN server.path = "/" ELSE client.path = server.path
  OBVIOUS
<1>25. PICK Can \in BOOLEAN :
         Can <=> \/ name = "tcp"
                 \/ name = "ws" /\ (w = "/" \/ (w # "" /\ format \in {"singbox", "clash"}))
                 \/ name = "grpc" /\ g # ""
                 \/ name = "h2" /\ format # "singbox" /\ (h \in {"", "/"} \/ (format = "clash" /\ protocol = "vmess"))
  OBVIOUS
<1>17. ASSUME name = "tcp" PROVE Same <=> Can
  <2>1. "tcp" \notin known /\ "tcp" \in Vocabulary[format] /\ Meant("tcp") = "tcp"
    BY <1>7 DEF KnownTo, Vocabulary, Formats, Meant
  <2>2. client.path = "" /\ server.network = "tcp" /\ server.path = ""
    BY <1>5, <1>12, <1>14, <1>17, <2>1
  <2>3. Same
    BY <1>24, <1>17, <2>1, <2>2
  <2>4. Can
    BY <1>25, <1>17
  <2> QED
    BY <2>3, <2>4
<1>18. ASSUME name = "ws" PROVE Same <=> Can
  <2>1. ("ws" \in known <=> format \in {"singbox", "clash"}) /\ "ws" \in Vocabulary[format] /\ Meant("ws") = "ws"
    BY <1>7 DEF KnownTo, Vocabulary, Formats, Meant
  <2>2. client.path = (IF format \in {"singbox", "clash"} THEN w ELSE "")
    BY <1>12, <1>13, <1>18, <2>1
  <2>3. server.network = "ws" /\ server.path = (IF w = "" THEN "/ws" ELSE w)
    BY <1>5, <1>14, <1>18
  <2>4. Same <=> IF client.path = "" THEN server.path = "/" ELSE client.path = server.path
    BY <1>24, <1>18, <2>1, <2>3
  <2>5. Can <=> (w = "/" \/ (w # "" /\ format \in {"singbox", "clash"}))
    BY <1>25, <1>18
  <2> QED
    BY <2>2, <2>3, <2>4, <2>5
<1>19. ASSUME name = "grpc" PROVE Same <=> Can
  <2>1. "grpc" \in known /\ "grpc" \in Vocabulary[format] /\ Meant("grpc") = "grpc"
    BY <1>7 DEF KnownTo, Vocabulary, Formats, Meant
  <2>2. client.path = g
    BY <1>12, <1>13, <1>19, <2>1
  <2>3. server.network = "grpc" /\ server.path = (IF g = "" THEN "grpc" ELSE g)
    BY <1>5, <1>14, <1>19
  <2>4. Same <=> client.path = server.path
    BY <1>24, <1>19, <2>1, <2>3
  <2>5. Can <=> g # ""
    BY <1>25, <1>19
  <2> QED
    BY <2>2, <2>3, <2>4, <2>5
<1>20. ASSUME name = "h2" PROVE Same <=> Can
  <2>1. /\ "h2" \in known <=> format = "clash" /\ protocol = "vmess"
        /\ "h2" \in Vocabulary[format] <=> format # "singbox"
        /\ Meant("h2") = "h2"
    BY <1>7 DEF KnownTo, Vocabulary, Formats, Meant
  <2>2. client.path = (IF format = "clash" /\ protocol = "vmess" THEN h ELSE "")
    BY <1>12, <1>13, <1>20, <2>1
  <2>3. server.network = "h2" /\ server.path = (IF h = "" THEN "/" ELSE h)
    BY <1>5, <1>14, <1>20
  <2>4. Same <=> format # "singbox" /\ IF client.path = "" THEN server.path = "/" ELSE client.path = server.path
    BY <1>24, <1>20, <2>1, <2>3
  <2>5. Can <=> format # "singbox" /\ (h \in {"", "/"} \/ (format = "clash" /\ protocol = "vmess"))
    BY <1>25, <1>20
  <2> QED
    BY <2>2, <2>3, <2>4, <2>5
<1>22. ASSUME name \notin {"tcp", "ws", "grpc", "h2"} PROVE Same <=> Can
  <2>1. name # "xhttp" /\ has \notin {"ws", "grpc", "h2"} /\ name = has
    BY <1>5, <1>10, <1>22
  <2>2. server.network = "tcp"
    BY <1>14, <2>1
  <2>3. ~Can
    BY <1>25, <1>22
  <2>6. name \in Vocabulary[format] => name \in {"websocket", "http", "httpupgrade"}
    <3>1. Vocabulary[format] \subseteq {"tcp", "ws", "grpc", "h2", "httpupgrade", "xhttp", "websocket", "http"}
      BY DEF Vocabulary, Formats
    <3> QED
      BY <1>22, <2>1, <3>1
  <2>4. name \in Vocabulary[format] => Meant(name) \in {"ws", "h2", "httpupgrade"}
    BY <2>6 DEF Meant
  <2>5. ~Same
    BY <1>24, <1>22, <2>2, <2>4
  <2> QED
    BY <2>3, <2>5
<1>23. Same <=> Can
  BY <1>17, <1>18, <1>19, <1>20, <1>22
<1>26. SameTransport(format, client, server) <=> Carries(format, raw)
  BY <1>11, <1>16, <1>23, <1>24, <1>25
<1> QED
  BY <1>6, <1>7, <1>8, <1>9, <1>26

\* The transports of an entry and of the core: the link of xhttp is for a
\* transport of that name.
LEMMA TransportTold ==
  ASSUME NEW format \in Formats, NEW raw, NEW row, Read(raw, row),
         Get(row.cfg, "transport") # "xhttp"
  PROVE  SameTransport(format, ClientTransport(format, row), WsGrpcH2(row.cfg))
           <=> Carried(format, raw) /\ ~(format = "v2ray" /\ row.protocol = "xhttp")
<1>1. raw.protocol = row.protocol
  BY DEF Read
<1>2. CASE NamesTransport(format, row.protocol)
  <2>1. ~(format = "v2ray" /\ row.protocol = "xhttp")
    BY <1>2 DEF NamesTransport
  <2> QED
    BY <1>1, <1>2, <2>1, NamedCarried DEF ClientTransport, Carried
<1>3. CASE ~NamesTransport(format, row.protocol) /\ format = "v2ray" /\ row.protocol = "xhttp"
  <2>1. ClientTransport(format, row) = Transport("xhttp", Get(row.cfg, "path"))
    BY <1>3 DEF ClientTransport, LinkTransport
  <2>2. PICK has : has = Get(row.cfg, "transport")
    OBVIOUS
  <2>3. PICK a, b, d : /\ a = NonEmpty(row.cfg, "ws_path", "/ws") /\ b = NonEmpty(row.cfg, "grpc_service_name", "grpc")
                       /\ d = NonEmpty(row.cfg, "h2_path", "/")
    OBVIOUS
  <2>4. PICK server : server = WsGrpcH2(row.cfg)
    OBVIOUS
  <2>5. /\ has = "ws" => server = Transport("ws", a)
        /\ has = "grpc" => server = Transport("grpc", b)
        /\ has = "h2" => server = Transport("h2", d)
        /\ has \notin {"ws", "grpc", "h2"} => server = Transport("tcp", "")
    BY <2>2, <2>3, <2>4, TransportHad
  <2>6. PICK n, p : server = Transport(n, p) /\ n \in {"ws", "grpc", "h2", "tcp"}
    BY <2>5
  <2>7. server.network # "xhttp"
    BY <2>6, NamesKept
  <2>8. PICK client : client = Transport("xhttp", Get(row.cfg, "path"))
    OBVIOUS
  <2>9. client.network = "xhttp" /\ Meant("xhttp") = "xhttp"
    BY <2>8, NamesKept DEF Meant
  <2>10. ~SameTransport(format, client, server)
    BY <2>7, <2>9 DEF SameTransport
  <2> QED
    BY <1>3, <2>1, <2>4, <2>8, <2>10
<1>4. CASE ~NamesTransport(format, row.protocol) /\ ~(format = "v2ray" /\ row.protocol = "xhttp")
  <2>1. ClientTransport(format, row) = NoTransport
    BY <1>4 DEF ClientTransport, LinkTransport, NamesTransport, Formats
  <2> QED
    BY <1>1, <1>4, <2>1, PlainCarried DEF Carried
<1> QED
  BY <1>2, <1>3, <1>4

-----------------------------------------------------------------------------
(* Security.                                                               *)

Flags(row) == /\ row.tls \in BOOLEAN /\ row.cert \in BOOLEAN
              /\ row.reality \in BOOLEAN /\ row.realityConfig \in BOOLEAN

\* The entry says the security the core has, which for TLS needs a certificate.
Secure(format, row) ==
  /\ ClientSecurity(format, row) = Security(row)
  /\ Security(row) = "tls" => row.tls /\ row.cert

\* What each builder says, for the protocols whose accounts can fit.
LEMMA SecuritySaid ==
  ASSUME NEW row, NEW protocol, protocol = row.protocol
  PROVE  /\ protocol \in {"vless", "trojan", "xhttp"} => ClientSecurity("v2ray", row) = AddTLSAndRealityParams(row)
         /\ protocol = "vmess" => ClientSecurity("v2ray", row) = (IF IsTLS(row) \/ row.reality THEN "tls" ELSE "none")
         /\ protocol = "hysteria2" => ClientSecurity("v2ray", row) = "tls"
         /\ protocol = "tuic_v5" => ClientSecurity("v2ray", row) = (IF IsTLS(row) THEN "tls" ELSE "none")
         /\ protocol \in {"vless", "trojan"} => ClientSecurity("singbox", row) =
              (IF row.reality \/ IsTLS(row) THEN buildTLSConfig(row) ELSE "none")
         /\ protocol \in {"vmess", "tuic_v5"} => ClientSecurity("singbox", row) =
              (IF IsTLS(row) THEN buildTLSConfig(row) ELSE "none")
         /\ protocol = "vless" => ClientSecurity("clash", row) =
              (IF HasReality(row) THEN "reality" ELSE IF IsTLS(row) THEN "tls" ELSE "none")
         /\ protocol = "vmess" => ClientSecurity("clash", row) = (IF IsTLS(row) THEN "tls" ELSE "none")
         /\ protocol \in {"trojan", "tuic_v5"} => ClientSecurity("clash", row) = "tls"
         /\ ClientSecurity("isolate", row) = buildIsolateTLS(row)
<1>1. /\ ClientSecurity("v2ray", row) = LinkSecurity(row) /\ ClientSecurity("singbox", row) = SingboxSecurity(row)
      /\ ClientSecurity("clash", row) = ClashSecurity(row) /\ ClientSecurity("isolate", row) = buildIsolateTLS(row)
  BY DEF ClientSecurity
<1>2. /\ protocol \in {"vless", "trojan", "xhttp"} => LinkSecurity(row) = AddTLSAndRealityParams(row)
      /\ protocol = "vmess" => LinkSecurity(row) = (IF IsTLS(row) \/ row.reality THEN "tls" ELSE "none")
      /\ protocol = "hysteria2" => LinkSecurity(row) = "tls"
      /\ protocol = "tuic_v5" => LinkSecurity(row) = (IF IsTLS(row) THEN "tls" ELSE "none")
  BY DEF LinkSecurity
<1>3. /\ protocol \in {"vless", "trojan"} => SingboxSecurity(row) = (IF row.reality \/ IsTLS(row) THEN buildTLSConfig(row) ELSE "none")
      /\ protocol \in {"vmess", "tuic_v5"} => SingboxSecurity(row) = (IF IsTLS(row) THEN buildTLSConfig(row) ELSE "none")
  BY DEF SingboxSecurity
<1>4. /\ protocol = "vless" => ClashSecurity(row) = (IF HasReality(row) THEN "reality" ELSE IF IsTLS(row) THEN "tls" ELSE "none")
      /\ protocol = "vmess" => ClashSecurity(row) = (IF IsTLS(row) THEN "tls" ELSE "none")
      /\ protocol \in {"trojan", "tuic_v5"} => ClashSecurity(row) = "tls"
  BY DEF ClashSecurity
<1> QED
  BY <1>1, <1>2, <1>3, <1>4

LEMMA SecurityRead ==
  ASSUME NEW raw, NEW row, Read(raw, row)
  PROVE  Security(raw) = Security(row) /\ raw.cert = row.cert
BY DEF Read, Security, HasReality

\* What vless, vmess and trojan are told of the security, against what is there.
LEMMA MainSecurity ==
  ASSUME NEW format \in Formats, NEW raw, NEW row, Read(raw, row), Flags(row),
         row.protocol \in {"vless", "vmess", "trojan"}
  PROVE  Secure(format, row) <=> SameSecurity(format, raw)
<1>1. PICK protocol : protocol = row.protocol
  OBVIOUS
<1>2. PICK tls \in BOOLEAN, cert \in BOOLEAN, reality \in BOOLEAN, key \in BOOLEAN :
        tls = row.tls /\ cert = row.cert /\ reality = row.reality /\ key = row.realityConfig
  BY DEF Flags
<1>3. PICK has : has = IF reality /\ key THEN "reality" ELSE IF tls THEN "tls" ELSE "none"
  OBVIOUS
<1>4. Security(row) = has /\ Security(raw) = has
  BY <1>2, <1>3, SecurityRead DEF Security, HasReality
<1>5. PICK says : says = ClientSecurity(format, row)
  OBVIOUS
<1>6. /\ HasReality(row) <=> reality /\ key
      /\ IsTLS(row) <=> tls \/ (reality /\ key)
      /\ AddTLSAndRealityParams(row) = (IF reality THEN IF key THEN "reality" ELSE "reality without a key"
                                        ELSE IF tls THEN "tls" ELSE "none")
      /\ buildTLSConfig(row) = (IF reality /\ key THEN "reality" ELSE "tls")
      /\ buildIsolateTLS(row) = (IF reality /\ key THEN "reality" ELSE IF tls \/ reality THEN "tls" ELSE "none")
  BY <1>2 DEF HasReality, IsTLS, AddTLSAndRealityParams, buildTLSConfig, buildIsolateTLS
<1>7. PICK Same \in BOOLEAN : Same <=> says = has /\ (has = "tls" => tls /\ cert)
  OBVIOUS
<1>8. Secure(format, row) <=> Same
  BY <1>1, <1>2, <1>4, <1>5, <1>7 DEF Secure
<1>9. PICK Can \in BOOLEAN :
        Can <=> CASE has = "reality" -> /\ protocol = "vmess"  => format \in {"singbox", "isolate"}
                                        /\ protocol = "trojan" => format # "clash"
                  [] has = "tls" -> /\ cert
                                    /\ format = "v2ray" /\ protocol # "vmess" => ~reality
                  [] OTHER -> /\ protocol = "trojan" => format # "clash"
                              /\ reality => \/ format = "clash"
                                            \/ format = "singbox" /\ protocol = "vmess"
  OBVIOUS
<1>10. SameSecurity(format, raw) <=> Can
  <2>1. raw.protocol = protocol /\ raw.reality = reality /\ raw.cert = cert
    BY <1>1, <1>2, SecurityRead DEF Read
  <2> QED
    BY <1>4, <1>9, <2>1 DEF SameSecurity
<1>11. Same <=> Can
  <2>1. CASE format = "v2ray"
    <3>1. says = IF protocol = "vmess" THEN IF tls \/ reality THEN "tls" ELSE "none"
                 ELSE IF reality THEN IF key THEN "reality" ELSE "reality without a key"
                      ELSE IF tls THEN "tls" ELSE "none"
      BY <1>1, <1>2, <1>5, <1>6, <2>1, SecuritySaid
    <3> QED
      BY <1>1, <1>3, <1>7, <1>9, <2>1, <3>1
  <2>2. CASE format = "singbox"
    <3>1. says = IF tls \/ (reality /\ key) \/ (reality /\ protocol # "vmess")
                 THEN IF reality /\ key THEN "reality" ELSE "tls" ELSE "none"
      BY <1>1, <1>2, <1>5, <1>6, <2>2, SecuritySaid
    <3> QED
      BY <1>1, <1>3, <1>7, <1>9, <2>2, <3>1
  <2>3. CASE format = "clash"
    <3>1. says = IF protocol = "trojan" THEN "tls"
                 ELSE IF protocol = "vless" /\ reality /\ key THEN "reality"
                 ELSE IF tls \/ (reality /\ key) THEN "tls" ELSE "none"
      BY <1>1, <1>2, <1>5, <1>6, <2>3, SecuritySaid
    <3> QED
      BY <1>1, <1>3, <1>7, <1>9, <2>3, <3>1
  <2>4. CASE format = "isolate"
    <3>1. says = IF reality /\ key THEN "reality" ELSE IF tls \/ reality THEN "tls" ELSE "none"
      BY <1>5, <1>6, <2>4, SecuritySaid
    <3> QED
      BY <1>1, <1>3, <1>7, <1>9, <2>4, <3>1
  <2> QED
    BY <2>1, <2>2, <2>3, <2>4 DEF Formats
<1> QED
  BY <1>8, <1>10, <1>11

\* The formats that name what the one core of another protocol has.
KnownFor(format, protocol) ==
  \/ protocol = "tuic_v5"
  \/ protocol = "xhttp" /\ format = "isolate"

\* The same for the other protocols.
LEMMA OthersSecurity ==
  ASSUME NEW format \in Formats, NEW raw, NEW row, Read(raw, row), Flags(row), KnownFor(format, row.protocol)
  PROVE  Secure(format, row) <=> OtherSecurity(format, raw)
<1>1. PICK protocol : protocol = row.protocol
  OBVIOUS
<1>2. PICK tls \in BOOLEAN, cert \in BOOLEAN, reality \in BOOLEAN, key \in BOOLEAN :
        tls = row.tls /\ cert = row.cert /\ reality = row.reality /\ key = row.realityConfig
  BY DEF Flags
<1>3. PICK has : has = IF reality /\ key THEN "reality" ELSE IF tls THEN "tls" ELSE "none"
  OBVIOUS
<1>4. Security(row) = has /\ Security(raw) = has
  BY <1>2, <1>3, SecurityRead DEF Security, HasReality
<1>5. PICK says : says = ClientSecurity(format, row)
  OBVIOUS
<1>6. /\ HasReality(row) <=> reality /\ key
      /\ IsTLS(row) <=> tls \/ (reality /\ key)
      /\ buildTLSConfig(row) = (IF reality /\ key THEN "reality" ELSE "tls")
      /\ buildIsolateTLS(row) = (IF reality /\ key THEN "reality" ELSE IF tls \/ reality THEN "tls" ELSE "none")
  BY <1>2 DEF HasReality, IsTLS, buildTLSConfig, buildIsolateTLS
<1>7. PICK Same \in BOOLEAN : Same <=> says = has /\ (has = "tls" => tls /\ cert)
  OBVIOUS
<1>8. Secure(format, row) <=> Same
  BY <1>1, <1>2, <1>4, <1>5, <1>7 DEF Secure
<1>9. PICK Can \in BOOLEAN :
        Can <=> CASE has = "reality" -> format \in {"singbox", "isolate"}
                  [] has = "tls" -> cert
                  [] OTHER -> /\ protocol = "tuic_v5" => format # "clash"
                              /\ format = "isolate" => ~reality
  OBVIOUS
<1>10. OtherSecurity(format, raw) <=> Can
  <2>1. raw.protocol = protocol /\ raw.reality = reality /\ raw.cert = cert
    BY <1>1, <1>2, SecurityRead DEF Read
  <2> QED
    BY <1>4, <1>9, <2>1 DEF OtherSecurity
<1>11. KnownFor(format, protocol)
  BY <1>1
<1>12. Same <=> Can
  <2>1. CASE format = "v2ray"
    <3>1. protocol = "tuic_v5" /\ says = IF tls \/ (reality /\ key) THEN "tls" ELSE "none"
      BY <1>1, <1>5, <1>6, <1>11, <2>1, SecuritySaid DEF KnownFor
    <3> QED
      BY <1>3, <1>7, <1>9, <2>1, <3>1
  <2>2. CASE format = "singbox"
    <3>1. protocol = "tuic_v5" /\ says = IF tls \/ (reality /\ key) THEN IF reality /\ key THEN "reality" ELSE "tls" ELSE "none"
      BY <1>1, <1>5, <1>6, <1>11, <2>2, SecuritySaid DEF KnownFor
    <3> QED
      BY <1>3, <1>7, <1>9, <2>2, <3>1
  <2>3. CASE format = "clash"
    <3>1. protocol = "tuic_v5" /\ says = "tls"
      BY <1>1, <1>5, <1>11, <2>3, SecuritySaid DEF KnownFor
    <3> QED
      BY <1>3, <1>7, <1>9, <2>3, <3>1
  <2>5. CASE format = "isolate"
    <3>1. says = IF reality /\ key THEN "reality" ELSE IF tls \/ reality THEN "tls" ELSE "none"
      BY <1>5, <1>6, <2>5, SecuritySaid
    <3> QED
      BY <1>3, <1>7, <1>9, <2>5, <3>1
  <2> QED
    BY <2>1, <2>2, <2>3, <2>5 DEF Formats
<1> QED
  BY <1>8, <1>10, <1>12

-----------------------------------------------------------------------------
(* Accounts.                                                               *)

\* Protocols with a password, which the schemas require: without it, the builders
\* present the user's own secret instead.
PasswordOf == {"hysteria2", "trusttunnel", "anytls", "sudoku", "mieru", "shadowsocks"}

Complete(protocol, cfg) ==
  /\ protocol \in PasswordOf => "password" \in DOMAIN cfg
  /\ protocol = "hysteria" => "auth_str" \in DOMAIN cfg

\* The user is one of those the core has, and can be told from settings, names
\* and the other users.
Apart(row, users, user) ==
  /\ \E n \in DOMAIN users : users[n] = user
  /\ user.token # ""
  /\ \A n \in DOMAIN users :
       /\ users[n].uuid \notin {"", user.token}
       /\ users[n].label # user.name
       /\ \A k \in DOMAIN row.cfg : row.cfg[k] # users[n].uuid

\* Protocols of which some entry fits the account a core has.
Fitting == {"vless", "vmess", "trojan", "hysteria2", "xhttp", "tuic_v5"}

\* Protocols of Mihomo only, of which no core has an account.
Unserved == {"sudoku", "trusttunnel", "mieru"}

Fits(c, format, row) ==
  LET flow == Get(row.cfg, "flow")
      protocol == row.protocol IN
  CASE protocol = "vless"     -> flow = Vision(row)
    [] protocol = "vmess"     -> format = "isolate" => flow = ""
    [] protocol = "trojan"    -> TRUE
    [] protocol = "hysteria2" -> format = "v2ray"
    [] protocol = "xhttp"     -> c = "xray" /\ format \in {"v2ray", "isolate"}
    [] protocol = "tuic_v5"   -> c = "singbox"
    [] OTHER                  -> FALSE

\* Accounts of the users, each by its UUID, by a password, or by both a name and one.
ByUuid(a, users, flow) == \E n \in DOMAIN users : a = Account(users[n].uuid, "", "", flow)
ByPassword(a, users)  == \E n \in DOMAIN users : a = Account("", users[n].uuid, "", "")
ByBoth(a, users)      == \E n \in DOMAIN users :
  a = Account(users[n].uuid, IF users[n].token # "" THEN users[n].token ELSE users[n].uuid, "", "")
ByLabel(a, users)     == \E n \in DOMAIN users : a = Account(users[n].label, users[n].uuid, "", "")

\* The accounts an Xray or a sing-box has.
LEMMA XrayHas ==
  ASSUME NEW row, NEW users, NEW a
  PROVE  /\ row.protocol = "vless" =>
              (a \in XrayAccounts(row, users) <=> ByUuid(a, users, Vision(row)))
         /\ row.protocol \in {"vmess", "xhttp"} =>
              (a \in XrayAccounts(row, users) <=> ByUuid(a, users, ""))
         /\ row.protocol \in {"trojan", "hysteria2"} =>
              (a \in XrayAccounts(row, users) <=> ByPassword(a, users))
         /\ row.protocol \notin {"vless", "vmess", "xhttp", "trojan", "hysteria2", "shadowsocks", "socks", "http"} =>
              a \notin XrayAccounts(row, users)
         /\ row.protocol \in {"socks", "http"} =>
              (a \in XrayAccounts(row, users) <=> ByLabel(a, users))
<1>1. ASSUME row.protocol \notin {"socks", "http", "tun", "shadowsocks"}
      PROVE  a \in XrayAccounts(row, users) <=> \E n \in DOMAIN users : a \in XrayClient(row, users[n])
  BY <1>1 DEF XrayAccounts, Each
<1>2. ASSUME row.protocol \in {"socks", "http"}
      PROVE  a \in XrayAccounts(row, users) <=> ByLabel(a, users)
  BY <1>2 DEF XrayAccounts, Each, Login, ByLabel
<1>3. ASSUME row.protocol = "tun"
      PROVE  a \notin XrayAccounts(row, users)
  BY <1>3 DEF XrayAccounts
<1>4. ASSUME NEW u
      PROVE  /\ row.protocol = "vless" => XrayClient(row, u) = {Account(u.uuid, "", "", Vision(row))}
             /\ row.protocol \in {"vmess", "xhttp"} => XrayClient(row, u) = {Account(u.uuid, "", "", "")}
             /\ row.protocol \in {"trojan", "hysteria2"} => XrayClient(row, u) = {Account("", u.uuid, "", "")}
             /\ row.protocol \notin {"vless", "vmess", "xhttp", "trojan", "hysteria2"} => XrayClient(row, u) = {}
  BY DEF XrayClient, ById, BySecret
<1>5. CASE row.protocol = "vless"
  BY <1>1, <1>4, <1>5 DEF ByUuid
<1>6. CASE row.protocol \in {"vmess", "xhttp"}
  BY <1>1, <1>4, <1>6 DEF ByUuid
<1>7. CASE row.protocol \in {"trojan", "hysteria2"}
  BY <1>1, <1>4, <1>7 DEF ByPassword
<1>8. CASE row.protocol \in {"socks", "http"}
  BY <1>2, <1>8
<1>9. CASE row.protocol \notin {"vless", "vmess", "xhttp", "trojan", "hysteria2", "socks", "http"}
  BY <1>1, <1>3, <1>4, <1>9
<1> QED
  BY <1>5, <1>6, <1>7, <1>8, <1>9

\* The same of sing-box.
LEMMA SingboxHas ==
  ASSUME NEW row, NEW users, NEW a
  PROVE  /\ row.protocol = "vless" =>
              (a \in buildUsers(row, users) <=> ByUuid(a, users, Vision(row)))
         /\ row.protocol = "vmess" =>
              (a \in buildUsers(row, users) <=> ByUuid(a, users, ""))
         /\ row.protocol \in {"trojan", "hysteria2", "tuic_v4", "anytls"} =>
              (a \in buildUsers(row, users) <=> ByPassword(a, users))
         /\ row.protocol = "tuic_v5" =>
              (a \in buildUsers(row, users) <=> ByBoth(a, users))
         /\ row.protocol = "naive" =>
              (a \in buildUsers(row, users) <=> ByLabel(a, users))
         /\ row.protocol \notin HasUsers => a \notin buildUsers(row, users)
<1>1. /\ row.protocol \in HasUsers => (a \in buildUsers(row, users) <=> \E n \in DOMAIN users : a = SingboxUser(row, users[n]))
      /\ row.protocol \notin HasUsers => a \notin buildUsers(row, users)
  BY DEF buildUsers, Each
<1>2. ASSUME NEW u
      PROVE  /\ row.protocol = "vless" => SingboxUser(row, u) = Account(u.uuid, "", "", Vision(row))
             /\ row.protocol = "vmess" => SingboxUser(row, u) = Account(u.uuid, "", "", "")
             /\ row.protocol \in {"trojan", "hysteria2", "tuic_v4", "anytls"} => SingboxUser(row, u) = Account("", u.uuid, "", "")
             /\ row.protocol = "tuic_v5" =>
                  SingboxUser(row, u) = Account(u.uuid, IF u.token # "" THEN u.token ELSE u.uuid, "", "")
             /\ row.protocol = "naive" => SingboxUser(row, u) = Account(u.label, u.uuid, "", "")
  BY DEF SingboxUser, ById, BySecret, Login
<1>3. {"vless", "vmess", "trojan", "hysteria2", "tuic_v4", "anytls", "tuic_v5", "naive"} \subseteq HasUsers
  BY DEF HasUsers
<1>4. CASE row.protocol = "vless"
  BY <1>1, <1>2, <1>3, <1>4 DEF ByUuid
<1>5. CASE row.protocol = "vmess"
  BY <1>1, <1>2, <1>3, <1>5 DEF ByUuid
<1>6. CASE row.protocol \in {"trojan", "hysteria2", "tuic_v4", "anytls"}
  BY <1>1, <1>2, <1>3, <1>6 DEF ByPassword
<1>7. CASE row.protocol = "tuic_v5"
  BY <1>1, <1>2, <1>3, <1>7 DEF ByBoth
<1>8. CASE row.protocol = "naive"
  BY <1>1, <1>2, <1>3, <1>8 DEF ByLabel
<1>9. CASE row.protocol \notin {"vless", "vmess", "trojan", "hysteria2", "tuic_v4", "anytls", "tuic_v5", "naive"}
  BY <1>1, <1>9
<1> QED
  BY <1>4, <1>5, <1>6, <1>7, <1>8, <1>9

\* The password of the row is what is presented, if there is one.
LEMMA PasswordTold ==
  ASSUME NEW row, NEW user, "password" \in DOMAIN row.cfg
  PROVE  RowPassword(row, user) = row.cfg["password"] /\ Get(row.cfg, "password") = row.cfg["password"]
BY DEF RowPassword, Get, GetStringOrDefault

\* VLESS, VMess and Trojan: written in every format, by UUID.
LEMMA MainFits ==
  ASSUME NEW format \in Formats, NEW c \in {"xray", "singbox"}, NEW row, NEW users, NEW user,
         Apart(row, users, user), row.protocol \in {"vless", "vmess", "trojan"}
  PROVE  /\ Writes(format, row.protocol)
         /\ ClientAccount(format, row, user) \in ServerAccounts(c, row, users) <=> Fits(c, format, row)
<1>1. PICK flow : flow = Get(row.cfg, "flow")
  OBVIOUS
<1>2. PICK a : a = ClientAccount(format, row, user)
  OBVIOUS
<1>3. PICK n \in DOMAIN users : users[n] = user
  BY DEF Apart
<1>4. Writes(format, row.protocol)
  BY DEF Writes, protocolLinks, singboxProtocols, clashProtocols, Formats
<1>5. /\ ServerAccounts("xray", row, users) = XrayAccounts(row, users)
      /\ ServerAccounts("singbox", row, users) = buildUsers(row, users)
  <2>1. RowAccount(row) = {}
    BY DEF RowAccount
  <2> QED
    BY <2>1 DEF ServerAccounts
<1>6. CASE row.protocol = "vless"
  <2>1. a = Account(user.uuid, "", "", flow)
    BY <1>1, <1>2, <1>6 DEF ClientAccount, LinkAccount, SingboxAccount, ClashAccount, IsolateAccount, WithFlow, Formats
  <2>2. PICK v : v = Vision(row)
    OBVIOUS
  <2>3. a \in ServerAccounts(c, row, users) <=> ByUuid(a, users, v)
    <3>1. a \in XrayAccounts(row, users) <=> ByUuid(a, users, Vision(row))
      BY <1>6, XrayHas
    <3>2. a \in buildUsers(row, users) <=> ByUuid(a, users, Vision(row))
      BY <1>6, SingboxHas
    <3> QED
      BY <1>5, <2>2, <3>1, <3>2
  <2>4. a \in ServerAccounts(c, row, users) <=> flow = v
    <3>1. flow = v => ByUuid(a, users, v)
      BY <1>3, <2>1 DEF ByUuid
    <3>2. ASSUME ByUuid(a, users, v)
          PROVE  flow = v
      <4>1. PICK m \in DOMAIN users : a = Account(users[m].uuid, "", "", v)
        BY <3>2 DEF ByUuid
      <4>2. a.flow = v
        BY <4>1 DEF Account
      <4>3. a.flow = flow
        BY <2>1 DEF Account
      <4> QED
        BY <4>2, <4>3
    <3> QED
      BY <2>3, <3>1, <3>2
  <2>5. Fits(c, format, row) <=> flow = v
    BY <1>1, <1>6, <2>2 DEF Fits
  <2> QED
    BY <1>2, <1>4, <2>4, <2>5
<1>7. CASE row.protocol = "vmess"
  <2>1. a = Account(user.uuid, "", "", IF format = "isolate" THEN flow ELSE "")
    BY <1>1, <1>2, <1>7 DEF ClientAccount, LinkAccount, SingboxAccount, ClashAccount, IsolateAccount, WithFlow, ById, Formats
  <2>2. a \in ServerAccounts(c, row, users) <=> ByUuid(a, users, "")
    <3>1. a \in XrayAccounts(row, users) <=> ByUuid(a, users, "")
      BY <1>7, XrayHas
    <3>2. a \in buildUsers(row, users) <=> ByUuid(a, users, "")
      BY <1>7, SingboxHas
    <3> QED
      BY <1>5, <3>1, <3>2
  <2>3. PICK f : f = IF format = "isolate" THEN flow ELSE ""
    OBVIOUS
  <2>4. a = Account(user.uuid, "", "", f)
    BY <2>1, <2>3
  <2>5. a \in ServerAccounts(c, row, users) <=> f = ""
    <3>1. f = "" => ByUuid(a, users, "")
      BY <1>3, <2>4 DEF ByUuid
    <3>2. ASSUME ByUuid(a, users, "")
          PROVE  f = ""
      <4>1. PICK m \in DOMAIN users : a = Account(users[m].uuid, "", "", "")
        BY <3>2 DEF ByUuid
      <4>2. a.flow = ""
        BY <4>1 DEF Account
      <4>3. a.flow = f
        BY <2>4 DEF Account
      <4> QED
        BY <4>2, <4>3
    <3> QED
      BY <2>2, <3>1, <3>2
  <2>6. Fits(c, format, row) <=> f = ""
    BY <1>1, <1>7, <2>3 DEF Fits
  <2> QED
    BY <1>2, <1>4, <2>5, <2>6
<1>8. CASE row.protocol = "trojan"
  <2>1. a = Account("", user.uuid, "", "")
    BY <1>2, <1>8 DEF ClientAccount, LinkAccount, SingboxAccount, ClashAccount, IsolateAccount, BySecret, Formats
  <2>2. a \in ServerAccounts(c, row, users) <=> ByPassword(a, users)
    <3>1. a \in XrayAccounts(row, users) <=> ByPassword(a, users)
      BY <1>8, XrayHas
    <3>2. a \in buildUsers(row, users) <=> ByPassword(a, users)
      BY <1>8, SingboxHas
    <3> QED
      BY <1>5, <3>1, <3>2
  <2>3. a \in ServerAccounts(c, row, users)
    BY <1>3, <2>1, <2>2 DEF ByPassword
  <2>4. Fits(c, format, row)
    BY <1>8 DEF Fits
  <2> QED
    BY <1>2, <1>4, <2>3, <2>4
<1> QED
  BY <1>6, <1>7, <1>8

\* Those a format may not write, or with an account of another kind.
LEMMA OthersFit ==
  ASSUME NEW format \in Formats, NEW c \in {"xray", "singbox"}, NEW row, NEW users, NEW user,
         Apart(row, users, user), Complete(row.protocol, row.cfg),
         row.protocol \in {"hysteria2", "xhttp", "tuic_v5"}
  PROVE  (Writes(format, row.protocol) /\ ClientAccount(format, row, user) \in ServerAccounts(c, row, users))
           <=> Fits(c, format, row)
<1>1. PICK a : a = ClientAccount(format, row, user)
  OBVIOUS
<1>2. PICK n \in DOMAIN users : users[n] = user
  BY DEF Apart
<1>3. /\ ServerAccounts("xray", row, users) = XrayAccounts(row, users)
      /\ ServerAccounts("singbox", row, users) = buildUsers(row, users)
  <2>1. RowAccount(row) = {}
    BY DEF RowAccount
  <2> QED
    BY <2>1 DEF ServerAccounts
<1>4. PICK password : password = RowPassword(row, user)
  OBVIOUS
<1>5. row.protocol \in PasswordOf => password = Get(row.cfg, "password") /\ \A m \in DOMAIN users : users[m].uuid # password
  BY <1>4, PasswordTold DEF Complete, Apart
<1>12. a = Account("", user.uuid, "", "") => ByPassword(a, users)
  BY <1>2 DEF ByPassword
<1>13. ASSUME row.protocol \in PasswordOf, a = Account("", password, "", ""), ByPassword(a, users)
       PROVE  FALSE
  <2>1. PICK m \in DOMAIN users : a = Account("", users[m].uuid, "", "")
    BY <1>13 DEF ByPassword
  <2>2. users[m].uuid = password
    <3>1. a.secret = password
      BY <1>13 DEF Account
    <3>2. a.secret = users[m].uuid
      BY <2>1 DEF Account
    <3> QED
      BY <3>1, <3>2
  <2> QED
    BY <1>5, <1>13, <2>2
<1>6. /\ a = Account("", user.uuid, "", "") => ByPassword(a, users)
      /\ row.protocol \in PasswordOf /\ a = Account("", password, "", "") => ~ByPassword(a, users)
  BY <1>12, <1>13
<1>7. CASE row.protocol = "hysteria2"
  <2>1. Writes(format, row.protocol) <=> TRUE
    BY <1>7 DEF Writes, protocolLinks, singboxProtocols, clashProtocols, Formats
  <2>2. a = IF format = "v2ray" THEN Account("", user.uuid, "", "") ELSE Account("", password, "", "")
    BY <1>1, <1>4, <1>7 DEF ClientAccount, LinkAccount, SingboxAccount, ClashAccount, IsolateAccount, BySecret, Formats
  <2>3. a \in ServerAccounts(c, row, users) <=> ByPassword(a, users)
    <3>1. a \in XrayAccounts(row, users) <=> ByPassword(a, users)
      BY <1>7, XrayHas
    <3>2. a \in buildUsers(row, users) <=> ByPassword(a, users)
      BY <1>7, SingboxHas
    <3> QED
      BY <1>3, <3>1, <3>2
  <2>4. ByPassword(a, users) <=> format = "v2ray"
    BY <1>6, <1>7, <2>2 DEF PasswordOf
  <2>5. Fits(c, format, row) <=> format = "v2ray"
    BY <1>7 DEF Fits
  <2> QED
    BY <1>1, <2>1, <2>3, <2>4, <2>5
<1>8. CASE row.protocol = "xhttp"
  <2>1. Writes(format, row.protocol) <=> format \in {"v2ray", "isolate"}
    BY <1>8 DEF Writes, protocolLinks, singboxProtocols, clashProtocols, Formats
  <2>2. format \in {"v2ray", "isolate"} => a = Account(user.uuid, "", "", "")
    BY <1>1, <1>8 DEF ClientAccount, LinkAccount, IsolateAccount, ById
  <2>3. a \in ServerAccounts(c, row, users) <=> c = "xray" /\ ByUuid(a, users, "")
    <3>1. a \in XrayAccounts(row, users) <=> ByUuid(a, users, "")
      BY <1>8, XrayHas
    <3>2. a \in buildUsers(row, users) <=> FALSE
      BY <1>8, SingboxHas DEF HasUsers
    <3> QED
      BY <1>3, <3>1, <3>2
  <2>4. Fits(c, format, row) <=> c = "xray" /\ format \in {"v2ray", "isolate"}
    BY <1>8 DEF Fits
  <2>5. format \in {"v2ray", "isolate"} => (a \in ServerAccounts(c, row, users) <=> c = "xray")
    BY <1>2, <2>2, <2>3 DEF ByUuid
  <2> QED
    BY <1>1, <2>1, <2>4, <2>5
<1>9. CASE row.protocol = "tuic_v5"
  <2>1. Writes(format, row.protocol) <=> TRUE
    BY <1>9 DEF Writes, protocolLinks, singboxProtocols, clashProtocols, Formats
  <2>2. a = Account(user.uuid, user.token, "", "")
    <3>1. TokenOf(user) = user.token
      BY DEF TokenOf, Apart
    <3> QED
      BY <1>1, <1>9, <3>1 DEF ClientAccount, LinkAccount, SingboxAccount, ClashAccount, IsolateAccount, Login, Formats
  <2>3. a \in ServerAccounts(c, row, users) <=> c = "singbox" /\ ByBoth(a, users)
    <3>1. a \in XrayAccounts(row, users) <=> FALSE
      BY <1>9, XrayHas
    <3>2. a \in buildUsers(row, users) <=> ByBoth(a, users)
      BY <1>9, SingboxHas
    <3> QED
      BY <1>3, <3>1, <3>2
  <2>4. a = Account(users[n].uuid, IF users[n].token # "" THEN users[n].token ELSE users[n].uuid, "", "")
    BY <1>2, <2>2 DEF Apart
  <2>5. Fits(c, format, row) <=> c = "singbox"
    BY <1>9 DEF Fits
  <2> QED
    BY <1>1, <2>1, <2>3, <2>4, <2>5 DEF ByBoth
<1> QED
  BY <1>7, <1>8, <1>9

\* The rest: an entry presents a setting, a token, nothing at all, or a login by
\* the user's name, where the core has the users' UUIDs, its labels for them, or
\* the one account of the row.
Proxies == {"http", "socks5", "mixed", "naive", "naiveproxy"}

Settings(row) == {row.cfg[k] : k \in DOMAIN row.cfg}

\* Of a protocol that never fits, what an entry may present,
LEMMA UnfitTold ==
  ASSUME NEW format \in Formats, NEW row, NEW user, user.token # "", Complete(row.protocol, row.cfg),
         row.protocol \notin Fitting \cup Unserved \cup {"ssr", "shadowsocksr"}, Writes(format, row.protocol)
  PROVE  IF row.protocol \in Proxies THEN ClientAccount(format, row, user) = Account(user.name, user.uuid, "", "")
         ELSE ClientAccount(format, row, user).secret \in {"", user.token} \cup Settings(row)
<1>0. PICK a : a = ClientAccount(format, row, user)
  OBVIOUS
<1>1. TokenOf(user) = user.token
  BY DEF TokenOf
<1>2. row.protocol \in PasswordOf => RowPassword(row, user) \in Settings(row)
  BY PasswordTold DEF Complete, Settings
<1>3. row.protocol = "hysteria" =>
        GetStringOrDefault(row.cfg, "auth_str", user.uuid) \in Settings(row)
  BY DEF GetStringOrDefault, Complete, Settings
<1> DEFINE Goal == IF row.protocol \in Proxies THEN a = Account(user.name, user.uuid, "", "")
                   ELSE a.secret \in {"", user.token} \cup Settings(row)
<1>5. ASSUME row.protocol \in Proxies PROVE Goal
  <2>1. a = Login(user.name, user.uuid)
    BY <1>5, <1>0 DEF ClientAccount, LinkAccount, SingboxAccount, ClashAccount, IsolateAccount, Writes, protocolLinks,
       singboxProtocols, clashProtocols, Formats, Proxies
  <2> QED
    BY <1>5, <2>1 DEF Login
<1>6. ASSUME row.protocol = "shadowsocks" PROVE Goal
  <2>1. a = RowMethod(row, user)
    BY <1>6, <1>0 DEF ClientAccount, LinkAccount, SingboxAccount, ClashAccount, IsolateAccount, Formats
  <2>2. a.secret = RowPassword(row, user)
    BY <2>1 DEF Account, RowMethod
  <2> QED
    BY <1>2, <1>6, <2>2 DEF PasswordOf, Proxies
<1>7. ASSUME row.protocol = "anytls" PROVE Goal
  <2>1. a = BySecret(RowPassword(row, user))
    BY <1>7, <1>0 DEF ClientAccount, LinkAccount, SingboxAccount, ClashAccount, IsolateAccount, Formats
  <2>2. a.secret = RowPassword(row, user)
    BY <2>1 DEF Account, BySecret
  <2> QED
    BY <1>2, <1>7, <2>2 DEF PasswordOf, Proxies
<1>8. ASSUME row.protocol = "hysteria" PROVE Goal
  <2>1. a = BySecret(GetStringOrDefault(row.cfg, "auth_str", user.uuid))
    BY <1>8, <1>0 DEF ClientAccount, LinkAccount, SingboxAccount, ClashAccount, IsolateAccount, Writes, protocolLinks, Formats
  <2>2. a.secret = GetStringOrDefault(row.cfg, "auth_str", user.uuid)
    BY <2>1 DEF Account, BySecret
  <2> QED
    BY <1>3, <1>8, <2>2 DEF Proxies
<1>9. ASSUME row.protocol \in {"tuic_v4", "tuic", "snell"} PROVE Goal
  <2>1. a \in {BySecret(TokenOf(user)), Login(user.uuid, TokenOf(user))}
    BY <1>9, <1>0 DEF ClientAccount, LinkAccount, SingboxAccount, ClashAccount, IsolateAccount, Writes, singboxProtocols, Formats
  <2>2. a = Account("", user.token, "", "") \/ a = Account(user.uuid, user.token, "", "")
    BY <1>1, <2>1 DEF BySecret, Login
  <2>3. CASE a = Account("", user.token, "", "")
    BY <1>9, <2>3 DEF Account, Proxies
  <2>4. CASE a = Account(user.uuid, user.token, "", "")
    BY <1>9, <2>4 DEF Account, Proxies
  <2> QED
    BY <2>2, <2>3, <2>4
<1>10. ASSUME row.protocol \notin {"shadowsocks", "anytls", "hysteria", "tuic_v4", "tuic", "snell"} \cup Proxies PROVE Goal
  <2>1. format = "isolate"
    BY <1>10 DEF Writes, protocolLinks, singboxProtocols, clashProtocols, Formats, Proxies, Fitting, Unserved
  <2>2. a = Account("", "", "", "")
    BY <1>10, <1>0, <2>1 DEF ClientAccount, IsolateAccount, Proxies, Fitting, Unserved
  <2>3. a.secret = ""
    BY <2>2 DEF Account
  <2> QED
    BY <1>10, <2>3
<1> QED
  BY <1>5, <1>6, <1>7, <1>8, <1>9, <1>10, <1>0

\* and what a core may have.
LEMMA UnfitHad ==
  ASSUME NEW c \in {"xray", "singbox"}, NEW row, NEW users, HasOne(users),
         row.protocol \notin Fitting \cup Unserved \cup {"ssr"}, NEW a \in ServerAccounts(c, row, users)
  PROVE  /\ row.protocol # "shadowsocksr"
         /\ \/ \E n \in DOMAIN users : a.secret = users[n].uuid /\ (row.protocol \in Proxies => a.id = users[n].label)
            \/ row.protocol \in Proxies /\ a.secret \in {""} \cup Settings(row)
<1>1. row.protocol \notin {"vless", "vmess", "trojan", "hysteria2", "xhttp", "tuic_v5", "sudoku", "trusttunnel", "mieru", "ssr"}
  BY DEF Fitting, Unserved
<1>2. ASSUME ByPassword(a, users)
      PROVE  \E n \in DOMAIN users : a.secret = users[n].uuid
  <2>1. PICK n \in DOMAIN users : a = Account("", users[n].uuid, "", "")
    BY <1>2 DEF ByPassword
  <2>2. a.secret = users[n].uuid
    BY <2>1 DEF Account
  <2> QED
    BY <2>2
<1>3. ASSUME ByLabel(a, users)
      PROVE  \E n \in DOMAIN users : a.secret = users[n].uuid /\ a.id = users[n].label
  <2>1. PICK n \in DOMAIN users : a = Account(users[n].label, users[n].uuid, "", "")
    BY <1>3 DEF ByLabel
  <2>2. a.secret = users[n].uuid /\ a.id = users[n].label
    BY <2>1 DEF Account
  <2> QED
    BY <2>2
<1>4. CASE c = "xray" /\ row.protocol = "shadowsocks"
  <2>1. PICK n \in DOMAIN users : a \in XrayShadowsocks(row, users[n])
    BY <1>4 DEF ServerAccounts, XrayAccounts, Each
  <2>2. PICK method : method = Get(row.cfg, "method")
    OBVIOUS
  <2>3. \/ a = Account(RandomKey, users[n].uuid, method, "")
        \/ a = Account("", users[n].uuid, "aes-128-gcm", "")
    BY <2>1, <2>2 DEF XrayShadowsocks
  <2>4. a.secret = users[n].uuid
    <3>1. CASE a = Account(RandomKey, users[n].uuid, method, "")
      BY <3>1 DEF Account
    <3>2. CASE a = Account("", users[n].uuid, "aes-128-gcm", "")
      BY <3>2 DEF Account
    <3> QED
      BY <2>3, <3>1, <3>2
  <2> QED
    BY <1>4, <2>4 DEF Proxies
<1>5. CASE c = "xray" /\ row.protocol # "shadowsocks"
  <2>1. a \in XrayAccounts(row, users)
    BY <1>5 DEF ServerAccounts
  <2>2. row.protocol \in {"socks", "http"} /\ ByLabel(a, users)
    BY <1>1, <1>5, <2>1, XrayHas
  <2> QED
    BY <1>3, <2>2
<1>6. CASE c = "singbox" /\ a \in RowAccount(row)
  BY <1>6, OneOfRow DEF Proxies, Settings
<1>7. CASE c = "singbox" /\ a \in buildUsers(row, users)
  <2>1. row.protocol \in {"tuic_v4", "anytls", "naive", "shadowsocks"}
    BY <1>1, <1>7, SingboxHas DEF HasUsers
  <2>2. CASE row.protocol \in {"tuic_v4", "anytls"}
    <3>1. ByPassword(a, users)
      BY <1>7, <2>2, SingboxHas
    <3> QED
      BY <1>2, <2>2, <3>1 DEF Proxies
  <2>3. CASE row.protocol = "naive"
    <3>1. ByLabel(a, users)
      BY <1>7, <2>3, SingboxHas
    <3> QED
      BY <1>3, <2>3, <3>1
  <2>4. CASE row.protocol = "shadowsocks"
    <3>1. PICK n \in DOMAIN users : a = SingboxUser(row, users[n])
      BY <1>7, <2>4 DEF buildUsers, Each
    <3>2. a = SingboxShadowsocks(row, users[n])
      BY <2>4, <3>1 DEF SingboxUser
    <3>3. a.secret = users[n].uuid
      BY <3>2 DEF Account, SingboxShadowsocks
    <3> QED
      BY <2>4, <3>3 DEF Proxies
  <2> QED
    BY <2>1, <2>2, <2>3, <2>4
<1>10. c = "singbox" => a \in buildUsers(row, users) \cup RowAccount(row)
  BY DEF ServerAccounts
<1> QED
  BY <1>4, <1>5, <1>6, <1>7, <1>10

\* The two have nothing in common.
LEMMA NoneFits ==
  ASSUME NEW format \in Formats, NEW c \in {"xray", "singbox"}, NEW row, NEW users, NEW user,
         Apart(row, users, user), HasOne(users), Complete(row.protocol, row.cfg),
         row.protocol \notin Fitting \cup Unserved \cup {"ssr"}, Writes(format, row.protocol),
         ClientAccount(format, row, user) \in ServerAccounts(c, row, users)
  PROVE  FALSE
<1>1. PICK a : a = ClientAccount(format, row, user)
  OBVIOUS
<1>2. PICK m \in DOMAIN users : users[m] = user
  BY DEF Apart
<1>3. /\ row.protocol # "shadowsocksr"
      /\ \/ \E n \in DOMAIN users : a.secret = users[n].uuid /\ (row.protocol \in Proxies => a.id = users[n].label)
         \/ row.protocol \in Proxies /\ a.secret \in {""} \cup Settings(row)
  <2>1. a \in ServerAccounts(c, row, users)
    BY <1>1
  <2> QED
    BY <2>1, UnfitHad
<1>4. user.token # ""
  BY DEF Apart
<1>5. IF row.protocol \in Proxies THEN a = Account(user.name, user.uuid, "", "")
      ELSE a.secret \in {"", user.token} \cup Settings(row)
  BY <1>1, <1>3, <1>4, UnfitTold
<1>6. CASE row.protocol \in Proxies
  <2>1. a.id = user.name /\ a.secret = user.uuid
    <3>1. a = Account(user.name, user.uuid, "", "")
      BY <1>5, <1>6
    <3> QED
      BY <3>1 DEF Account
  <2> QED
    BY <1>2, <1>3, <1>6, <2>1 DEF Apart, Settings
<1>7. CASE row.protocol \notin Proxies
  BY <1>3, <1>5, <1>7 DEF Apart, Settings
<1> QED
  BY <1>6, <1>7

-----------------------------------------------------------------------------
(* What a user is told works exactly where it is understood.               *)

\* An entry presents an account the core has exactly where it fits.
LEMMA AccountTold ==
  ASSUME NEW format \in Formats, NEW c \in {"xray", "singbox"}, NEW row, NEW users, NEW user,
         Apart(row, users, user), HasOne(users), Complete(row.protocol, row.cfg), row.protocol # "ssr"
  PROVE  (Writes(format, row.protocol) /\ ClientAccount(format, row, user) \in ServerAccounts(c, row, users))
           <=> Fits(c, format, row)
<1>1. CASE row.protocol \in {"vless", "vmess", "trojan"}
  BY <1>1, MainFits
<1>2. CASE row.protocol \in {"hysteria2", "xhttp", "tuic_v5"}
  BY <1>2, OthersFit
<1>3. CASE row.protocol \in Unserved
  <2>1. ~Fits(c, format, row)
    BY <1>3 DEF Fits, Unserved
  <2>2. PICK a : a = ClientAccount(format, row, user)
    OBVIOUS
  <2>3. a \notin XrayAccounts(row, users)
    BY <1>3, XrayHas DEF Unserved
  <2>4. a \notin buildUsers(row, users) /\ RowAccount(row) = {}
    BY <1>3 DEF Unserved, buildUsers, HasUsers, RowAccount
  <2> QED
    BY <2>1, <2>2, <2>3, <2>4 DEF ServerAccounts
<1>4. CASE row.protocol \notin Fitting \cup Unserved
  <2>1. ~Fits(c, format, row)
    BY <1>4 DEF Fits, Fitting
  <2>2. row.protocol \notin Fitting \cup Unserved \cup {"ssr"}
    BY <1>4
  <2> QED
    BY <2>1, <2>2, NoneFits
<1> QED
  BY <1>1, <1>2, <1>3, <1>4 DEF Fitting

\* Of the other protocols, a format knows what fits and is carried.
LEMMA KnownFits ==
  ASSUME NEW format \in Formats, NEW c \in {"xray", "singbox"}, NEW row,
         row.protocol \notin {"vless", "vmess", "trojan", "hysteria2"}
  PROVE  /\ <<row.protocol, c, format>> \in OthersKnown <=>
              Fits(c, format, row) /\ ~(format = "v2ray" /\ row.protocol = "xhttp")
         /\ <<row.protocol, c, format>> \in OthersKnown => KnownFor(format, row.protocol)
<1>1. PICK protocol : protocol = row.protocol
  OBVIOUS
<1>2. <<protocol, c, format>> \in OthersKnown <=>
        \/ protocol = "tuic_v5" /\ c = "singbox"
        \/ protocol = "xhttp" /\ c = "xray" /\ format = "isolate"
  BY DEF OthersKnown
<1>3. Fits(c, format, row) <=>
        \/ protocol = "tuic_v5" /\ c = "singbox"
        \/ protocol = "xhttp" /\ c = "xray" /\ format \in {"v2ray", "isolate"}
  BY <1>1 DEF Fits
<1> QED
  BY <1>1, <1>2, <1>3 DEF KnownFor

\* The row is one of those a user can be told of.
Telling(row) ==
  /\ Flags(row)
  /\ row.protocol # "ssr"
  /\ Get(row.cfg, "transport") # "xhttp"
  /\ Complete(row.protocol, row.cfg)

\* The parts together: an entry is accepted exactly where the format understands.
LEMMA ExactlyUnderstood ==
  ASSUME NEW format \in Formats, NEW raw, NEW row, Read(raw, row), Telling(row),
         core \in {"xray", "singbox"},
         NEW users, NEW user, Apart(row, users, user), HasOne(users)
  PROVE  (\E entry \in Generate(format, row, user), server \in ConvertInbound(core, row, users) :
            Accepts(server, format, entry)) <=> Understood(format, raw)
<1>1. PICK c : c = core
  OBVIOUS
<1>2. c \in {"xray", "singbox"} /\ c # "mihomo"
  BY <1>1
<1>3. PICK server :
        /\ ConvertInbound(c, row, users) = {server}
        /\ server.accounts = ServerAccounts(c, row, users)
        /\ row.protocol # "tun" => /\ server.transport = WsGrpcH2(row.cfg)
                                   /\ server.security = Security(row)
                                   /\ server.certificate <=> row.tls /\ row.cert
  BY <1>2, EndpointMade DEF Telling
<1>4. ASSUME (\E entry \in Generate(format, row, user) : Accepts(server, format, entry)) <=> Understood(format, raw)
      PROVE  (\E entry \in Generate(format, row, user), door \in ConvertInbound(core, row, users) :
                Accepts(door, format, entry)) <=> Understood(format, raw)
  BY <1>1, <1>3, <1>4
<1>5. PICK t, s, a : t = ClientTransport(format, row) /\ s = ClientSecurity(format, row) /\ a = ClientAccount(format, row, user)
  OBVIOUS
<1>6. \A e : e \in Generate(format, row, user) <=> Writes(format, row.protocol) /\ e = Entry(t, s, a)
  BY <1>5, EntryMade
<1>7. Entry(t, s, a).transport = t /\ Entry(t, s, a).security = s /\ Entry(t, s, a).account = a
  BY DEF Entry
<1>8. (\E entry \in Generate(format, row, user) : Accepts(server, format, entry)) <=>
        /\ Writes(format, row.protocol)
        /\ SameTransport(format, t, server.transport)
        /\ s = server.security
        /\ server.security = "tls" => server.certificate
        /\ a \in server.accounts
  BY <1>6, <1>7 DEF Accepts
<1>9. (Writes(format, row.protocol) /\ a \in server.accounts) <=> Fits(c, format, row)
  <2>1. (Writes(format, row.protocol) /\ ClientAccount(format, row, user) \in ServerAccounts(c, row, users))
          <=> Fits(c, format, row)
    BY <1>2, AccountTold DEF Telling
  <2> QED
    BY <1>3, <1>5, <2>1
<1>10. raw.protocol = row.protocol
  BY DEF Read
<1>11. PICK protocol : protocol = row.protocol
  OBVIOUS
<1>12. ASSUME protocol \notin Fitting
       PROVE  ~Fits(c, format, row) /\ ~Understood(format, raw)
  <2>1. ~Fits(c, format, row)
    BY <1>11, <1>12 DEF Fits, Fitting
  <2>2. <<row.protocol, c, format>> \notin OthersKnown
    BY <1>2, <1>11, <1>12, <2>1, KnownFits DEF Fitting
  <2>3. ~Understood(format, raw)
    BY <1>1, <1>10, <1>11, <1>12, <2>2 DEF Understood, Fitting
  <2> QED
    BY <2>1, <2>3
<1>13. ASSUME protocol \in Fitting
       PROVE  (\E entry \in Generate(format, row, user) : Accepts(server, format, entry)) <=>
                /\ Carried(format, raw) /\ ~(format = "v2ray" /\ row.protocol = "xhttp")
                /\ Secure(format, row)
                /\ Fits(c, format, row)
  <2>1. row.protocol # "tun"
    BY <1>11, <1>13 DEF Fitting
  <2>2. SameTransport(format, t, server.transport) <=> Carried(format, raw) /\ ~(format = "v2ray" /\ row.protocol = "xhttp")
    <3>1. SameTransport(format, ClientTransport(format, row), WsGrpcH2(row.cfg))
            <=> Carried(format, raw) /\ ~(format = "v2ray" /\ row.protocol = "xhttp")
      BY TransportTold DEF Telling
    <3> QED
      BY <1>3, <1>5, <2>1, <3>1
  <2>3. (s = server.security /\ (server.security = "tls" => server.certificate)) <=> Secure(format, row)
    BY <1>3, <1>5, <2>1 DEF Secure
  <2> QED
    BY <1>8, <1>9, <2>2, <2>3
<1>14. CASE protocol \in {"vless", "vmess", "trojan"}
  <2>1. Secure(format, row) <=> SameSecurity(format, raw)
    BY <1>1, <1>11, <1>14, MainSecurity DEF Telling
  <2>2. Fits(c, format, row) <=> SameFlow(format, raw)
    <3>1. PICK flow : flow = Get(row.cfg, "flow")
      OBVIOUS
    <3>2. flow = Get(AsRead(raw).cfg, "flow") /\ Vision(raw) = Vision(row)
      BY <3>1 DEF Read, Vision
    <3>3. SameFlow(format, raw) <=>
            /\ protocol = "vless" => flow = Vision(row)
            /\ protocol = "vmess" /\ format = "isolate" => flow = ""
      BY <1>1, <1>10, <1>11, <3>2 DEF SameFlow
    <3>4. Fits(c, format, row) <=>
            /\ protocol = "vless" => flow = Vision(row)
            /\ protocol = "vmess" /\ format = "isolate" => flow = ""
      BY <1>11, <1>14, <3>1 DEF Fits
    <3> QED
      BY <3>3, <3>4
  <2>3. Understood(format, raw) <=> Carried(format, raw) /\ SameSecurity(format, raw) /\ SameFlow(format, raw)
    BY <1>1, <1>2, <1>10, <1>11, <1>14 DEF Understood
  <2>4. protocol \in Fitting /\ ~(format = "v2ray" /\ row.protocol = "xhttp")
    BY <1>11, <1>14 DEF Fitting
  <2> QED
    BY <1>4, <1>13, <2>1, <2>2, <2>3, <2>4
<1>15. CASE protocol = "hysteria2"
  <2>1. Fits(c, format, row) <=> format = "v2ray"
    BY <1>11, <1>15 DEF Fits
  <2>2. Secure("v2ray", row) <=> Security(raw) = "tls" /\ raw.cert
    <3>1. ClientSecurity("v2ray", row) = "tls"
      BY <1>11, <1>15, SecuritySaid
    <3>2. Security(row) = "tls" => row.tls
      BY DEF Security
    <3> QED
      BY <1>1, <3>1, <3>2, SecurityRead DEF Secure
  <2>3. Understood(format, raw) <=> Carried(format, raw) /\ format = "v2ray" /\ Security(raw) = "tls" /\ raw.cert
    BY <1>1, <1>2, <1>10, <1>11, <1>15 DEF Understood
  <2>4. protocol \in Fitting /\ ~(format = "v2ray" /\ row.protocol = "xhttp")
    BY <1>11, <1>15 DEF Fitting
  <2> QED
    BY <1>4, <1>13, <2>1, <2>2, <2>3, <2>4
<1>16. CASE protocol \in Fitting \ {"vless", "vmess", "trojan", "hysteria2"}
  <2>1. /\ <<row.protocol, c, format>> \in OthersKnown <=>
             Fits(c, format, row) /\ ~(format = "v2ray" /\ row.protocol = "xhttp")
        /\ <<row.protocol, c, format>> \in OthersKnown => KnownFor(format, row.protocol)
    BY <1>2, <1>11, <1>16, KnownFits
  <2>2. ASSUME <<row.protocol, c, format>> \in OthersKnown
        PROVE  Secure(format, row) <=> OtherSecurity(format, raw)
    BY <1>1, <2>1, <2>2, OthersSecurity DEF Telling
  <2>3. Understood(format, raw) <=>
          Carried(format, raw) /\ <<row.protocol, c, format>> \in OthersKnown /\ OtherSecurity(format, raw)
    BY <1>1, <1>2, <1>10, <1>11, <1>16 DEF Understood
  <2> QED
    BY <1>4, <1>13, <1>16, <2>1, <2>2, <2>3
<1>17. CASE protocol \notin Fitting
  BY <1>4, <1>8, <1>9, <1>12, <1>17
<1> QED
  BY <1>14, <1>15, <1>16, <1>17

\* Who was in the list and is not left out is in the list that is left.
LEMMA WithoutKeeps ==
  ASSUME NEW S, NEW list \in Seq(S), NEW people
  PROVE  \A m \in DOMAIN list : list[m] \notin people =>
           \E n \in DOMAIN Without(list, people) : Without(list, people)[n] = list[m]
<1> DEFINE Holds(w, k) == /\ w \in Seq(S)
                          /\ \A m \in 1..k : list[m] \notin people => \E n \in DOMAIN w : w[n] = list[m]
<1>1. PICK a : a = CHOOSE it : it = Kept(list, people, it)
  OBVIOUS
<1>2. Len(list) \in Nat /\ DOMAIN list = 1..Len(list)
  OBVIOUS
<1>3. a = Kept(list, people, a)
  BY <1>1, <1>2, KeptExists
<1>4. Without(list, people) = a[Len(list)]
  BY <1>1 DEF Without, Kept, KeptOf
<1> DEFINE K == {k \in Nat : k <= Len(list) => Holds(a[k], k)}
<1>5. 0 \in K
  BY <1>2, <1>3 DEF Kept, KeptOf
<1>6. ASSUME NEW k \in Nat, k \in K
      PROVE  k + 1 \in K
  <2>1. SUFFICES ASSUME k + 1 <= Len(list)
                 PROVE  Holds(a[k + 1], k + 1)
    OBVIOUS
  <2>2. k \in 0..Len(list) /\ k + 1 \in 1..Len(list) /\ k + 1 \in 0..Len(list) /\ k + 1 # 0 /\ k + 1 - 1 = k
    BY <1>2, <2>1
  <2>3. Holds(a[k], k)
    BY <1>6, <2>2
  <2>4. a[k + 1] = IF list[k + 1] \in people THEN a[k] ELSE Append(a[k], list[k + 1])
    <3>1. \A n \in 0..Len(list) : a[n] = KeptOf(list, people, a, n)
      BY <1>3 DEF Kept
    <3> QED
      BY <2>2, <3>1 DEF KeptOf
  <2>5. PICK w : w = a[k]
    OBVIOUS
  <2>6. PICK x : x = list[k + 1]
    OBVIOUS
  <2>7. x \in S /\ w \in Seq(S)
    BY <2>2, <2>3, <2>5, <2>6
  <2>8. \A m \in 1..k + 1 : m \in 1..k \/ m = k + 1
    BY <2>2
  <2>9. CASE x \in people
    BY <2>3, <2>4, <2>5, <2>6, <2>7, <2>8, <2>9
  <2>10. CASE x \notin people
    <3>1. Append(w, x) \in Seq(S)
      BY <2>7
    <3>2. /\ \A n \in DOMAIN w : n \in DOMAIN Append(w, x) /\ Append(w, x)[n] = w[n]
          /\ Len(w) + 1 \in DOMAIN Append(w, x) /\ Append(w, x)[Len(w) + 1] = x
      BY <2>7
    <3>3. ASSUME NEW m \in 1..k + 1, list[m] \notin people
          PROVE  \E n \in DOMAIN Append(w, x) : Append(w, x)[n] = list[m]
      <4>1. CASE m \in 1..k
        BY <2>3, <2>5, <3>2, <3>3, <4>1
      <4>2. CASE m = k + 1
        BY <2>6, <3>2, <4>2
      <4> QED
        BY <2>8, <4>1, <4>2
    <3>4. Holds(Append(w, x), k + 1)
      BY <3>1, <3>3
    <3> QED
      BY <2>4, <2>5, <2>6, <2>10, <3>4
  <2> QED
    BY <2>9, <2>10
<1>7. Nat \subseteq K
  <2> HIDE DEF K
  <2> QED
    BY <1>5, <1>6, AllNumbers
<1>8. Holds(a[Len(list)], Len(list))
  BY <1>2, <1>7
<1> QED
  BY <1>2, <1>4, <1>8

\* Whoever is mapped to an inbound and not deleted is one of its users.
LEMMA UserThere ==
  ASSUME NEW d, RowsOk(d), NEW i \in Ids, NEW p \in Sequence!Range(d.mapped[i]) \ d.deleted
  PROVE  \E n \in DOMAIN GenerateConfig(d).users[i] : GenerateConfig(d).users[i][n] = User(p, d.version[p])
<1>1. PICK list, gone : list = d.mapped[i] /\ gone = d.deleted
  OBVIOUS
<1>2. list \in Seq(Person)
  BY <1>1 DEF RowsOk
<1>3. PICK present : present = Without(list, gone)
  OBVIOUS
<1>4. GenerateConfig(d).users[i] = [n \in DOMAIN present |-> User(present[n], d.version[present[n]])]
  BY <1>1, <1>3 DEF GenerateConfig
<1>5. PICK m \in DOMAIN list : list[m] = p
  BY <1>1 DEF Sequence!Range
<1>6. p \notin gone
  BY <1>1
<1>7. PICK n \in DOMAIN present : present[n] = p
  BY <1>2, <1>3, <1>5, <1>6, WithoutKeeps
<1> QED
  BY <1>4, <1>7

\* No UUID is a token.
KindsDiffer ==
  \A p, q \in Person, v, w \in Nat : Secret(p, " uuid ", v) # Secret(q, " token ", w)

\* No user is called as a core calls one.
LabelsDiffer == \A p, q \in Person : "user_" \o p # q

\* The users of an inbound can be told from each other and from its settings.
LEMMA UsersApart ==
  ASSUME OfferingParameters, KindsDiffer, LabelsDiffer, NEW d, RowsOk(d), NEW i \in Ids,
         NEW p \in Sequence!Range(d.mapped[i]) \ d.deleted, p \in Person, NEW row,
         \A k \in DOMAIN row.cfg : ~IsSecret(row.cfg[k])
  PROVE  Apart(row, GenerateConfig(d).users[i], User(p, d.version[p]))
<1>1. PICK users : users = GenerateConfig(d).users[i]
  OBVIOUS
<1>2. \A q \in Person : d.version[q] \in Nat
  BY DEF RowsOk
<1>3. PICK v : v = d.version[p]
  OBVIOUS
<1>4. /\ User(p, v).token = Secret(p, " token ", v) /\ User(p, v).name = p
      /\ v \in Nat
  BY <1>2, <1>3 DEF User
<1>5. \E n \in DOMAIN users : users[n] = User(p, v)
  BY <1>1, <1>3, UserThere
<1>6. User(p, v).token # ""
  <2>1. PICK kind \in Kinds : kind = " token "
    BY DEF Kinds
  <2>2. IsSecret(Secret(p, kind, v))
    BY <1>4 DEF IsSecret
  <2>3. ~IsSecret("")
    BY DEF OfferingParameters, SecretsRandom
  <2> QED
    BY <1>4, <2>1, <2>2, <2>3
<1>7. ASSUME NEW n \in DOMAIN users
      PROVE  /\ users[n].uuid \notin {"", User(p, v).token}
             /\ users[n].label # User(p, v).name
             /\ \A k \in DOMAIN row.cfg : row.cfg[k] # users[n].uuid
  <2>1. PICK q \in Person : users[n] = User(q, d.version[q])
    BY <1>1, UsersServed
  <2>2. PICK w : w = d.version[q]
    OBVIOUS
  <2>3. users[n].uuid = Secret(q, " uuid ", w) /\ users[n].label = "user_" \o q /\ w \in Nat
    <3>1. PICK label, uuid : label = "user_" \o q /\ uuid = Secret(q, " uuid ", w)
      OBVIOUS
    <3>2. User(q, w).uuid = uuid /\ User(q, w).label = label
      BY <3>1 DEF User
    <3>3. w \in Nat
      BY <1>2, <2>2
    <3> QED
      BY <2>1, <2>2, <3>1, <3>2, <3>3
  <2>4. IsSecret(users[n].uuid)
    <3>1. PICK kind \in Kinds : kind = " uuid "
      BY DEF Kinds
    <3> QED
      BY <2>3, <3>1 DEF IsSecret
  <2>5. ~IsSecret("")
    BY DEF OfferingParameters, SecretsRandom
  <2>6. users[n].uuid # User(p, v).token
    BY <1>4, <2>3 DEF KindsDiffer
  <2>7. users[n].label # User(p, v).name
    BY <1>4, <2>3 DEF LabelsDiffer
  <2> QED
    BY <2>4, <2>5, <2>6, <2>7
<1> QED
  BY <1>1, <1>3, <1>5, <1>6, <1>7 DEF Apart

\* Reading a row changes its settings only: the strings are kept.
LEMMA ReadAs ==
  ASSUME NEW raw, RowOk(raw)
  PROVE  /\ Read(raw, AsRead(raw)) /\ AsRead(raw).cfg = Strings(raw.cfg)
         /\ \A k \in DOMAIN AsRead(raw).cfg : ~IsSecret(AsRead(raw).cfg[k])
<1>1. PICK row : row = AsRead(raw)
  OBVIOUS
<1>2. row = [raw EXCEPT !.cfg = Strings(@)]
  BY <1>1 DEF AsRead
<1>3. DOMAIN raw = Columns
  BY DEF RowOk
<1>4. /\ row.cfg = Strings(raw.cfg)
      /\ row.protocol = raw.protocol /\ row.tls = raw.tls /\ row.cert = raw.cert
      /\ row.reality = raw.reality /\ row.realityConfig = raw.realityConfig
  BY <1>2, <1>3 DEF Columns
<1>5. \A k \in DOMAIN row.cfg : ~IsSecret(row.cfg[k])
  BY <1>4 DEF RowOk, Public, Words
<1> QED
  BY <1>1, <1>4, <1>5 DEF Read

\* Every inbound, whoever is mapped to it, is one a user can be told of.
Tells(raw) == RowOk(raw) /\ Telling(AsRead(raw))

RowsTell(d) == \A i \in Ids : Tells(d.inbounds[i]) \/ (d.inbounds[i] = None /\ d.mapped[i] = << >>)

\* With such rows, and a core that is up to date, an entry works where it is understood.
LEMMA ExactlyWorks ==
  ASSUME OfferingParameters, KindsDiffer, LabelsDiffer, scene \in Scenes, RowsOk(db), RowsTell(db)
  PROVE  WorksExactly
<1> SUFFICES ASSUME Current, NEW p \in Person, NEW i \in GetUserSubscriptionData(p), NEW format \in Formats
             PROVE  LetsIn(i, format, Me(p)) <=> Understood(format, db.inbounds[i])
  BY DEF WorksExactly
<1>1. i \in Ids /\ p \in Sequence!Range(db.mapped[i]) \ db.deleted
  BY DEF GetUserSubscriptionData
<1>2. Tells(db.inbounds[i])
  <2>1. Sequence!Range(<< >>) = {}
    BY DEF Sequence!Range
  <2> QED
    BY <1>1, <2>1 DEF RowsTell
<1>3. PICK raw, row : raw = db.inbounds[i] /\ row = AsRead(raw)
  OBVIOUS
<1>4. RowOk(raw) /\ Telling(row)
  BY <1>2, <1>3 DEF Tells
<1>5. Read(raw, row) /\ \A k \in DOMAIN row.cfg : ~IsSecret(row.cfg[k])
  BY <1>3, <1>4, ReadAs
<1>6. PICK users, user : users = GenerateConfig(db).users[i] /\ user = User(p, db.version[p])
  OBVIOUS
<1>7. Apart(row, users, user)
  BY <1>1, <1>5, <1>6, UsersApart
<1>8. HasOne(users)
  BY <1>1, <1>6, UsersServed
<1>9. core \in {"xray", "singbox", "mihomo"}
  BY DEF core, OfferingParameters, Requests
<1>10. Served(i) = ConvertInbound(core, row, users)
  BY <1>3, <1>6 DEF Served, Current, GenerateConfig
<1>11. (\E entry \in Generate(format, row, user), server \in ConvertInbound(core, row, users) :
          Accepts(server, format, entry)) <=> Understood(format, raw)
  <2>1. CASE core = "mihomo"
    BY <2>1 DEF ConvertInbound, MihomoInbound, Understood
  <2>2. CASE core \in {"xray", "singbox"}
    BY <1>4, <1>5, <1>7, <1>8, <2>2, ExactlyUnderstood
  <2> QED
    BY <1>9, <2>1, <2>2
<1> QED
  BY <1>3, <1>6, <1>10, <1>11 DEF LetsIn, Me

-----------------------------------------------------------------------------
(* What the schemas ask for.                                               *)

\* A schema with a parameter that is required, and a string.
AsksFor(schema, key) ==
  /\ key \in DOMAIN schema.parameters
  /\ schema.parameters[key].required /\ schema.parameters[key].type = "string"

\* Those of the protocols that need a password ask for it.
Asks(schema) ==
  /\ schema.protocol \in PasswordOf => AsksFor(schema, "password")
  /\ schema.protocol = "hysteria" => AsksFor(schema, "auth_str")

\* A schema of another name need not ask.
LEMMA NamedAsk ==
  ASSUME NEW schema, schema.protocol \notin PasswordOf \cup {"hysteria"}
  PROVE  Asks(schema)
BY DEF Asks

\* The schemas of other protocols, by their names.
LEMMA OthersAsk ==
  /\ \A schema \in {Registry!Http, Registry!Socks5, Registry!Mixed, Registry!Vmess, Registry!Vless, Registry!Trojan,
                    Registry!TuicV4, Registry!TuicV5, Registry!Redirect, Registry!Xhttp, Registry!Tun,
                    Registry!Shadowsocksr, Registry!Snell} : Asks(schema)
  /\ \A schema \in {Registry!Direct, Registry!Block, Registry!Dns, Registry!Tor, Registry!Masque} : Asks(schema)
<1>1. /\ Registry!Http.protocol = "http" /\ Registry!Socks5.protocol = "socks5" /\ Registry!Mixed.protocol = "mixed"
      /\ Registry!Redirect.protocol = "redirect"
  BY DEF Registry!Http, Registry!Socks5, Registry!Mixed, Registry!Redirect, Registry!Plain, Registry!Schema
<1>2. Registry!Vmess.protocol = "vmess"
  BY DEF Registry!Vmess, Registry!Schema
<1>3. Registry!Vless.protocol = "vless"
  BY DEF Registry!Vless, Registry!Schema
<1>4. Registry!Trojan.protocol = "trojan"
  BY DEF Registry!Trojan, Registry!Schema
<1>5. Registry!TuicV4.protocol = "tuic_v4" /\ Registry!TuicV5.protocol = "tuic_v5"
  BY DEF Registry!TuicV4, Registry!TuicV5, Registry!Tls, Registry!Schema
<1>6. Registry!Xhttp.protocol = "xhttp"
  BY DEF Registry!Xhttp, Registry!Plain, Registry!Schema
<1>7. Registry!Tun.protocol = "tun"
  BY DEF Registry!Tun, Registry!Plain, Registry!Schema
<1>8. Registry!Shadowsocksr.protocol = "shadowsocksr"
  BY DEF Registry!Shadowsocksr, Registry!Plain, Registry!Schema
<1>9. Registry!Snell.protocol = "snell"
  BY DEF Registry!Snell, Registry!Plain, Registry!Schema
<1>10. /\ Registry!Direct.protocol = "direct" /\ Registry!Block.protocol = "block" /\ Registry!Dns.protocol = "dns"
       /\ Registry!Tor.protocol = "tor"
  BY DEF Registry!Direct, Registry!Block, Registry!Dns, Registry!Tor, Registry!Plain, Registry!Schema
<1>11. Registry!Masque.protocol = "masque"
  BY DEF Registry!Masque, Registry!Tls, Registry!Schema
<1> QED
  BY <1>1, <1>2, <1>3, <1>4, <1>5, <1>6, <1>7, <1>8, <1>9, <1>10, <1>11, NamedAsk DEF PasswordOf

\* The protocols that ask.
LEMMA AskersNamed ==
  /\ Registry!Shadowsocks.protocol = "shadowsocks" /\ Registry!Trusttunnel.protocol = "trusttunnel"
  /\ Registry!Hysteria.protocol = "hysteria" /\ Registry!Hysteria2.protocol = "hysteria2"
  /\ Registry!Anytls.protocol = "anytls" /\ Registry!Mieru.protocol = "mieru" /\ Registry!Sudoku.protocol = "sudoku"
<1>1. Registry!Shadowsocks.protocol = "shadowsocks"
  BY DEF Registry!Shadowsocks, Registry!Schema
<1>2. Registry!Trusttunnel.protocol = "trusttunnel" /\ Registry!Sudoku.protocol = "sudoku"
  BY DEF Registry!Trusttunnel, Registry!Sudoku, Registry!Plain, Registry!Schema
<1>3. Registry!Hysteria.protocol = "hysteria"
  BY DEF Registry!Hysteria, Registry!Tls, Registry!Schema
<1>4. Registry!Hysteria2.protocol = "hysteria2"
  BY DEF Registry!Hysteria2, Registry!Tls, Registry!Schema
<1>5. Registry!Anytls.protocol = "anytls"
  BY DEF Registry!Anytls, Registry!Tls, Registry!Schema
<1>6. Registry!Mieru.protocol = "mieru"
  BY DEF Registry!Mieru, Registry!Plain, Registry!Schema
<1> QED
  BY <1>1, <1>2, <1>3, <1>4, <1>5, <1>6

\* A password stays asked for with other parameters beside it.
LEMMA PasswordAsked ==
  ASSUME NEW params, \/ params = Registry!Password
                     \/ \E others : params = Registry!With(Registry!Password, others)
                     \/ \E first : params = Registry!With(Registry!With(Registry!Password, Registry!Finalmask), first)
  PROVE  /\ "password" \in DOMAIN params
         /\ params["password"].required /\ params["password"].type = "string"
<1>1. PICK own : own = Registry!Password
  OBVIOUS
<1>2. "password" \in DOMAIN own /\ own["password"].required /\ own["password"].type = "string"
  BY <1>1 DEF Registry!Password, Registry!Required, Registry!Parameter
<1>3. \A others : "password" \in DOMAIN Registry!With(own, others) /\ Registry!With(own, others)["password"] = own["password"]
  BY <1>2 DEF Registry!With
<1>4. PICK both : both = Registry!With(own, Registry!Finalmask)
  OBVIOUS
<1>5. "password" \in DOMAIN both /\ both["password"] = own["password"]
  BY <1>3, <1>4
<1>6. \A others : "password" \in DOMAIN Registry!With(both, others) /\ Registry!With(both, others)["password"] = both["password"]
  BY <1>5 DEF Registry!With
<1> QED
  BY <1>1, <1>2, <1>3, <1>4, <1>5, <1>6

LEMMA AuthAsked ==
  /\ "auth_str" \in DOMAIN Registry!With(Registry!AuthStr, Registry!Rates)
  /\ Registry!With(Registry!AuthStr, Registry!Rates)["auth_str"].required
  /\ Registry!With(Registry!AuthStr, Registry!Rates)["auth_str"].type = "string"
BY DEF Registry!With, Registry!AuthStr, Registry!Required, Registry!Parameter

\* The schemas with a password ask for it.
LEMMA PasswordsAsk ==
  \A schema \in {Registry!Shadowsocks, Registry!Trusttunnel, Registry!Hysteria2, Registry!Anytls, Registry!Mieru,
                 Registry!Sudoku} : Asks(schema)
<1> DEFINE Says(schema) == /\ schema.protocol # "hysteria"
                           /\ "password" \in DOMAIN schema.parameters
                           /\ schema.parameters["password"].required
                           /\ schema.parameters["password"].type = "string"
<1>1. \A schema : Says(schema) => Asks(schema)
  BY DEF Asks, AsksFor
<1>2. Says(Registry!Shadowsocks)
  <2>1. PICK others : others = [method |-> [Registry!Select(Registry!Methods, "2022-blake3-aes-128-gcm") EXCEPT !.required = TRUE]]
    OBVIOUS
  <2>2. Registry!Shadowsocks.parameters = Registry!With(Registry!Password, others)
    BY <2>1 DEF Registry!Shadowsocks, Registry!Schema
  <2>3. Registry!Shadowsocks.protocol = "shadowsocks"
    BY DEF Registry!Shadowsocks, Registry!Schema
  <2> QED
    BY <2>2, <2>3, PasswordAsked
<1>3. Says(Registry!Trusttunnel) /\ Says(Registry!Sudoku)
  <2>1. Registry!Trusttunnel.parameters = Registry!Password /\ Registry!Trusttunnel.protocol = "trusttunnel"
    BY DEF Registry!Trusttunnel, Registry!Plain, Registry!Schema
  <2>2. Registry!Sudoku.parameters = Registry!Password /\ Registry!Sudoku.protocol = "sudoku"
    BY DEF Registry!Sudoku, Registry!Plain, Registry!Schema
  <2> QED
    BY <2>1, <2>2, PasswordAsked
<1>4. Says(Registry!Hysteria2)
  <2>1. Registry!Hysteria2.protocol = "hysteria2"
    BY DEF Registry!Hysteria2, Registry!Tls, Registry!Schema
  <2>2. \E others : Registry!Hysteria2.parameters = Registry!With(Registry!With(Registry!Password, Registry!Finalmask), others)
    BY DEF Registry!Hysteria2, Registry!Tls, Registry!Schema
  <2> QED
    BY <2>1, <2>2, PasswordAsked
<1>5. Says(Registry!Anytls)
  <2>1. PICK params : params = [password |-> Registry!Required("generate_base64_token_32"),
                                padding_scheme |-> Registry!Parameter("array", FALSE, {}, "", Registry!NoDefault)]
    OBVIOUS
  <2>2. Registry!Anytls.protocol = "anytls" /\ Registry!Anytls.parameters = params
    BY <2>1 DEF Registry!Anytls, Registry!Tls, Registry!Schema
  <2>3. /\ "password" \in DOMAIN params
        /\ params["password"].required /\ params["password"].type = "string"
    BY <2>1 DEF Registry!Required, Registry!Parameter
  <2> QED
    BY <2>2, <2>3
<1>6. Says(Registry!Mieru)
  <2>1. PICK others : others = [transport |-> Registry!Select({"TCP", "UDP"}, "TCP")]
    OBVIOUS
  <2>2. Registry!Mieru.protocol = "mieru" /\ Registry!Mieru.parameters = Registry!With(Registry!Password, others)
    BY <2>1 DEF Registry!Mieru, Registry!Plain, Registry!Schema
  <2> QED
    BY <2>2, PasswordAsked
<1> QED
  BY <1>1, <1>2, <1>3, <1>4, <1>5, <1>6

LEMMA HysteriasAsk == Asks(Registry!Hysteria) /\ Asks(Registry!HysteriaOut)
<1>1. PICK params : params = Registry!With(Registry!AuthStr, Registry!Rates)
  OBVIOUS
<1>2. /\ Registry!Hysteria.protocol = "hysteria" /\ Registry!Hysteria.parameters = params
      /\ Registry!HysteriaOut.protocol = "hysteria" /\ Registry!HysteriaOut.parameters = params
  BY <1>1 DEF Registry!Hysteria, Registry!HysteriaOut, Registry!Tls, Registry!Schema
<1> QED
  BY <1>1, <1>2, AuthAsked DEF Asks, AsksFor, PasswordOf

InboundSchemas ==
  {Registry!Http, Registry!Socks5, Registry!Mixed, Registry!Shadowsocks, Registry!Vmess, Registry!Vless, Registry!Trojan,
   Registry!Trusttunnel, Registry!Hysteria, Registry!Hysteria2, Registry!TuicV4, Registry!TuicV5, Registry!Anytls,
   Registry!Redirect, Registry!Xhttp, Registry!Tun, Registry!Mieru, Registry!Sudoku, Registry!Shadowsocksr, Registry!Snell}
OutboundSchemas ==
  {Registry!Direct, Registry!Block, Registry!Dns, Registry!HysteriaOut, Registry!Tor, Registry!Masque}

LEMMA AllAsk == \A schema \in InboundSchemas \cup OutboundSchemas : Asks(schema)
BY OthersAsk, PasswordsAsk, HysteriasAsk DEF InboundSchemas, OutboundSchemas

\* The last schema of a name is one of that name.
LEMMA LastOfName ==
  ASSUME NEW S, NEW schemas \in Seq(S), NEW name, NEW k \in DOMAIN schemas, schemas[k].protocol = name
  PROVE  /\ name \in DOMAIN Registry!Register(schemas)
         /\ Registry!Register(schemas)[name] \in S /\ Registry!Register(schemas)[name].protocol = name
<1> DEFINE Alike == {i \in DOMAIN schemas : schemas[i].protocol = name}
           Last(i) == /\ schemas[i].protocol = name
                      /\ \A j \in DOMAIN schemas : schemas[j].protocol = name => j <= i
<1>1. Alike \subseteq 1..Len(schemas) /\ Len(schemas) \in Nat /\ k \in Alike
  OBVIOUS
<1>2. \E i \in Alike : \A j \in Alike : j <= i
  <2> DEFINE R == OpToRel(<, Nat)
             B == {n \in Nat : \A j \in Alike : j <= n}
  <2>1. IsWellFoundedOn(R, Nat)
    BY NatLessThanWellFounded
  <2>2. \A x, y \in Nat : x < y => <<x, y>> \in R
    BY DEF OpToRel
  <2> HIDE DEF R
  <2>3. B \subseteq Nat /\ B # {}
    BY <1>1
  <2>4. PICK b \in B : \A u \in B : ~(<<u, b>> \in R)
    <3> HIDE DEF B
    <3> QED
      BY <2>1, <2>3, WFMin
  <2>5. b \in Nat /\ b >= 1 /\ b - 1 \in Nat /\ b - 1 < b
    BY <1>1
  <2>6. b - 1 \notin B
    BY <2>2, <2>4, <2>5
  <2>7. PICK j \in Alike : ~(j <= b - 1)
    BY <2>5, <2>6
  <2>8. j = b
    BY <1>1, <2>5, <2>7
  <2> QED
    BY <2>7, <2>8
<1>3. PICK i : i = CHOOSE n \in DOMAIN schemas : Last(n)
  OBVIOUS
<1>4. i \in DOMAIN schemas /\ schemas[i].protocol = name
  BY <1>2, <1>3
<1>5. name \in DOMAIN Registry!Register(schemas)
  BY DEF Registry!Register
<1>6. Registry!Register(schemas)[name] = schemas[i]
  BY <1>3, <1>5 DEF Registry!Register
<1> QED
  BY <1>4, <1>5, <1>6

\* The registry asks for a password where one is needed, whichever schemas of a
\* name were registered.
LEMMA SchemasAsk ==
  \A p \in PasswordOf \cup {"hysteria"} : p \in Registry!Protocol /\ Asks(Registry!registry[p]) /\ Registry!registry[p].protocol = p
<1>1. PICK S : S = InboundSchemas \cup OutboundSchemas
  OBVIOUS
<1>2. PICK in, out : in = Registry!registerInboundProtocols /\ out = Registry!registerOutboundProtocols
  OBVIOUS
<1>3. in \in Seq(S)
  BY <1>1, <1>2 DEF Registry!registerInboundProtocols, InboundSchemas
<1>4. out \in Seq(S)
  BY <1>1, <1>2 DEF Registry!registerOutboundProtocols, OutboundSchemas
<1>5. PICK all : all = in \o out
  OBVIOUS
<1>6. all \in Seq(S) /\ \A k \in DOMAIN in : k \in DOMAIN all /\ all[k] = in[k]
  BY <1>3, <1>4, <1>5
<1>7. /\ DOMAIN in = 1..21
      /\ in[4] = Registry!Shadowsocks /\ in[8] = Registry!Trusttunnel /\ in[9] = Registry!Hysteria
      /\ in[10] = Registry!Hysteria2 /\ in[13] = Registry!Anytls /\ in[17] = Registry!Mieru /\ in[19] = Registry!Sudoku
  BY <1>2 DEF Registry!registerInboundProtocols
<1>8. Registry!registry = Registry!Register(all)
  BY <1>2, <1>5 DEF Registry!registry
<1>9. ASSUME NEW k \in DOMAIN in, NEW p, in[k].protocol = p
      PROVE  p \in Registry!Protocol /\ Asks(Registry!registry[p]) /\ Registry!registry[p].protocol = p
  <2>1. k \in DOMAIN all /\ all[k].protocol = p
    BY <1>6, <1>9
  <2>2. /\ p \in DOMAIN Registry!Register(all)
        /\ Registry!Register(all)[p] \in S /\ Registry!Register(all)[p].protocol = p
    BY <1>6, <2>1, LastOfName
  <2> QED
    BY <1>1, <1>8, <2>2, AllAsk DEF Registry!Protocol
<1>10. /\ in[4].protocol = "shadowsocks" /\ in[8].protocol = "trusttunnel" /\ in[9].protocol = "hysteria"
       /\ in[10].protocol = "hysteria2" /\ in[13].protocol = "anytls" /\ in[17].protocol = "mieru" /\ in[19].protocol = "sudoku"
  BY <1>7, AskersNamed
<1>11. {4, 8, 9, 10, 13, 17, 19} \subseteq DOMAIN in
  BY <1>7
<1> QED
  BY <1>9, <1>10, <1>11 DEF PasswordOf

-----------------------------------------------------------------------------
(* The rows a user can be told of.                                         *)

\* What a schema asks for is a string in each configuration that is valid.
LEMMA Asked ==
  ASSUME NEW name \in PasswordOf \cup {"hysteria"}, NEW key, key = (IF name = "hysteria" THEN "auth_str" ELSE "password"),
         NEW cfg, Registry!ValidateConfigJSON(name, cfg)
  PROVE  key \in DOMAIN Strings(cfg)
<1>1. name \in Registry!Protocol /\ Asks(Registry!registry[name]) /\ Registry!registry[name].protocol = name
  BY SchemasAsk
<1>2. PICK schema : schema = Registry!registry[name]
  OBVIOUS
<1>3. AsksFor(schema, key)
  BY <1>1, <1>2 DEF Asks, PasswordOf
<1>4. Registry!validateAgainstSchema(cfg, schema)
  BY <1>1, <1>2 DEF Registry!ValidateConfigJSON
<1>5. key \in DOMAIN cfg
  BY <1>3, <1>4 DEF AsksFor, Registry!validateAgainstSchema
<1>6. Registry!validateParameterValue(cfg[key], schema.parameters[key])
  BY <1>3, <1>4, <1>5 DEF AsksFor, Registry!validateAgainstSchema
<1>7. Registry!Accepts("string") = {"string"}
  BY DEF Registry!Accepts
<1>8. cfg[key].type = "string"
  <2>1. PICK value, param : value = cfg[key] /\ param = schema.parameters[key]
    OBVIOUS
  <2>2. value.type \in Registry!Accepts(param.type)
    BY <1>6, <2>1 DEF Registry!validateParameterValue
  <2>3. param.type = "string"
    BY <1>3, <2>1 DEF AsksFor
  <2> QED
    BY <1>7, <2>1, <2>2, <2>3
<1> QED
  BY <1>5, <1>8 DEF Strings

\* A configuration that passes validation has the passwords its protocol needs.
LEMMA ValidComplete ==
  ASSUME NEW protocol, NEW cfg, Registry!ValidateConfigJSON(protocol, cfg)
  PROVE  Complete(protocol, Strings(cfg))
<1>1. ASSUME protocol \in PasswordOf
      PROVE  "password" \in DOMAIN Strings(cfg)
  <2>1. PICK key : key = "password"
    OBVIOUS
  <2>2. key = (IF protocol = "hysteria" THEN "auth_str" ELSE "password")
    BY <1>1, <2>1 DEF PasswordOf
  <2>3. protocol \in PasswordOf \cup {"hysteria"}
    BY <1>1
  <2> QED
    BY <2>1, <2>2, <2>3, Asked
<1>2. ASSUME protocol = "hysteria"
      PROVE  "auth_str" \in DOMAIN Strings(cfg)
  <2>1. PICK key : key = "auth_str"
    OBVIOUS
  <2>2. key = (IF protocol = "hysteria" THEN "auth_str" ELSE "password")
    BY <1>2, <2>1
  <2>3. protocol \in PasswordOf \cup {"hysteria"}
    BY <1>2
  <2> QED
    BY <2>1, <2>2, <2>3, Asked
<1> QED
  BY <1>1, <1>2 DEF Complete

\* What is asked for: flags; a transport that is not xhttp, a protocol that is not
\* the unregistered ssr; and a protocol is not changed to one that needs a password
\* of its own, which the row would not have: the schema of the old one was checked.
TellingRequests ==
  /\ \A s \in Scenes : \A t \in s.templates :
       /\ Flags(t) /\ t.protocol # "ssr"
       /\ Get(Strings(t.cfg), "transport") # "xhttp"
  /\ \A c \in Changes :
       /\ \A column \in DOMAIN c \cap {"tls", "cert", "reality", "realityConfig"} : c[column] \in BOOLEAN
       /\ "protocol" \in DOMAIN c => c["protocol"] \notin PasswordOf \cup {"hysteria", "ssr"}
       /\ "cfg" \in DOMAIN c => Get(Strings(c["cfg"]), "transport") # "xhttp"

\* A row a user can be told of, by its columns.
LEMMA TellsRaw ==
  ASSUME NEW raw, RowOk(raw)
  PROVE  Tells(raw) <=> /\ Flags(raw) /\ raw.protocol # "ssr"
                        /\ Get(Strings(raw.cfg), "transport") # "xhttp"
                        /\ Complete(raw.protocol, Strings(raw.cfg))
<1>1. PICK row : row = AsRead(raw)
  OBVIOUS
<1>2. Read(raw, row) /\ row.cfg = Strings(raw.cfg)
  BY <1>1, ReadAs
<1>3. Flags(row) <=> Flags(raw)
  BY <1>2 DEF Read, Flags
<1> QED
  BY <1>1, <1>2, <1>3 DEF Tells, Telling, Read

\* A row that is created is one of them,
LEMMA TellsCreated ==
  ASSUME OfferingParameters, TellingRequests, NEW s \in Scenes, NEW t \in s.templates, NEW i,
         Registry!ValidateConfigJSON(t.protocol, t.cfg)
  PROVE  Tells(NewRow(i, t))
<1>1. RowOk(NewRow(i, t))
  BY RowCreated
<1>2. PICK row : row = NewRow(i, t)
  OBVIOUS
<1>3. /\ row.protocol = t.protocol /\ row.tls = t.tls /\ row.cert = (t.tls /\ t.cert)
      /\ row.reality = t.reality /\ row.realityConfig = t.realityConfig /\ row.cfg = t.cfg
  BY <1>2 DEF NewRow
<1>4. Flags(t) /\ t.protocol # "ssr" /\ Get(Strings(t.cfg), "transport") # "xhttp"
  BY DEF TellingRequests
<1>5. Flags(row)
  BY <1>3, <1>4 DEF Flags
<1>6. Complete(row.protocol, Strings(row.cfg))
  BY <1>3, ValidComplete
<1> QED
  BY <1>1, <1>2, <1>3, <1>4, <1>5, <1>6, TellsRaw

\* and stays one when it is updated.
LEMMA TellsUpdated ==
  ASSUME OfferingParameters, TellingRequests, NEW raw, Tells(raw), NEW c \in Changes,
         "cfg" \in DOMAIN c => Registry!ValidateConfigJSON(raw.protocol, c["cfg"])
  PROVE  Tells(Updated(raw, c))
<1>1. RowOk(raw) /\ DOMAIN raw = Columns
  BY DEF Tells, RowOk
<1>2. /\ Flags(raw) /\ raw.protocol # "ssr" /\ Get(Strings(raw.cfg), "transport") # "xhttp"
      /\ Complete(raw.protocol, Strings(raw.cfg))
  BY <1>1, TellsRaw
<1>3. PICK row : row = Updated(raw, c)
  OBVIOUS
<1>4. RowOk(row)
  BY <1>1, <1>3, RowUpdated
<1>5. \A column \in Columns : \/ row[column] = raw[column]
                              \/ column \in DOMAIN c /\ row[column] = c[column]
                              \/ column = "cert" /\ row[column] = FALSE
  BY <1>1, <1>3 DEF Updated
<1>6. {"tls", "cert", "reality", "realityConfig", "protocol", "cfg"} \subseteq Columns
  BY DEF Columns
<1>7. Flags(row)
  <2>1. \A column \in DOMAIN c \cap {"tls", "cert", "reality", "realityConfig"} : c[column] \in BOOLEAN
    BY DEF TellingRequests
  <2>2. ASSUME NEW column \in {"tls", "cert", "reality", "realityConfig"}, raw[column] \in BOOLEAN
        PROVE  row[column] \in BOOLEAN
    BY <1>5, <1>6, <2>1, <2>2
  <2> QED
    BY <1>2, <2>2 DEF Flags
<1>8. row.protocol = raw.protocol \/ row.protocol \notin PasswordOf \cup {"hysteria", "ssr"}
  BY <1>5, <1>6 DEF TellingRequests
<1>9. row.cfg = raw.cfg \/ ("cfg" \in DOMAIN c /\ row.cfg = c["cfg"])
  BY <1>5, <1>6
<1>10. Get(Strings(row.cfg), "transport") # "xhttp"
  BY <1>2, <1>9 DEF TellingRequests
<1>11. Complete(row.protocol, Strings(row.cfg))
  <2>1. CASE row.protocol = raw.protocol
    <3>1. "cfg" \in DOMAIN c => Complete(raw.protocol, Strings(c["cfg"]))
      BY ValidComplete
    <3> QED
      BY <1>2, <1>9, <2>1, <3>1
  <2>2. CASE row.protocol \notin PasswordOf \cup {"hysteria"}
    BY <2>2 DEF Complete
  <2> QED
    BY <1>8, <2>1, <2>2
<1>12. row.protocol # "ssr"
  BY <1>2, <1>8
<1> QED
  BY <1>3, <1>4, <1>7, <1>10, <1>11, <1>12, TellsRaw

-----------------------------------------------------------------------------
(* Every step keeps them.                                                  *)

\* A row is put, or taken away with its mappings.
LEMMA PutTelling ==
  ASSUME NEW d, RowsOk(d), RowsTell(d), NEW i \in Ids, NEW row, NEW e,
         e.inbounds = [d.inbounds EXCEPT ![i] = row],
         \/ Tells(row) /\ e.mapped = d.mapped
         \/ row = None /\ e.mapped = [d.mapped EXCEPT ![i] = << >>]
  PROVE  RowsTell(e)
<1>1. i \in DOMAIN d.inbounds /\ i \in DOMAIN d.mapped
  BY DEF RowsOk
<1>2. e.inbounds[i] = row /\ \A j \in Ids \ {i} : e.inbounds[j] = d.inbounds[j]
  BY <1>1 DEF RowsOk
<1>3. \A j \in Ids \ {i} : e.mapped[j] = d.mapped[j]
  BY <1>1 DEF RowsOk
<1>4. Tells(row) \/ (row = None /\ e.mapped[i] = << >>)
  BY <1>1
<1> QED
  BY <1>2, <1>3, <1>4 DEF RowsTell

\* A list changes only where there is a row.
LEMMA MappedTelling ==
  ASSUME NEW d, RowsOk(d), RowsTell(d), NEW i \in Ids, d.inbounds[i] # None \/ d.mapped[i] # << >>,
         NEW list, NEW e, e.inbounds = d.inbounds, e.mapped = [d.mapped EXCEPT ![i] = list]
  PROVE  RowsTell(e)
<1>1. i \in DOMAIN d.mapped
  BY DEF RowsOk
<1>2. \A j \in Ids \ {i} : e.mapped[j] = d.mapped[j]
  BY <1>1 DEF RowsOk
<1>3. Tells(d.inbounds[i])
  BY DEF RowsTell
<1> QED
  BY <1>2, <1>3 DEF RowsTell

LEMMA CreateTells ==
  ASSUME OfferingParameters, TellingRequests, scene \in Scenes, RowsOk(db), RowsTell(db),
         NEW t \in scene.templates, CreateInbound(t)
  PROVE  RowsTell(db')
<1>1. PICK i \in Ids : i = db.next
  BY DEF CreateInbound
<1>2. PICK row : row = NewRow(i, t)
  OBVIOUS
<1>3. PICK d : d = [db EXCEPT !.inbounds[i] = row, !.next = i + 1]
  OBVIOUS
<1>4. db' = d /\ Registry!ValidateConfigJSON(t.protocol, t.cfg)
  BY <1>1, <1>2, <1>3 DEF CreateInbound
<1>5. Tells(row)
  BY <1>2, <1>4, TellsCreated
<1>6. d.inbounds = [db.inbounds EXCEPT ![i] = row] /\ d.mapped = db.mapped
  BY <1>3 DEF RowsOk
<1> QED
  BY <1>4, <1>5, <1>6, PutTelling

LEMMA UpdateTells ==
  ASSUME OfferingParameters, TellingRequests, RowsOk(db), RowsTell(db),
         NEW i \in Ids, NEW c \in Changes, UpdateInbound(i, c)
  PROVE  RowsTell(db')
<1>1. PICK old : old = db.inbounds[i]
  OBVIOUS
<1>2. PICK row : row = Updated(old, c)
  OBVIOUS
<1>3. PICK d : d = [db EXCEPT !.inbounds[i] = row]
  OBVIOUS
<1>4. /\ old # None /\ db' = d
      /\ "cfg" \in DOMAIN c => Registry!ValidateConfigJSON(old.protocol, c["cfg"])
  BY <1>1, <1>2, <1>3 DEF UpdateInbound
<1>5. Tells(old)
  BY <1>1, <1>4 DEF RowsTell
<1>6. Tells(row)
  BY <1>2, <1>4, <1>5, TellsUpdated
<1>7. d.inbounds = [db.inbounds EXCEPT ![i] = row] /\ d.mapped = db.mapped
  BY <1>3 DEF RowsOk
<1> QED
  BY <1>4, <1>6, <1>7, PutTelling

LEMMA DeleteTells ==
  ASSUME RowsOk(db), RowsTell(db), NEW i \in Ids, DeleteInbound(i)
  PROVE  RowsTell(db')
<1>1. PICK d : d = [db EXCEPT !.inbounds[i] = None, !.mapped[i] = << >>]
  OBVIOUS
<1>2. db' = d
  BY <1>1 DEF DeleteInbound
<1>3. PICK row : row = None
  OBVIOUS
<1>4. d.inbounds = [db.inbounds EXCEPT ![i] = row] /\ d.mapped = [db.mapped EXCEPT ![i] = << >>]
  BY <1>1, <1>3 DEF RowsOk
<1> QED
  BY <1>2, <1>3, <1>4, PutTelling

LEMMA MappingTells ==
  ASSUME RowsOk(db), RowsTell(db), NEW i \in Ids,
         \/ \E p \in Person : AssignInboundToUser(p, i) \/ UnassignInboundFromUser(p, i)
         \/ \E add \in Lists, remove \in SUBSET Person : BulkAssignUsers(i, add, remove)
  PROVE  RowsTell(db')
<1>1. PICK list : db' = [db EXCEPT !.mapped[i] = list]
  BY DEF AssignInboundToUser, UnassignInboundFromUser, BulkAssignUsers
<1>2. db.inbounds[i] # None \/ db.mapped[i] # << >>
  <2>1. Sequence!Range(<< >>) = {}
    BY DEF Sequence!Range
  <2> QED
    BY <2>1 DEF AssignInboundToUser, UnassignInboundFromUser, BulkAssignUsers
<1>3. PICK d : d = [db EXCEPT !.mapped[i] = list]
  OBVIOUS
<1>4. d.inbounds = db.inbounds /\ d.mapped = [db.mapped EXCEPT ![i] = list]
  BY <1>3 DEF RowsOk
<1> QED
  BY <1>1, <1>2, <1>3, <1>4, MappedTelling

\* The others leave rows and mappings alone.
LEMMA OthersTell ==
  ASSUME RowsOk(db), RowsTell(db), (\E p \in Person : RegenerateCredentials(p) \/ DeleteUser(p)) \/ Outbound
  PROVE  RowsTell(db')
<1>1. PICK d : /\ db' = d
               /\ \/ \E p, v : d = [db EXCEPT !.version[p] = v]
                  \/ \E gone : d = [db EXCEPT !.deleted = gone]
                  \/ \E os, n : d = [db EXCEPT !.outbounds = os, !.nextOut = n]
                  \/ \E os : d = [db EXCEPT !.outbounds = os]
  BY DEF RegenerateCredentials, DeleteUser, Outbound, CreateOutbound, UpdateOutbound, DeleteOutbound
<1>2. d.inbounds = db.inbounds /\ d.mapped = db.mapped
  BY <1>1 DEF RowsOk
<1> QED
  BY <1>1, <1>2 DEF RowsTell

WorkingInv == OfferingInv /\ RowsTell(db)

LEMMA WorkingInit == OfferingParameters /\ Init => WorkingInv
<1> SUFFICES ASSUME OfferingParameters, Init
             PROVE  WorkingInv
  OBVIOUS
<1>1. db.inbounds = [i \in Ids |-> None] /\ db.mapped = [i \in Ids |-> << >>]
  BY DEF Init
<1> QED
  BY <1>1, OfferingInit DEF WorkingInv, RowsTell

LEMMA WorkingNext ==
  ASSUME OfferingParameters, TellingRequests, WorkingInv, [Next]_vars
  PROVE  WorkingInv'
<1>1. OfferingInv'
  BY OfferingNext DEF WorkingInv
<1>2. RowsTell(db)'
  <2>1. CASE UNCHANGED vars
    BY <2>1 DEF vars, WorkingInv
  <2>2. CASE Next
    <3>1. scene \in Scenes /\ RowsOk(db) /\ RowsTell(db)
      BY DEF WorkingInv, OfferingInv
    <3> QED
      BY <2>2, <3>1, CreateTells, UpdateTells, DeleteTells, MappingTells, OthersTell DEF Next
  <2> QED
    BY <2>1, <2>2
<1> QED
  BY <1>1, <1>2 DEF WorkingInv

\* With a core that is up to date, an entry gets its user in exactly if the
\* format says of the inbound what the core has of it.
THEOREM ToldExactly ==
  ASSUME OfferingParameters, TellingRequests, KindsDiffer, LabelsDiffer
  PROVE  Spec => []WorksExactly
<1>1. WorkingInv => WorksExactly
  BY ExactlyWorks DEF WorkingInv, OfferingInv
<1> QED
  BY <1>1, WorkingInit, WorkingNext, PTL DEF Spec

================================================================================
