------------------------------ MODULE WarpAccount ------------------------------
(***************************************************************************)
(* The WARP account: warp_account.json and wg.conf under RegisterWARP (a   *)
(* request) and RefreshToken (a ticker), with Cloudflare's answers.        *)
(*                                                                         *)
(* os.WriteFile truncates and then writes, so a file that is being written *)
(* reads as Torn, and a process that ends in between leaves it so.         *)
(*                                                                         *)
(* Sources: services/warp_service.go and RegisterWARP in api/warp.go.      *)
(***************************************************************************)
EXTENDS Naturals, FiniteSets

CONSTANTS
  MaxDevices,  \* bound on registrations
  MaxTokens,   \* bound on the tokens Cloudflare issues
  MaxRestarts, \* bound on restarts of the panel
  NoAccount,   \* no file
  Torn         \* a file truncated and not yet written

VARIABLES
  account,    \* warp_account.json: NoAccount, Torn or [device, token]
  wgconf,     \* wg.conf: the device whose keys are in it, or 0
  caller,     \* the goroutines: where each is and the account it holds
  devices,    \* number of devices Cloudflare has registered
  tokens,     \* number of tokens it has issued
  current,    \* the token of the device registered last
  restarts,   \* number of restarts
  overlapped, \* history: a registration and a refresh were at work at once
  cut         \* history: a restart, or a failure, came before an answer was saved

vars == <<account, wgconf, caller, devices, tokens, current, restarts, overlapped, cut>>
cloud   == <<devices, tokens, current>>
history == <<overlapped, cut>>

Caller  == {"register", "refresh"}
Account == [device : 1..MaxDevices, token : 1..MaxTokens]
Idle    == [at |-> "idle", holds |-> NoAccount]

At(c)      == caller[c].at
Holds(c)   == caller[c].holds
Quiet      == \A c \in Caller : At(c) = "idle"
Go(c, to)  == caller' = [caller EXCEPT ![c].at = to]
End(c)     == caller' = [caller EXCEPT ![c] = Idle]

Began(c) == overlapped' = (overlapped \/ \E o \in Caller \ {c} : At(o) # "idle")

Init ==
  /\ account = NoAccount /\ wgconf = 0
  /\ caller = [c \in Caller |-> Idle]
  /\ devices = 0 /\ tokens = 0 /\ current = 0 /\ restarts = 0
  /\ overlapped = FALSE /\ cut = FALSE

(***************************************************************************)
(* RegisterWARP: new keys and a new device, whatever the file says.        *)
(***************************************************************************)
Register ==
  /\ At("register") = "idle" /\ devices < MaxDevices /\ tokens < MaxTokens
  /\ devices' = devices + 1 /\ tokens' = tokens + 1 /\ current' = tokens'
  /\ caller' = [caller EXCEPT !["register"] =
                  [at |-> "save", holds |-> [device |-> devices', token |-> tokens']]]
  /\ Began("register")
  /\ UNCHANGED <<account, wgconf, restarts, cut>>

\* saveAccount, in both goroutines.
SaveTruncate(c) ==
  /\ At(c) = "save"
  /\ account' = Torn
  /\ Go(c, "write")
  /\ UNCHANGED <<wgconf, cloud, restarts, history>>

SaveWrite(c) ==
  /\ At(c) = "write"
  /\ account' = Holds(c)
  /\ IF c = "register" THEN Go(c, "config") ELSE End(c)
  /\ UNCHANGED <<wgconf, cloud, restarts, history>>

\* GenerateWireGuardConfig loads the file again, then SaveWireGuardConfig.
SaveWireGuardConfig ==
  /\ At("register") = "config"
  /\ wgconf' = IF account \in {NoAccount, Torn} THEN wgconf ELSE account.device
  /\ End("register")
  /\ UNCHANGED <<account, cloud, restarts, history>>

(***************************************************************************)
(* RefreshToken, every 24 hours.  An account that cannot be read ends it.  *)
(***************************************************************************)
RefreshLoad ==
  /\ At("refresh") = "idle"
  /\ account \notin {NoAccount, Torn}
  /\ caller' = [caller EXCEPT !["refresh"] = [at |-> "call", holds |-> account]]
  /\ Began("refresh")
  /\ UNCHANGED <<account, wgconf, cloud, restarts, cut>>

\* Mutant: the new token is not taken over.
RefreshAnswerIgnored ==
  /\ At("refresh") = "call" /\ tokens < MaxTokens
  /\ tokens' = tokens + 1
  /\ current' = IF Holds("refresh").device = devices THEN tokens' ELSE current
  /\ Go("refresh", "save")
  /\ UNCHANGED <<account, wgconf, devices, restarts, history>>

\* The answer may bring a new token for the device that asks.
RefreshAnswer ==
  /\ At("refresh") = "call"
  /\ \/ /\ UNCHANGED <<tokens, current>> /\ Go("refresh", "save")
     \/ /\ tokens < MaxTokens
        /\ tokens' = tokens + 1
        /\ current' = IF Holds("refresh").device = devices THEN tokens' ELSE current
        /\ caller' = [caller EXCEPT !["refresh"].at = "save",
                                    !["refresh"].holds.token = tokens']
  /\ UNCHANGED <<account, wgconf, devices, restarts, history>>

\* A call fails, or the disk does: the caller gives up.  What Cloudflare
\* issued by then is lost.
Fails(c) ==
  /\ At(c) \in {"call", "save", "write", "config"}
  /\ End(c)
  /\ cut' = (cut \/ At(c) # "call")
  /\ UNCHANGED <<account, wgconf, cloud, restarts, overlapped>>

Restart ==
  /\ restarts < MaxRestarts
  /\ restarts' = restarts + 1
  /\ caller' = [c \in Caller |-> Idle]
  /\ cut' = (cut \/ \E c \in Caller : At(c) \notin {"idle", "call"})
  /\ UNCHANGED <<account, wgconf, cloud, overlapped>>

Next ==
  \/ Register \/ SaveWireGuardConfig \/ RefreshLoad \/ RefreshAnswer \/ Restart
  \/ \E c \in Caller : SaveTruncate(c) \/ SaveWrite(c) \/ Fails(c)

Spec == Init /\ [][Next]_vars

TypeOK ==
  /\ account \in Account \cup {NoAccount, Torn}
  /\ wgconf \in 0..MaxDevices
  /\ \A c \in Caller : /\ At(c) \in {"idle", "call", "save", "write", "config"}
                       /\ Holds(c) \in Account \cup {NoAccount}
  /\ devices \in 0..MaxDevices /\ tokens \in 0..MaxTokens /\ current \in 0..MaxTokens

\* With nobody at work the account file holds the device registered last and
\* its latest token, and wg.conf the keys of that device, however often either
\* was renewed, unless a registration met a refresh, or a restart or a failure
\* came before an answer was saved.
AccountStands ==
  Quiet /\ ~overlapped /\ ~cut /\ devices > 0 =>
    account = [device |-> devices, token |-> current] /\ wgconf = devices
===============================================================================
