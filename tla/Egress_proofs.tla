----------------------------- MODULE Egress_proofs -----------------------------
(***************************************************************************)
(* What stands of the WARP account and of a geo database file, for every   *)
(* number of devices, tokens, releases and restarts; and where traffic     *)
(* goes, for every number of routes, rules and outbounds.                  *)
(*                                                                         *)
(* The properties of the files excuse a history, once it is there for      *)
(* good: two goroutines met, or an answer was lost, or a release came      *)
(* during a download.  Each invariant says what holds up to then of the    *)
(* one goroutine at work, at each of its steps.                            *)
(***************************************************************************)
EXTENDS Egress, FiniteSetTheorems, WellFoundedInduction, TLAPS

\* No account and a torn file are not accounts, no file is not an inode, and
\* the bounds are numbers.
EgressParameters ==
  /\ MaxDevices \in Nat /\ MaxTokens \in Nat /\ MaxReleases \in Nat
  /\ \A a \in [device : Nat, token : Nat] : a \notin {NoAccount, Torn}
  /\ NoAccount # Torn
  /\ NoFile \notin Geo!Inode

-----------------------------------------------------------------------------
(* The account.                                                            *)

AccountSteps == {"idle", "call", "save", "write", "config"}
Accounts     == [device : Nat, token : Nat]
Latest       == [device |-> devices, token |-> current]

AccountTypes ==
  /\ devices \in Nat /\ tokens \in Nat /\ current \in Nat
  /\ caller \in [Warp!Caller -> [at : AccountSteps, holds : Accounts \cup {NoAccount}]]

\* A registration that asked Cloudflare holds the latest device and token, and
\* after it has written them the file does.
RegisterStands ==
  /\ Warp!At("register") # "call"
  /\ Warp!At("register") # "idle" => devices > 0 /\ Warp!At("refresh") = "idle"
  /\ Warp!At("register") \in {"save", "write"} => Warp!Holds("register") = Latest
  /\ Warp!At("register") = "config" => account = Latest

\* So does a refresh; until Cloudflare answers the file is as good.
RefreshStands ==
  /\ Warp!At("refresh") # "config"
  /\ Warp!At("refresh") # "idle" =>
       devices > 0 /\ Warp!Holds("refresh") = Latest /\ wgconf = devices
  /\ Warp!At("refresh") = "call" => account = Latest

NobodyStands ==
  Warp!Quiet => IF devices > 0 THEN account = Latest /\ wgconf = devices
                ELSE account = NoAccount

WarpInv ==
  ~accountOverlap /\ ~cut => AccountTypes /\ RegisterStands /\ RefreshStands /\ NobodyStands

-----------------------------------------------------------------------------
(* The geo database file.                                                  *)

UpdateSteps == {"idle", "create", "copy", "rename"}
Contents    == [writer : Geo!Worker, whole : BOOLEAN, release : Nat, stamp : Nat]
Updates     == [at : UpdateSteps, inode : Geo!Inode \cup {NoFile}, release : Nat]

FileTypes ==
  /\ {final, tmp} \subseteq Geo!Inode \cup {NoFile}
  /\ inode \in [Geo!Inode -> Contents]
  /\ update \in [Geo!Worker -> Updates]
  /\ upstream \in Nat /\ wanted \in Nat

\* The file is whole and of a release no older than its time says.
FinalStands ==
  /\ final # NoFile =>
       final # tmp /\ inode[final].whole /\ inode[final].release >= inode[final].stamp
  /\ wanted > 0 => final # NoFile /\ inode[final].release >= wanted

\* The one update at work downloads the latest release to the temporary file,
\* which is its own.
UpdateStands(w) ==
  /\ Geo!At(w) # "idle" => update[w].release = upstream /\ \A o \in Geo!Worker \ {w} : Geo!At(o) = "idle"
  /\ Geo!At(w) \in {"idle", "create"} => update[w].inode = NoFile
  /\ Geo!At(w) \in {"copy", "rename"} => tmp # NoFile /\ update[w].inode = tmp
  /\ Geo!At(w) = "copy" => inode[tmp].writer = w
  /\ Geo!At(w) = "rename" =>
       inode[tmp].whole /\ inode[tmp].release = upstream /\ inode[tmp].stamp = upstream

GeoInv ==
  ~fileOverlap /\ ~raced =>
    FileTypes /\ FinalStands /\ \A w \in Geo!Worker : UpdateStands(w)
-----------------------------------------------------------------------------
(* Only what is exercised takes steps.                                     *)

LEMMA Exercised ==
  ASSUME [Next]_vars
  PROVE  /\ part' = part
         /\ part = "account" => [Warp!Next]_accountVars
         /\ part = "files" => [Geo!Next]_fileVars
BY DEF Next, vars

-----------------------------------------------------------------------------
(* The account: what a step of each goroutine establishes.                 *)

\* Until two goroutines meet or an answer is lost.
Undisturbed == ~accountOverlap /\ ~cut

StandingAccount == AccountTypes /\ RegisterStands /\ RefreshStands /\ NobodyStands

\* The two records in full.
LEMMA CallerParts ==
  ASSUME AccountTypes
  PROVE  /\ \A c \in Warp!Caller : /\ caller[c] = [at |-> Warp!At(c), holds |-> Warp!Holds(c)]
                                   /\ Warp!At(c) \in AccountSteps
                                   /\ Warp!Holds(c) \in Accounts \cup {NoAccount}
         /\ Warp!Idle \in [at : AccountSteps, holds : Accounts \cup {NoAccount}]
         /\ Warp!Idle.at = "idle"
BY DEF AccountTypes, Warp!At, Warp!Holds, Warp!Idle, AccountSteps

\* A goroutine moves on with what it holds.
LEMMA GoOn ==
  ASSUME AccountTypes, NEW c \in Warp!Caller, NEW to \in AccountSteps, Warp!Go(c, to)
  PROVE  /\ caller' \in [Warp!Caller -> [at : AccountSteps, holds : Accounts \cup {NoAccount}]]
         /\ Warp!At(c)' = to /\ Warp!Holds(c)' = Warp!Holds(c)
         /\ \A o \in Warp!Caller \ {c} : Warp!At(o)' = Warp!At(o) /\ Warp!Holds(o)' = Warp!Holds(o)
<1>1. PICK w : w = caller[c]
  OBVIOUS
<1>2. w \in [at : AccountSteps, holds : Accounts \cup {NoAccount}]
  BY <1>1 DEF AccountTypes
<1>3. PICK v : v = [w EXCEPT !.at = to]
  OBVIOUS
<1>4. v \in [at : AccountSteps, holds : Accounts \cup {NoAccount}] /\ v.at = to /\ v.holds = w.holds
  BY <1>2, <1>3
<1>5. caller' = [caller EXCEPT ![c] = v]
  BY <1>1, <1>3 DEF Warp!Go
<1> QED
  BY <1>1, <1>4, <1>5 DEF AccountTypes, Warp!At, Warp!Holds

\* A goroutine is given a new place and account.
LEMMA GoWith ==
  ASSUME AccountTypes, NEW c \in Warp!Caller,
         NEW v \in [at : AccountSteps, holds : Accounts \cup {NoAccount}],
         caller' = [caller EXCEPT ![c] = v]
  PROVE  /\ caller' \in [Warp!Caller -> [at : AccountSteps, holds : Accounts \cup {NoAccount}]]
         /\ Warp!At(c)' = v.at /\ Warp!Holds(c)' = v.holds
         /\ \A o \in Warp!Caller \ {c} : Warp!At(o)' = Warp!At(o) /\ Warp!Holds(o)' = Warp!Holds(o)
BY DEF AccountTypes, Warp!At, Warp!Holds

LEMMA EndOne ==
  ASSUME AccountTypes, NEW c \in Warp!Caller, Warp!End(c)
  PROVE  /\ caller' \in [Warp!Caller -> [at : AccountSteps, holds : Accounts \cup {NoAccount}]]
         /\ Warp!At(c)' = "idle"
         /\ \A o \in Warp!Caller \ {c} : Warp!At(o)' = Warp!At(o) /\ Warp!Holds(o)' = Warp!Holds(o)
BY CallerParts, GoWith DEF Warp!End

-----------------------------------------------------------------------------
(* Its steps.                                                              *)

\* RegisterWARP asks Cloudflare.
LEMMA RegisterInv ==
  ASSUME EgressParameters, WarpInv, Warp!Register
  PROVE  WarpInv'
<1> SUFFICES ASSUME Undisturbed' PROVE StandingAccount'
  BY DEF WarpInv, Undisturbed, StandingAccount
<1>1. /\ Undisturbed /\ StandingAccount /\ Warp!At("refresh") = "idle"
      /\ "register" \in Warp!Caller /\ "refresh" \in Warp!Caller \ {"register"}
  BY DEF Warp!Register, Warp!Began, Warp!Caller, WarpInv, Undisturbed, StandingAccount
<1>2. PICK v : v = [at |-> "save", holds |-> [device |-> devices', token |-> tokens']]
  OBVIOUS
<1>3. /\ devices' = devices + 1 /\ tokens' = tokens + 1 /\ current' = tokens'
      /\ caller' = [caller EXCEPT !["register"] = v] /\ UNCHANGED <<account, wgconf>>
  BY <1>2 DEF Warp!Register
<1>4. /\ devices' \in Nat /\ devices' > 0 /\ tokens' \in Nat /\ current' \in Nat
      /\ v \in [at : AccountSteps, holds : Accounts \cup {NoAccount}]
      /\ v.at = "save" /\ v.holds = Latest'
  BY <1>1, <1>2, <1>3 DEF StandingAccount, AccountTypes, AccountSteps, Accounts, Latest
<1>5. /\ AccountTypes' /\ Warp!At("register")' = "save" /\ Warp!Holds("register")' = Latest'
      /\ Warp!At("refresh")' = "idle"
  BY <1>1, <1>3, <1>4, GoWith DEF StandingAccount, AccountTypes
<1> QED
  BY <1>1, <1>4, <1>5 DEF StandingAccount, RegisterStands, RefreshStands, NobodyStands, Warp!Quiet

\* saveAccount truncates the file.
LEMMA TruncateInv ==
  ASSUME EgressParameters, WarpInv, NEW c \in Warp!Caller, Warp!SaveTruncate(c)
  PROVE  WarpInv'
<1> SUFFICES ASSUME Undisturbed' PROVE StandingAccount'
  BY DEF WarpInv, Undisturbed, StandingAccount
<1>1. /\ Undisturbed /\ StandingAccount /\ Warp!At(c) = "save" /\ Warp!Go(c, "write")
      /\ UNCHANGED <<wgconf, devices, tokens, current>>
  BY DEF Warp!SaveTruncate, Warp!history, Warp!cloud, WarpInv, Undisturbed, StandingAccount
<1>2. /\ AccountTypes' /\ Warp!At(c)' = "write" /\ Warp!Holds(c)' = Warp!Holds(c)
      /\ \A o \in Warp!Caller \ {c} : Warp!At(o)' = Warp!At(o) /\ Warp!Holds(o)' = Warp!Holds(o)
  BY <1>1, GoOn DEF StandingAccount, AccountTypes, AccountSteps
<1>3. Latest' = Latest
  BY <1>1 DEF Latest
<1>4. CASE c = "register"
  BY <1>1, <1>2, <1>3, <1>4 DEF StandingAccount, RegisterStands, RefreshStands, NobodyStands, Warp!Quiet, Warp!Caller
<1>5. CASE c = "refresh"
  BY <1>1, <1>2, <1>3, <1>5 DEF StandingAccount, RegisterStands, RefreshStands, NobodyStands, Warp!Quiet, Warp!Caller
<1> QED
  BY <1>4, <1>5 DEF Warp!Caller

\* saveAccount writes it.
LEMMA WriteInv ==
  ASSUME EgressParameters, WarpInv, NEW c \in Warp!Caller, Warp!SaveWrite(c)
  PROVE  WarpInv'
<1> SUFFICES ASSUME Undisturbed' PROVE StandingAccount'
  BY DEF WarpInv, Undisturbed, StandingAccount
<1>1. /\ Undisturbed /\ StandingAccount /\ Warp!At(c) = "write" /\ account' = Warp!Holds(c)
      /\ UNCHANGED <<wgconf, devices, tokens, current>>
  BY DEF Warp!SaveWrite, Warp!history, Warp!cloud, WarpInv, Undisturbed, StandingAccount
<1>2. Latest' = Latest
  BY <1>1 DEF Latest
<1>3. CASE c = "register"
  <2>1. /\ AccountTypes' /\ Warp!At(c)' = "config" /\ Warp!At("refresh")' = Warp!At("refresh")
    BY <1>1, <1>3, GoOn DEF Warp!SaveWrite, StandingAccount, AccountTypes, AccountSteps, Warp!Caller
  <2> QED
    BY <1>1, <1>2, <1>3, <2>1 DEF StandingAccount, RegisterStands, RefreshStands, NobodyStands, Warp!Quiet, Warp!Caller
<1>4. CASE c = "refresh"
  <2>1. /\ AccountTypes' /\ Warp!At(c)' = "idle" /\ Warp!At("register")' = Warp!At("register")
    BY <1>1, <1>4, EndOne DEF Warp!SaveWrite, StandingAccount, AccountTypes, Warp!Caller
  <2> QED
    BY <1>1, <1>2, <1>4, <2>1 DEF StandingAccount, RegisterStands, RefreshStands, NobodyStands, Warp!Quiet, Warp!Caller
<1> QED
  BY <1>3, <1>4 DEF Warp!Caller

\* SaveWireGuardConfig, with the account loaded again.
LEMMA ConfigInv ==
  ASSUME EgressParameters, WarpInv, Warp!SaveWireGuardConfig
  PROVE  WarpInv'
<1> SUFFICES ASSUME Undisturbed' PROVE StandingAccount'
  BY DEF WarpInv, Undisturbed, StandingAccount
<1>1. /\ Undisturbed /\ StandingAccount /\ Warp!At("register") = "config" /\ Warp!End("register")
      /\ UNCHANGED <<account, devices, tokens, current>>
      /\ wgconf' = IF account \in {NoAccount, Torn} THEN wgconf ELSE account.device
  BY DEF Warp!SaveWireGuardConfig, Warp!history, Warp!cloud, WarpInv, Undisturbed, StandingAccount
<1>2. devices > 0 /\ account = Latest /\ Warp!At("refresh") = "idle" /\ Latest \in Accounts
  BY <1>1 DEF StandingAccount, RegisterStands, AccountTypes, Latest, Accounts
<1>3. wgconf' = devices
  BY <1>1, <1>2 DEF EgressParameters, Latest, Accounts
<1>4. AccountTypes' /\ Warp!At("register")' = "idle" /\ Warp!At("refresh")' = "idle" /\ Latest' = Latest
  BY <1>1, <1>2, EndOne DEF StandingAccount, AccountTypes, Warp!Caller, Latest
<1> QED
  BY <1>1, <1>2, <1>3, <1>4 DEF StandingAccount, RegisterStands, RefreshStands, NobodyStands, Warp!Quiet

\* RefreshToken loads the account.
LEMMA LoadInv ==
  ASSUME EgressParameters, WarpInv, Warp!RefreshLoad
  PROVE  WarpInv'
<1> SUFFICES ASSUME Undisturbed' PROVE StandingAccount'
  BY DEF WarpInv, Undisturbed, StandingAccount
<1>1. /\ Undisturbed /\ StandingAccount /\ Warp!At("refresh") = "idle" /\ Warp!At("register") = "idle"
      /\ account \notin {NoAccount, Torn}
      /\ UNCHANGED <<account, wgconf, devices, tokens, current>>
  BY DEF Warp!RefreshLoad, Warp!Began, Warp!Caller, Warp!cloud, WarpInv, Undisturbed, StandingAccount
<1>2. devices > 0 /\ account = Latest /\ wgconf = devices
  BY <1>1 DEF StandingAccount, NobodyStands, Warp!Quiet, Warp!Caller
<1>3. PICK v : v = [at |-> "call", holds |-> account]
  OBVIOUS
<1>4. /\ v \in [at : AccountSteps, holds : Accounts \cup {NoAccount}] /\ v.at = "call" /\ v.holds = Latest
      /\ caller' = [caller EXCEPT !["refresh"] = v]
  BY <1>1, <1>2, <1>3 DEF StandingAccount, AccountTypes, AccountSteps, Accounts, Latest, Warp!RefreshLoad
<1>5. /\ AccountTypes' /\ Warp!At("refresh")' = "call" /\ Warp!Holds("refresh")' = Latest
      /\ Warp!At("register")' = "idle" /\ Latest' = Latest
  BY <1>1, <1>4, GoWith DEF StandingAccount, AccountTypes, Warp!Caller, Latest
<1> QED
  BY <1>1, <1>2, <1>5 DEF StandingAccount, RegisterStands, RefreshStands, NobodyStands, Warp!Quiet, Warp!Caller

\* Cloudflare answers it, perhaps with a new token for the device.
LEMMA AnswerInv ==
  ASSUME EgressParameters, WarpInv, Warp!RefreshAnswer
  PROVE  WarpInv'
<1> SUFFICES ASSUME Undisturbed' PROVE StandingAccount'
  BY DEF WarpInv, Undisturbed, StandingAccount
<1>1. /\ Undisturbed /\ StandingAccount /\ Warp!At("refresh") = "call"
      /\ UNCHANGED <<account, wgconf, devices>>
  BY DEF Warp!RefreshAnswer, Warp!history, WarpInv, Undisturbed, StandingAccount
<1>2. /\ Warp!Holds("refresh") = Latest /\ devices > 0 /\ wgconf = devices
      /\ Warp!At("register") = "idle" /\ Latest \in Accounts
  BY <1>1 DEF StandingAccount, RegisterStands, RefreshStands, AccountTypes, Latest, Accounts
<1>3. /\ AccountTypes' /\ Warp!At("refresh")' = "save" /\ Warp!Holds("refresh")' = Latest'
      /\ Warp!At("register")' = "idle"
  <2>1. CASE UNCHANGED <<tokens, current>> /\ Warp!Go("refresh", "save")
    BY <1>1, <1>2, <2>1, GoOn DEF StandingAccount, AccountTypes, AccountSteps, Warp!Caller, Latest
  <2>2. CASE /\ tokens' = tokens + 1
             /\ current' = IF Warp!Holds("refresh").device = devices THEN tokens' ELSE current
             /\ caller' = [caller EXCEPT !["refresh"].at = "save", !["refresh"].holds.token = tokens']
    <3>1. tokens' \in Nat /\ current' = tokens' /\ devices' \in Nat
      BY <1>1, <1>2, <2>2 DEF StandingAccount, AccountTypes, Latest
    <3>2. PICK w : w = caller["refresh"]
      OBVIOUS
    <3>3. w = [at |-> "call", holds |-> Latest]
      BY <1>1, <1>2, <3>2, CallerParts DEF StandingAccount, Warp!Caller
    <3>4. PICK v : v = [w EXCEPT !.at = "save", !.holds.token = tokens']
      OBVIOUS
    <3>5. v = [at |-> "save", holds |-> Latest']
      BY <1>1, <3>1, <3>3, <3>4 DEF Latest
    <3>6. /\ v \in [at : AccountSteps, holds : Accounts \cup {NoAccount}] /\ v.at = "save" /\ v.holds = Latest'
      BY <3>1, <3>5 DEF AccountSteps, Accounts, Latest
    <3>7. caller' = [caller EXCEPT !["refresh"] = v]
      BY <2>2, <3>2, <3>4
    <3> QED
      BY <1>1, <1>2, <3>1, <3>6, <3>7, GoWith DEF StandingAccount, AccountTypes, Warp!Caller
  <2> QED
    BY <2>1, <2>2 DEF Warp!RefreshAnswer
<1> QED
  BY <1>1, <1>2, <1>3 DEF StandingAccount, RegisterStands, RefreshStands, NobodyStands, Warp!Quiet, Warp!Caller

\* A goroutine gives up: before Cloudflare answered nothing is lost.
LEMMA FailsInv ==
  ASSUME EgressParameters, WarpInv, NEW c \in Warp!Caller, Warp!Fails(c)
  PROVE  WarpInv'
<1> SUFFICES ASSUME Undisturbed' PROVE StandingAccount'
  BY DEF WarpInv, Undisturbed, StandingAccount
<1>1. /\ Undisturbed /\ StandingAccount /\ Warp!At(c) = "call" /\ Warp!End(c)
      /\ UNCHANGED <<account, wgconf, devices, tokens, current>>
  BY DEF Warp!Fails, Warp!cloud, WarpInv, Undisturbed, StandingAccount
<1>2. c = "refresh" /\ Warp!At("register") = "idle"
  BY <1>1 DEF StandingAccount, RegisterStands, Warp!Caller
<1>3. AccountTypes' /\ Warp!At("refresh")' = "idle" /\ Warp!At("register")' = "idle" /\ Latest' = Latest
  BY <1>1, <1>2, EndOne DEF StandingAccount, AccountTypes, Warp!Caller, Latest
<1> QED
  BY <1>1, <1>2, <1>3 DEF StandingAccount, RegisterStands, RefreshStands, NobodyStands, Warp!Quiet

LEMMA RestartInv ==
  ASSUME EgressParameters, WarpInv, Warp!Restart
  PROVE  WarpInv'
<1> SUFFICES ASSUME Undisturbed' PROVE StandingAccount'
  BY DEF WarpInv, Undisturbed, StandingAccount
<1>1. /\ Undisturbed /\ StandingAccount /\ \A c \in Warp!Caller : Warp!At(c) \in {"idle", "call"}
      /\ UNCHANGED <<account, wgconf, devices, tokens, current>>
      /\ caller' = [c \in Warp!Caller |-> Warp!Idle]
  BY DEF Warp!Restart, Warp!cloud, WarpInv, Undisturbed, StandingAccount
<1>2. AccountTypes' /\ (\A c \in Warp!Caller : Warp!At(c)' = "idle") /\ Latest' = Latest
  BY <1>1, CallerParts DEF StandingAccount, AccountTypes, Latest, Warp!At
<1>3. IF devices > 0 THEN account = Latest /\ wgconf = devices ELSE account = NoAccount
  BY <1>1 DEF StandingAccount, RegisterStands, RefreshStands, NobodyStands, Warp!Quiet, Warp!Caller
<1> QED
  BY <1>1, <1>2, <1>3 DEF StandingAccount, RegisterStands, RefreshStands, NobodyStands, Warp!Quiet, Warp!Caller

LEMMA WarpNext ==
  ASSUME EgressParameters, WarpInv, [Warp!Next]_accountVars
  PROVE  WarpInv'
<1>1. CASE UNCHANGED accountVars
  <2>1. \A c : Warp!At(c)' = Warp!At(c) /\ Warp!Holds(c)' = Warp!Holds(c)
    BY <1>1 DEF accountVars, Warp!At, Warp!Holds
  <2> QED
    BY <1>1, <2>1 DEF accountVars, WarpInv, AccountTypes, RegisterStands, RefreshStands, NobodyStands, Latest,
                      Warp!Quiet
<1>2. CASE Warp!Next
  BY <1>2, RegisterInv, ConfigInv, LoadInv, AnswerInv, RestartInv, TruncateInv, WriteInv, FailsInv DEF Warp!Next
<1> QED
  BY <1>1, <1>2

LEMMA WarpInit == Warp!Init => WarpInv
<1> SUFFICES ASSUME Warp!Init PROVE AccountTypes /\ RegisterStands /\ RefreshStands /\ NobodyStands
  BY DEF WarpInv
<1>1. AccountTypes /\ \A c \in Warp!Caller : Warp!At(c) = "idle"
  BY DEF Warp!Init, AccountTypes, AccountSteps, Warp!Idle, Warp!At
<1> QED
  BY <1>1 DEF Warp!Init, RegisterStands, RefreshStands, NobodyStands, Warp!Caller

\* With nobody at work the account file holds the device registered last and
\* its latest token, and wg.conf the keys of that device, unless a registration
\* met a refresh or an answer was lost (RegisterWARP, RefreshToken).
THEOREM LatestIsSaved ==
  ASSUME EgressParameters
  PROVE  Spec => []AccountStands
<1> DEFINE Inv == part = "account" => WarpInv
<1>1. Init => Inv
  BY WarpInit DEF Init
<1>2. Inv /\ [Next]_vars => Inv'
  BY Exercised, WarpNext
<1>3. Inv => AccountStands
  BY DEF AccountStands, Warp!AccountStands, WarpInv, NobodyStands, Latest
<1> QED
  BY <1>1, <1>2, <1>3, PTL DEF Spec

-----------------------------------------------------------------------------
(* The geo database file: the workers, and what a step makes of them.      *)

\* Until two updates meet or a release comes during one.
Unmixed == ~fileOverlap /\ ~raced

StandingFile == FileTypes /\ FinalStands /\ \A w \in Geo!Worker : UpdateStands(w)

LEMMA TheOther ==
  \A w \in Geo!Worker : /\ Geo!Other(w) \in Geo!Worker \ {w}
                        /\ \A o \in Geo!Worker \ {w} : o = Geo!Other(w)
<1>1. \A w \in Geo!Worker : \E o \in Geo!Worker : o # w
  BY DEF Geo!Worker
<1>2. \A w \in Geo!Worker : Geo!Other(w) \in Geo!Worker /\ Geo!Other(w) # w
  BY <1>1 DEF Geo!Other
<1> QED
  BY <1>2 DEF Geo!Worker

\* A worker's record is replaced; the other has nothing in hand.
LEMMA UpdateGiven ==
  ASSUME FileTypes, NEW w \in Geo!Worker, NEW v \in Updates, update' = [update EXCEPT ![w] = v]
  PROVE  /\ update' \in [Geo!Worker -> Updates]
         /\ update'[w] = v /\ Geo!At(w)' = v.at
         /\ \A o \in Geo!Worker \ {w} : update'[o] = update[o] /\ Geo!At(o)' = Geo!At(o)
BY DEF FileTypes, Geo!At

LEMMA IdleUpdate == Geo!Idle \in Updates /\ Geo!Idle.at = "idle" /\ Geo!Idle.inode = NoFile
BY DEF Geo!Idle, Updates, UpdateSteps

\* An idle worker stands whatever the files are.
LEMMA IdleStands ==
  ASSUME NEW w \in Geo!Worker, Geo!At(w) = "idle", update[w].inode = NoFile
  PROVE  UpdateStands(w)
BY DEF UpdateStands

\* Who works is alone, and the others have no inode in hand.
LEMMA OthersIdle ==
  ASSUME StandingFile, NEW w \in Geo!Worker, Geo!At(w) # "idle"
  PROVE  \A o \in Geo!Worker \ {w} : Geo!At(o) = "idle" /\ update[o].inode = NoFile
BY DEF StandingFile, UpdateStands

-----------------------------------------------------------------------------
(* Its steps.                                                              *)

\* The request: what upstream has now.
LEMMA AskInv ==
  ASSUME EgressParameters, GeoInv, NEW w \in Geo!Worker, Geo!Ask(w)
  PROVE  GeoInv'
<1> SUFFICES ASSUME Unmixed' PROVE StandingFile'
  BY DEF GeoInv, Unmixed, StandingFile
<1>1. /\ Unmixed /\ StandingFile /\ Geo!At(Geo!Other(w)) = "idle"
      /\ UNCHANGED <<final, tmp, inode, upstream, wanted>>
  BY DEF Geo!Ask, GeoInv, Unmixed, StandingFile
<1>2. PICK v : v = [at |-> "create", inode |-> NoFile, release |-> upstream]
  OBVIOUS
<1>3. /\ v \in Updates /\ v.at = "create" /\ v.inode = NoFile /\ v.release = upstream
      /\ update' = [update EXCEPT ![w] = v]
  BY <1>1, <1>2 DEF StandingFile, FileTypes, Updates, UpdateSteps, Geo!Ask
<1>4. /\ update' \in [Geo!Worker -> Updates] /\ update'[w] = v /\ Geo!At(w)' = "create"
      /\ \A o \in Geo!Worker \ {w} : update'[o] = update[o] /\ Geo!At(o)' = "idle"
  BY <1>1, <1>3, UpdateGiven, TheOther DEF StandingFile
<1>5. FileTypes' /\ FinalStands'
  BY <1>1, <1>4 DEF StandingFile, FileTypes, FinalStands
<1>6. UpdateStands(w)'
  BY <1>1, <1>3, <1>4 DEF UpdateStands
<1>7. \A o \in Geo!Worker \ {w} : UpdateStands(o)'
  BY <1>1, <1>4, TheOther DEF StandingFile, UpdateStands
<1> QED
  BY <1>5, <1>6, <1>7 DEF StandingFile

\* 304: the file is of the latest release.
LEMMA NotModifiedInv ==
  ASSUME EgressParameters, GeoInv, NEW w \in Geo!Worker, Geo!NotModified(w)
  PROVE  GeoInv'
<1> SUFFICES ASSUME Unmixed' PROVE StandingFile'
  BY DEF GeoInv, Unmixed, StandingFile
<1>1. /\ Unmixed /\ StandingFile /\ wanted' = upstream
      /\ final # NoFile /\ ~(inode[final].stamp < upstream)
      /\ UNCHANGED <<final, tmp, inode, update, upstream>>
  BY DEF Geo!NotModified, Geo!Modified, GeoInv, Unmixed, StandingFile
<1>2. FileTypes'
  BY <1>1 DEF StandingFile, FileTypes
<1>3. inode[final].release \in Nat /\ inode[final].stamp \in Nat /\ upstream \in Nat
  BY <1>1 DEF StandingFile, FileTypes, Contents
<1>4. FinalStands'
  BY <1>1, <1>3 DEF StandingFile, FinalStands
<1>5. \A o \in Geo!Worker : UpdateStands(o)'
  BY <1>1 DEF StandingFile, UpdateStands, Geo!At
<1> QED
  BY <1>2, <1>4, <1>5 DEF StandingFile

\* os.Create: the file that is in use is another inode.
LEMMA CreateInv ==
  ASSUME EgressParameters, GeoInv, NEW w \in Geo!Worker, Geo!Create(w)
  PROVE  GeoInv'
<1> SUFFICES ASSUME Unmixed' PROVE StandingFile'
  BY DEF GeoInv, Unmixed, StandingFile
<1>1. /\ Unmixed /\ StandingFile /\ Geo!At(w) = "create"
      /\ UNCHANGED <<final, upstream, wanted>>
  BY DEF Geo!Create, GeoInv, Unmixed, StandingFile
<1>2. PICK i : i = Geo!Opened(tmp)
  OBVIOUS
<1>3. /\ tmp' = i /\ inode' = [inode EXCEPT ![i] = Geo!Emptied(w)]
      /\ update' = [update EXCEPT ![w].at = "copy", ![w].inode = i]
  BY <1>2 DEF Geo!Create
<1>4. \A o \in Geo!Worker : update[o].inode = NoFile
  BY <1>1, OthersIdle DEF StandingFile, UpdateStands
<1>5. i \in Geo!Inode /\ i # final
  <2>1. CASE tmp # NoFile
    BY <1>1, <1>2, <2>1 DEF Geo!Opened, StandingFile, FileTypes, FinalStands
  <2>2. CASE tmp = NoFile
    <3>1. \E j \in Geo!Inode : j # final
      BY DEF Geo!Inode
    <3>2. \E j \in Geo!Inode : Geo!Free(j)
      BY <1>4, <2>2, <3>1 DEF Geo!Free, EgressParameters
    <3>3. i \in Geo!Inode /\ Geo!Free(i)
      BY <1>2, <2>2, <3>2 DEF Geo!Opened
    <3> QED
      BY <3>3 DEF Geo!Free
  <2> QED
    BY <2>1, <2>2
<1>6. PICK e : e = Geo!Emptied(w)
  OBVIOUS
<1>7. e \in Contents /\ e.writer = w
  BY <1>1, <1>6 DEF Geo!Emptied, Contents, StandingFile, FileTypes
<1>8. /\ inode' \in [Geo!Inode -> Contents] /\ inode'[i].writer = w
      /\ \A j \in Geo!Inode \ {i} : inode'[j] = inode[j]
  BY <1>1, <1>3, <1>5, <1>6, <1>7 DEF StandingFile, FileTypes
<1>9. PICK u : u = update[w]
  OBVIOUS
<1>10. PICK v : v = [u EXCEPT !.at = "copy", !.inode = i]
  OBVIOUS
<1>11. u \in Updates /\ u.release = upstream
  BY <1>1, <1>9 DEF StandingFile, FileTypes, UpdateStands
<1>12. v \in Updates /\ v.at = "copy" /\ v.inode = i /\ v.release = upstream
  BY <1>5, <1>10, <1>11 DEF Updates, UpdateSteps
<1>13. update' = [update EXCEPT ![w] = v]
  BY <1>3, <1>9, <1>10
<1>14. /\ update' \in [Geo!Worker -> Updates] /\ update'[w] = v /\ Geo!At(w)' = "copy"
       /\ \A o \in Geo!Worker \ {w} : update'[o] = update[o] /\ Geo!At(o)' = "idle"
  BY <1>1, <1>12, <1>13, UpdateGiven, OthersIdle DEF StandingFile
<1>15. FileTypes'
  BY <1>1, <1>3, <1>5, <1>8, <1>14 DEF StandingFile, FileTypes
<1>16. FinalStands'
  BY <1>1, <1>3, <1>5, <1>8 DEF StandingFile, FileTypes, FinalStands
<1>17. UpdateStands(w)'
  BY <1>1, <1>3, <1>5, <1>8, <1>12, <1>14 DEF UpdateStands, EgressParameters
<1>18. \A o \in Geo!Worker \ {w} : UpdateStands(o)'
  BY <1>4, <1>14, TheOther DEF UpdateStands
<1> QED
  BY <1>15, <1>16, <1>17, <1>18 DEF StandingFile

\* The download is complete, with the time of now.
LEMMA CopiedInv ==
  ASSUME EgressParameters, GeoInv, NEW w \in Geo!Worker, Geo!Copied(w)
  PROVE  GeoInv'
<1> SUFFICES ASSUME Unmixed' PROVE StandingFile'
  BY DEF GeoInv, Unmixed, StandingFile
<1>1. /\ Unmixed /\ StandingFile /\ Geo!At(w) = "copy"
      /\ UNCHANGED <<final, tmp, upstream, wanted>>
  BY DEF Geo!Copied, GeoInv, Unmixed, StandingFile
<1>2. /\ update[w].inode = tmp /\ tmp \in Geo!Inode /\ inode[tmp].writer = w
      /\ update[w].release = upstream /\ final # tmp
  BY <1>1 DEF StandingFile, UpdateStands, FileTypes, FinalStands
<1>3. update[Geo!Other(w)].inode # tmp
  BY <1>1, <1>2, OthersIdle, TheOther DEF EgressParameters
<1>4. PICK e : e = inode[tmp]
  OBVIOUS
<1>5. PICK b : b = (inode[tmp].writer = w /\ (update[Geo!Other(w)].inode = tmp =>
                      update[Geo!Other(w)].release = update[w].release))
  OBVIOUS
<1>6. b = TRUE
  BY <1>2, <1>3, <1>5
<1>7. PICK d : d = [e EXCEPT !.whole = b, !.release = upstream, !.stamp = upstream]
  OBVIOUS
<1>8. inode' = [inode EXCEPT ![tmp] = d]
  BY <1>2, <1>4, <1>5, <1>7 DEF Geo!Copied
<1>9. d \in Contents /\ d.whole /\ d.release = upstream /\ d.stamp = upstream
  BY <1>1, <1>2, <1>4, <1>6, <1>7 DEF StandingFile, FileTypes, Contents
<1>10. /\ inode' \in [Geo!Inode -> Contents] /\ inode'[tmp] = d
       /\ \A j \in Geo!Inode \ {tmp} : inode'[j] = inode[j]
  BY <1>1, <1>2, <1>8, <1>9 DEF StandingFile, FileTypes
<1>11. PICK u : u = update[w]
  OBVIOUS
<1>12. PICK v : v = [u EXCEPT !.at = "rename"]
  OBVIOUS
<1>13. v \in Updates /\ v.at = "rename" /\ v.inode = tmp /\ v.release = upstream
  BY <1>1, <1>2, <1>11, <1>12 DEF StandingFile, FileTypes, Updates, UpdateSteps
<1>14. update' = [update EXCEPT ![w] = v]
  BY <1>11, <1>12 DEF Geo!Copied
<1>15. /\ update' \in [Geo!Worker -> Updates] /\ update'[w] = v /\ Geo!At(w)' = "rename"
       /\ \A o \in Geo!Worker \ {w} : update'[o] = update[o] /\ Geo!At(o)' = "idle"
  BY <1>1, <1>13, <1>14, UpdateGiven, OthersIdle DEF StandingFile
<1>16. FileTypes'
  BY <1>1, <1>10, <1>15 DEF StandingFile, FileTypes
<1>17. FinalStands'
  BY <1>1, <1>2, <1>10 DEF StandingFile, FileTypes, FinalStands
<1>18. UpdateStands(w)'
  BY <1>1, <1>2, <1>9, <1>10, <1>13, <1>15 DEF UpdateStands, EgressParameters
<1>19. \A o \in Geo!Worker \ {w} : UpdateStands(o)'
  BY <1>1, <1>15, OthersIdle, TheOther DEF UpdateStands
<1> QED
  BY <1>16, <1>17, <1>18, <1>19 DEF StandingFile

\* It broke off, and the temporary file is removed.
LEMMA CopyFailsInv ==
  ASSUME EgressParameters, GeoInv, NEW w \in Geo!Worker, Geo!CopyFails(w)
  PROVE  GeoInv'
<1> SUFFICES ASSUME Unmixed' PROVE StandingFile'
  BY DEF GeoInv, Unmixed, StandingFile
<1>1. /\ Unmixed /\ StandingFile /\ Geo!At(w) = "copy" /\ tmp' = NoFile
      /\ update' = [update EXCEPT ![w] = Geo!Idle]
      /\ UNCHANGED <<final, inode, upstream, wanted>>
  BY DEF Geo!CopyFails, Geo!End, GeoInv, Unmixed, StandingFile
<1>2. /\ update' \in [Geo!Worker -> Updates] /\ \A o \in Geo!Worker : Geo!At(o)' = "idle" /\ update'[o].inode = NoFile
  BY <1>1, UpdateGiven, IdleUpdate, OthersIdle DEF StandingFile
<1>3. FileTypes' /\ FinalStands'
  BY <1>1, <1>2 DEF StandingFile, FileTypes, FinalStands
<1> QED
  BY <1>2, <1>3 DEF StandingFile, UpdateStands

\* The temporary file takes the place of the other.
LEMMA RenameInv ==
  ASSUME EgressParameters, GeoInv, NEW w \in Geo!Worker, Geo!Rename(w)
  PROVE  GeoInv'
<1> SUFFICES ASSUME Unmixed' PROVE StandingFile'
  BY DEF GeoInv, Unmixed, StandingFile
<1>1. /\ Unmixed /\ StandingFile /\ Geo!At(w) = "rename"
      /\ update' = [update EXCEPT ![w] = Geo!Idle]
      /\ UNCHANGED <<inode, upstream>>
  BY DEF Geo!Rename, Geo!End, GeoInv, Unmixed, StandingFile
<1>2. /\ tmp # NoFile /\ update[w].release = upstream /\ inode[tmp].whole
      /\ inode[tmp].release = upstream /\ inode[tmp].stamp = upstream
  BY <1>1 DEF StandingFile, UpdateStands
<1>3. final' = tmp /\ tmp' = NoFile /\ wanted' = upstream
  BY <1>2 DEF Geo!Rename
<1>4. /\ update' \in [Geo!Worker -> Updates] /\ \A o \in Geo!Worker : Geo!At(o)' = "idle" /\ update'[o].inode = NoFile
  BY <1>1, UpdateGiven, IdleUpdate, OthersIdle DEF StandingFile
<1>5. FileTypes' /\ FinalStands'
  BY <1>1, <1>2, <1>3, <1>4 DEF StandingFile, FileTypes, FinalStands
<1> QED
  BY <1>4, <1>5 DEF StandingFile, UpdateStands

\* A release, with nobody at work.
LEMMA ReleaseInv ==
  ASSUME EgressParameters, GeoInv, Geo!Release
  PROVE  GeoInv'
<1> SUFFICES ASSUME Unmixed' PROVE StandingFile'
  BY DEF GeoInv, Unmixed, StandingFile
<1>1. /\ Unmixed /\ StandingFile /\ (\A w \in Geo!Worker : Geo!At(w) = "idle") /\ upstream' = upstream + 1
      /\ UNCHANGED <<final, tmp, inode, update, wanted>>
  BY DEF Geo!Release, Geo!Busy, GeoInv, Unmixed, StandingFile
<1>2. FileTypes' /\ FinalStands'
  BY <1>1 DEF StandingFile, FileTypes, FinalStands
<1>3. \A w \in Geo!Worker : Geo!At(w)' = "idle"
  BY <1>1 DEF Geo!At
<1> QED
  BY <1>1, <1>2, <1>3 DEF StandingFile, UpdateStands

\* A restart leaves the temporary file to whoever truncates it next.
LEMMA GeoRestartInv ==
  ASSUME EgressParameters, GeoInv, Geo!Restart
  PROVE  GeoInv'
<1> SUFFICES ASSUME Unmixed' PROVE StandingFile'
  BY DEF GeoInv, Unmixed, StandingFile
<1>1. /\ StandingFile /\ update' = [w \in Geo!Worker |-> Geo!Idle]
      /\ UNCHANGED <<final, tmp, inode, upstream, wanted>>
  BY DEF Geo!Restart, GeoInv, Unmixed, StandingFile
<1>2. /\ update' \in [Geo!Worker -> Updates] /\ \A o \in Geo!Worker : Geo!At(o)' = "idle" /\ update'[o].inode = NoFile
  BY <1>1, IdleUpdate DEF Geo!At
<1>3. FileTypes' /\ FinalStands'
  BY <1>1, <1>2 DEF StandingFile, FileTypes, FinalStands
<1> QED
  BY <1>2, <1>3 DEF StandingFile, UpdateStands

LEMMA GeoNext ==
  ASSUME EgressParameters, GeoInv, [Geo!Next]_fileVars
  PROVE  GeoInv'
<1>1. CASE UNCHANGED fileVars
  BY <1>1 DEF fileVars, GeoInv, FileTypes, FinalStands, UpdateStands, Geo!At
<1>2. CASE Geo!Next
  BY <1>2, AskInv, NotModifiedInv, CreateInv, CopiedInv, CopyFailsInv, RenameInv, ReleaseInv, GeoRestartInv DEF Geo!Next
<1> QED
  BY <1>1, <1>2

LEMMA GeoInit == EgressParameters /\ Geo!Init => GeoInv
<1> SUFFICES ASSUME EgressParameters, Geo!Init
             PROVE  FileTypes /\ FinalStands /\ \A w \in Geo!Worker : UpdateStands(w)
  BY DEF GeoInv
<1>1. update \in [Geo!Worker -> Updates] /\ \A o \in Geo!Worker : Geo!At(o) = "idle" /\ update[o].inode = NoFile
  BY IdleUpdate DEF Geo!Init, Geo!At
<1>2. FileTypes /\ FinalStands
  BY <1>1 DEF Geo!Init, FileTypes, FinalStands, Contents, Geo!Worker
<1> QED
  BY <1>1, <1>2 DEF UpdateStands

\* The file is absent or whole at every moment, and an update that reports
\* success leaves the release that was the latest when it began; unless two
\* updates overlapped or a release came out during a download
\* (UpdateAllDatabases, downloadFileConditional).
THEOREM FileIsLatest ==
  ASSUME EgressParameters
  PROVE  Spec => []GeoCurrent
<1> DEFINE Inv == part = "files" => GeoInv
<1>1. Init => Inv
  BY GeoInit DEF Init
<1>2. Inv /\ [Next]_vars => Inv'
  BY Exercised, GeoNext
<1>3. Inv => GeoCurrent
  BY DEF GeoCurrent, Geo!GeoCurrent, GeoInv, FinalStands
<1> QED
  BY <1>1, <1>2, <1>3, PTL DEF Spec

-----------------------------------------------------------------------------
(* The rules.  Here nothing depends on history: given what the tables      *)
(* hold, it is an argument about lists.                                    *)

\* Priorities are numbers, the rows of outbounds have ids from 1, an IPv6
\* address lies in the prefix of 32 bits that is named after it, and what ends
\* in a domain has it as a part.
RoutingParameters ==
  /\ MaxRows \in Nat
  /\ \A c \in GeoChoices : c.priority \in Int
  /\ \A rows \in OutboundRows : \E F : rows \in Seq([tag : STRING \X (Nat \ {0}), filter : F])
  /\ \A t \in Traffic : \A a \in IPv6 : <<"address", a>> \in t => <<"prefix", a>> \in t
  /\ \A t \in Traffic : \A a : <<"suffix", a>> \in t => <<"part", a>> \in t

IsGeoRow(r) == \E c \in GeoChoices, e \in BOOLEAN : r = GeoRow(c, e)

TablesInv ==
  /\ DOMAIN routes = Id /\ DOMAIN rules = Id
  /\ \A i \in Id : rules[i] # NoRow => IsGeoRow(rules[i])
  /\ part = "tables" => outbounds \in OutboundRows

LEMMA TablesInit == Init => TablesInv
BY DEF Init, Empty, TablesInv

LEMMA TablesNext == TablesInv /\ [Next]_vars => TablesInv'
<1> SUFFICES ASSUME TablesInv, [Next]_vars
             PROVE  TablesInv'
  OBVIOUS
<1> USE DEF TablesInv
<1>1. CASE UNCHANGED tables /\ UNCHANGED <<part, outbounds>>
  BY <1>1 DEF tables
<1>2. CASE RouteRequest /\ UNCHANGED <<part, outbounds>>
  BY <1>2 DEF RouteRequest, CreateWarpRoute, UpdateWarpRoute, DeleteWarpRoute, ToggleWarpRoute, ApplyPreset
<1>3. CASE GeoRequest /\ UNCHANGED <<part, outbounds>>
  <2>1. ASSUME NEW c \in GeoChoices, CreateGeoRule(c)
        PROVE  TablesInv'
    <3>1. IsGeoRow(GeoRow(c, TRUE))
      BY DEF IsGeoRow
    <3> QED
      BY <1>3, <2>1, <3>1 DEF CreateGeoRule
  <2>2. ASSUME NEW i \in Id, NEW c \in GeoChoices, UpdateGeoRule(i, c)
        PROVE  TablesInv'
    <3>1. PICK e : e = rules[i].enabled
      OBVIOUS
    <3>2. e \in BOOLEAN
      BY <2>2, <3>1 DEF UpdateGeoRule, Present, IsGeoRow, GeoRow
    <3>3. IsGeoRow(GeoRow(c, e))
      BY <3>2 DEF IsGeoRow
    <3>4. rules' = [rules EXCEPT ![i] = GeoRow(c, e)]
      BY <2>2, <3>1 DEF UpdateGeoRule
    <3> QED
      BY <1>3, <2>2, <3>3, <3>4 DEF UpdateGeoRule
  <2>3. ASSUME NEW i \in Id, DeleteGeoRule(i)
        PROVE  TablesInv'
    BY <1>3, <2>3 DEF DeleteGeoRule
  <2>4. ASSUME NEW i \in Id, ToggleGeoRule(i)
        PROVE  TablesInv'
    <3>1. PICK c \in GeoChoices, e \in BOOLEAN : rules[i] = GeoRow(c, e)
      BY <2>4 DEF ToggleGeoRule, Present, IsGeoRow
    <3>2. rules'[i] = GeoRow(c, ~e)
      BY <2>4, <3>1 DEF ToggleGeoRule, GeoRow
    <3>3. IsGeoRow(GeoRow(c, ~e))
      BY DEF IsGeoRow
    <3> QED
      BY <1>3, <2>4, <3>2, <3>3 DEF ToggleGeoRule
  <2> QED
    BY <1>3, <2>1, <2>2, <2>3, <2>4 DEF GeoRequest
<1> QED
  BY <1>1, <1>2, <1>3 DEF Next, vars

-----------------------------------------------------------------------------
(* Numbers and lists.                                                      *)

\* Induction, said of a set.
LEMMA AllNumbers ==
  ASSUME NEW K, 0 \in K, \A k \in Nat : k \in K => k + 1 \in K
  PROVE  Nat \subseteq K
<1> DEFINE R == OpToRel(<, Nat)
           B == Nat \ K
<1>1. IsWellFoundedOn(R, Nat)
  BY NatLessThanWellFounded
<1>2. \A x, y \in Nat : x < y => <<x, y>> \in R
  BY DEF OpToRel
<1> HIDE DEF R
<1>3. ASSUME B # {}
      PROVE  FALSE
  <2>1. PICK b \in B : \A u \in B : ~(<<u, b>> \in R)
    BY <1>1, <1>3, WFMin
  <2>2. b # 0 /\ b \in Nat
    OBVIOUS
  <2>3. b - 1 \in Nat /\ b - 1 < b /\ b - 1 + 1 = b
    BY <2>2
  <2>4. b - 1 \in B
    BY <2>3
  <2> QED
    BY <1>2, <2>1, <2>2, <2>3, <2>4
<1> QED
  BY <1>3

Joined(all, a, b) == all = a \o b

Among(x, list) == \E n \in DOMAIN list : x = list[n]

LEMMA ConcatMembers ==
  ASSUME NEW T, NEW a \in Seq(T), NEW b \in Seq(T), NEW all, Joined(all, a, b), NEW x
  PROVE  Among(x, all) <=> Among(x, a) \/ Among(x, b)
<1>1. /\ Len(a) \in Nat /\ Len(b) \in Nat /\ DOMAIN a = 1..Len(a) /\ DOMAIN b = 1..Len(b)
      /\ DOMAIN all = 1..(Len(a) + Len(b))
  BY DEF Joined
<1>2. \A n \in DOMAIN a : n \in DOMAIN all /\ all[n] = a[n]
  BY <1>1 DEF Joined
<1>3. \A n \in DOMAIN b : n + Len(a) \in DOMAIN all /\ all[n + Len(a)] = b[n]
  BY <1>1 DEF Joined
<1>4. \A n \in DOMAIN all : n \in DOMAIN a \/ n - Len(a) \in DOMAIN b
  BY <1>1
<1>5. \A n \in DOMAIN all : n - Len(a) \in DOMAIN b => all[n] = b[n - Len(a)]
  BY <1>1 DEF Joined
<1>6. ASSUME NEW n \in DOMAIN all, x = all[n]
      PROVE  (\E m \in DOMAIN a : x = a[m]) \/ (\E m \in DOMAIN b : x = b[m])
  <2>1. CASE n \in DOMAIN a
    BY <1>2, <1>6, <2>1
  <2>2. CASE n - Len(a) \in DOMAIN b
    BY <1>5, <1>6, <2>2
  <2> QED
    BY <1>4, <2>1, <2>2
<1>7. ASSUME NEW n \in DOMAIN a, x = a[n]
      PROVE  \E m \in DOMAIN all : x = all[m]
  BY <1>2, <1>7
<1>8. ASSUME NEW n \in DOMAIN b, x = b[n]
      PROVE  \E m \in DOMAIN all : x = all[m]
  BY <1>3, <1>8
<1> QED
  BY <1>6, <1>7, <1>8 DEF Among

-----------------------------------------------------------------------------
(* An order lists each enabled row.                                        *)

LEMMA OrderFacts ==
  ASSUME NEW table, DOMAIN table = Id, MaxRows \in Nat, NEW s \in Orders(table)
  PROVE  /\ Len(s) \in Nat /\ DOMAIN s = 1..Len(s) /\ s \in Seq(Enabled(table))
         /\ \A i \in Enabled(table) : \E n \in DOMAIN s : s[n] = i
         /\ \A i, j \in DOMAIN s : i < j => table[s[i]].priority >= table[s[j]].priority
<1>1. IsFiniteSet(Id) /\ Enabled(table) \subseteq Id
  BY FS_Interval DEF Id, Enabled
<1>2. IsFiniteSet(Enabled(table)) /\ Cardinality(Enabled(table)) \in Nat
  BY <1>1, FS_Subset, FS_CardinalityType
<1>3. PICK n : n = Cardinality(Enabled(table))
  OBVIOUS
<1>4. Sequence!Cardinality(Enabled(table)) = n
  BY <1>3 DEF Sequence!Cardinality, Cardinality
<1>5. /\ s \in [1..n -> Enabled(table)] /\ \A i, j \in 1..n : i # j => s[i] # s[j]
      /\ \A i, j \in DOMAIN s : i < j => table[s[i]].priority >= table[s[j]].priority
  BY <1>4 DEF Orders, Sequence!SetToSeqs
<1>6. s \in Seq(Enabled(table)) /\ Len(s) = n /\ DOMAIN s = 1..n
  BY <1>2, <1>3, <1>5
<1>7. ASSUME NEW i \in Enabled(table), \A m \in 1..n : s[m] # i
      PROVE  FALSE
  <2>1. PICK rest : rest = Enabled(table) \ {i}
    OBVIOUS
  <2>2. IsFiniteSet(rest) /\ Cardinality(rest) < n
    <3>1. IsFiniteSet(Enabled(table) \ {i}) /\ Cardinality(Enabled(table) \ {i}) = n - 1
      BY <1>2, <1>3, FS_RemoveElement
    <3> QED
      BY <1>2, <1>3, <2>1, <3>1
  <2>3. IsFiniteSet(1..n) /\ Cardinality(1..n) = n
    BY <1>2, <1>3, FS_Interval
  <2>4. s \in [1..n -> rest]
    BY <1>5, <1>7, <2>1
  <2> QED
    BY <1>5, <2>2, <2>3, <2>4, FS_PigeonHole
<1> QED
  BY <1>2, <1>3, <1>5, <1>6, <1>7

-----------------------------------------------------------------------------
(* The first rule that fits, among all and among those with a condition.   *)

Fits(r, t) == r.if \cap t # {}

First(list, t, n) ==
  n \in DOMAIN list /\ Fits(list[n], t) /\ \A m \in DOMAIN list : m < n => ~Fits(list[m], t)

LEMMA FirstDecides ==
  ASSUME NEW core, NEW d, NEW S, NEW list \in Seq(S), NEW t, NEW n, First(list, t, n)
  PROVE  Decision(core, d, list, t) =
           IF list[n].to \in Known(core, d) THEN list[n].to ELSE Default(core, d)
<1> DEFINE fits == {m \in DOMAIN list : list[m].if \cap t # {}}
<1>1. n \in fits /\ \A m \in fits : n <= m
  BY DEF First, Fits
<1>2. Sequence!Min(fits) \in fits /\ Sequence!Min(fits) <= n
  BY <1>1 DEF Sequence!Min
<1>3. Sequence!Min(fits) = n
  BY <1>1, <1>2
<1> QED
  BY <1>1, <1>3 DEF Decision

LEMMA NoneDecides ==
  ASSUME NEW core, NEW d, NEW list, NEW t, \A n \in DOMAIN list : ~Fits(list[n], t)
  PROVE  Decision(core, d, list, t) = Default(core, d)
BY DEF Decision, Fits

\* If some rule fits, one is the first.
LEMMA FirstExists ==
  ASSUME NEW S, NEW list \in Seq(S), NEW t, NEW k \in DOMAIN list, Fits(list[k], t)
  PROVE  \E n \in DOMAIN list : First(list, t, n)
<1> DEFINE K == {n \in Nat : (\E m \in DOMAIN list : m <= n /\ Fits(list[m], t)) =>
                             \E m \in DOMAIN list : First(list, t, m)}
<1>1. 0 \in K
  OBVIOUS
<1>2. ASSUME NEW n \in Nat, n \in K
      PROVE  n + 1 \in K
  <2>1. CASE \E m \in DOMAIN list : m <= n /\ Fits(list[m], t)
    BY <1>2, <2>1
  <2>2. CASE ~\E m \in DOMAIN list : m <= n /\ Fits(list[m], t)
    <3>1. ASSUME NEW m \in DOMAIN list, m <= n + 1, Fits(list[m], t)
          PROVE  First(list, t, m)
      BY <2>2, <3>1 DEF First
    <3> QED
      BY <3>1
  <2> QED
    BY <2>1, <2>2
<1>3. Nat \subseteq K
  <2> HIDE DEF K
  <2> QED
    BY <1>1, <1>2, AllNumbers
<1> QED
  BY <1>3

\* What is chosen of the first n, from what is chosen of one less.
KeptOf(list, T, it, n) ==
  IF n = 0 THEN << >>
  ELSE IF list[n] \in T THEN Append(it[n - 1], list[n]) ELSE it[n - 1]

Kept(list, T, it) == [n \in 0..Len(list) |-> KeptOf(list, T, it, n)]

LEMMA KeptExists ==
  ASSUME NEW list, NEW T, Len(list) \in Nat
  PROVE  \E it : it = Kept(list, T, it)
<1> DEFINE Solves(g, k) == \A n \in 0..Len(list) : n <= k => g[n] = KeptOf(list, T, g, n)
           K == {k \in Nat : \E g : Solves(g, k)}
<1>1. 0 \in K
  <2>1. PICK g : g = [n \in 0..Len(list) |-> << >>]
    OBVIOUS
  <2>2. Solves(g, 0)
    BY <2>1 DEF KeptOf
  <2> QED
    BY <2>2
<1>2. ASSUME NEW k \in Nat, k \in K
      PROVE  k + 1 \in K
  <2>1. PICK g : Solves(g, k)
    BY <1>2
  <2>2. PICK e : e = [n \in 0..Len(list) |-> IF n <= k THEN g[n] ELSE KeptOf(list, T, g, n)]
    OBVIOUS
  <2>3. ASSUME NEW n \in 0..Len(list), n <= k + 1
        PROVE  e[n] = KeptOf(list, T, e, n)
    <3>1. e[n] = KeptOf(list, T, g, n)
      BY <2>1, <2>2
    <3>2. n # 0 => n - 1 \in 0..Len(list) /\ n - 1 <= k
      BY <2>3
    <3>3. n # 0 => e[n - 1] = g[n - 1]
      BY <2>2, <3>2
    <3> QED
      BY <3>1, <3>3 DEF KeptOf
  <2>4. Solves(e, k + 1) /\ k + 1 \in Nat
    BY <2>3
  <2> QED
    BY <2>4
<1>3. Nat \subseteq K
  <2> HIDE DEF K
  <2> QED
    BY <1>1, <1>2, AllNumbers
<1>4. PICK g : Solves(g, Len(list))
  BY <1>3
<1>5. PICK it : it = [n \in 0..Len(list) |-> g[n]]
  OBVIOUS
<1>6. \A n \in 0..Len(list) : it[n] = KeptOf(list, T, it, n)
  BY <1>4, <1>5 DEF KeptOf
<1>7. it = Kept(list, T, it)
  BY <1>5, <1>6 DEF Kept
<1> QED
  BY <1>7

\* kept holds, of the first k rules, those with a condition, and no others;
\* and whichever is the first that fits stays the first.
Filtered(list, k, kept) ==
  /\ \A n \in DOMAIN kept : \E m \in DOMAIN list : m <= k /\ kept[n] = list[m] /\ list[m].if # {}
  /\ \A m \in DOMAIN list : m <= k /\ list[m].if # {} => \E n \in DOMAIN kept : kept[n] = list[m]
  /\ \A t : \A m \in DOMAIN list :
       m <= k /\ First(list, t, m) => \E n \in DOMAIN kept : First(kept, t, n) /\ kept[n] = list[m]

\* One rule more, without a condition: it fits nothing.
LEMMA FilteredSkip ==
  ASSUME NEW S, NEW list \in Seq(S), NEW k \in Nat, k + 1 \in DOMAIN list, NEW kept,
         Filtered(list, k, kept), list[k + 1].if = {}
  PROVE  Filtered(list, k + 1, kept)
<1>1. \A m \in DOMAIN list : m <= k + 1 => m <= k \/ m = k + 1
  OBVIOUS
<1>2. \A t : ~First(list, t, k + 1)
  BY DEF First, Fits
<1>3. \A n \in DOMAIN kept : \E m \in DOMAIN list : m <= k + 1 /\ kept[n] = list[m] /\ list[m].if # {}
  BY DEF Filtered
<1>4. \A m \in DOMAIN list : m <= k + 1 /\ list[m].if # {} => \E n \in DOMAIN kept : kept[n] = list[m]
  BY <1>1 DEF Filtered
<1>5. ASSUME NEW t, NEW m \in DOMAIN list, m <= k + 1, First(list, t, m)
      PROVE  \E n \in DOMAIN kept : First(kept, t, n) /\ kept[n] = list[m]
  BY <1>1, <1>2, <1>5 DEF Filtered
<1> QED
  BY <1>3, <1>4, <1>5 DEF Filtered

LEMMA FilteredKeep ==
  ASSUME NEW S, NEW list \in Seq(S), NEW k \in Nat, k + 1 \in DOMAIN list, NEW kept \in Seq(S),
         Filtered(list, k, kept), list[k + 1].if # {}
  PROVE  Filtered(list, k + 1, Append(kept, list[k + 1]))
<1>1. PICK r : r = list[k + 1]
  OBVIOUS
<1>2. PICK longer : longer = Append(kept, r)
  OBVIOUS
<1>3. r \in S /\ Len(kept) \in Nat /\ DOMAIN kept = 1..Len(kept) /\ DOMAIN list = 1..Len(list) /\ Len(list) \in Nat
  BY <1>1
<1>4. /\ DOMAIN longer = 1..(Len(kept) + 1) /\ longer[Len(kept) + 1] = r
      /\ \A n \in DOMAIN kept : n \in DOMAIN longer /\ longer[n] = kept[n]
  BY <1>2, <1>3
<1>5. \A n \in DOMAIN longer : n \in DOMAIN kept \/ n = Len(kept) + 1
  BY <1>3, <1>4
<1>6. \A m \in DOMAIN list : m <= k + 1 => m <= k \/ m = k + 1
  BY <1>3
<1>7. ASSUME NEW n \in DOMAIN longer
      PROVE  \E m \in DOMAIN list : m <= k + 1 /\ longer[n] = list[m] /\ list[m].if # {}
  <2>1. CASE n \in DOMAIN kept
    <3>1. PICK m \in DOMAIN list : m <= k /\ kept[n] = list[m] /\ list[m].if # {}
      BY <2>1 DEF Filtered
    <3>2. m <= k + 1 /\ longer[n] = list[m]
      BY <1>3, <1>4, <2>1, <3>1
    <3> QED
      BY <3>1, <3>2
  <2>2. CASE n = Len(kept) + 1
    BY <1>1, <1>4, <2>2
  <2> QED
    BY <1>5, <2>1, <2>2
<1>8. ASSUME NEW m \in DOMAIN list, m <= k + 1, list[m].if # {}
      PROVE  \E n \in DOMAIN longer : longer[n] = list[m]
  <2>1. CASE m <= k
    <3>1. PICK n \in DOMAIN kept : kept[n] = list[m]
      BY <1>8, <2>1 DEF Filtered
    <3> QED
      BY <1>4, <3>1
  <2>2. CASE m = k + 1
    BY <1>1, <1>3, <1>4, <2>2
  <2> QED
    BY <1>6, <1>8, <2>1, <2>2
<1>9. ASSUME NEW t, NEW m \in DOMAIN list, m <= k + 1, First(list, t, m)
      PROVE  \E n \in DOMAIN longer : First(longer, t, n) /\ longer[n] = list[m]
  <2>1. CASE m <= k
    <3>1. PICK n \in DOMAIN kept : First(kept, t, n) /\ kept[n] = list[m]
      BY <1>9, <2>1 DEF Filtered
    <3>2. n \in DOMAIN longer /\ longer[n] = list[m] /\ Fits(longer[n], t)
      BY <1>4, <3>1 DEF First
    <3>3. ASSUME NEW o \in DOMAIN longer, o < n
          PROVE  ~Fits(longer[o], t)
      <4>1. o \in DOMAIN kept
        BY <1>3, <1>4, <3>3
      <4> QED
        BY <1>4, <3>1, <3>3, <4>1 DEF First
    <3> QED
      BY <3>2, <3>3 DEF First
  <2>2. CASE m = k + 1
    <3>1. \A o \in DOMAIN kept : ~Fits(kept[o], t)
      <4>1. SUFFICES ASSUME NEW o \in DOMAIN kept
                     PROVE  ~Fits(kept[o], t)
        OBVIOUS
      <4>2. PICK p \in DOMAIN list : p <= k /\ kept[o] = list[p]
        BY <4>1 DEF Filtered
      <4>3. p < m
        BY <1>3, <2>2, <4>2
      <4> QED
        BY <1>9, <4>2, <4>3 DEF First
    <3>2. Len(kept) + 1 \in DOMAIN longer /\ Fits(longer[Len(kept) + 1], t)
      BY <1>1, <1>3, <1>4, <1>9, <2>2 DEF First
    <3>3. \A o \in DOMAIN longer : o < Len(kept) + 1 => ~Fits(longer[o], t)
      BY <1>3, <1>4, <1>5, <3>1
    <3> QED
      BY <1>1, <1>4, <2>2, <3>2, <3>3 DEF First
  <2> QED
    BY <1>6, <1>9, <2>1, <2>2
<1>10. Filtered(list, k + 1, longer)
  BY <1>7, <1>8, <1>9 DEF Filtered
<1> QED
  BY <1>1, <1>2, <1>10

\* What Chosen is, by the equation of its recursion.
LEMMA ChosenIs ==
  ASSUME NEW list, NEW T, Len(list) \in Nat
  PROVE  \E it : /\ \A n \in 0..Len(list) : it[n] = KeptOf(list, T, it, n)
                /\ Chosen(list, T) = it[Len(list)]
<1>1. PICK a : a = CHOOSE it : it = Kept(list, T, it)
  OBVIOUS
<1>2. a = Kept(list, T, a)
  BY <1>1, KeptExists
<1>3. Chosen(list, T) = a[Len(list)]
  BY <1>1 DEF Chosen, Kept, KeptOf
<1>4. \A n \in 0..Len(list) : a[n] = KeptOf(list, T, a, n)
  BY <1>2 DEF Kept
<1> QED
  BY <1>3, <1>4

\* It has the members of list that are in T, and no others.
LEMMA ChosenFacts ==
  ASSUME NEW S, NEW list \in Seq(S), NEW T
  PROVE  /\ Chosen(list, T) \in Seq(S)
         /\ \A n \in DOMAIN Chosen(list, T) : Chosen(list, T)[n] \in T /\ Among(Chosen(list, T)[n], list)
         /\ \A m \in DOMAIN list : list[m] \in T => Among(list[m], Chosen(list, T))
<1>1. Len(list) \in Nat /\ DOMAIN list = 1..Len(list) /\ \A m \in DOMAIN list : list[m] \in S
  OBVIOUS
<1>2. PICK a : /\ \A n \in 0..Len(list) : a[n] = KeptOf(list, T, a, n)
               /\ Chosen(list, T) = a[Len(list)]
  BY <1>1, ChosenIs
<1> DEFINE Has(kept, k) ==
             /\ kept \in Seq(S)
             /\ \A n \in DOMAIN kept : kept[n] \in T /\ Among(kept[n], list)
             /\ \A m \in DOMAIN list : m <= k /\ list[m] \in T => Among(list[m], kept)
           K == {k \in Nat : k <= Len(list) => Has(a[k], k)}
<1>3. 0 \in K
  <2>1. a[0] = << >>
    BY <1>1, <1>2 DEF KeptOf
  <2>2. Has(<< >>, 0)
    BY <1>1
  <2>3. Has(a[0], 0)
    BY <2>1, <2>2
  <2> QED
    BY <2>3
<1>4. ASSUME NEW k \in Nat, k \in K
      PROVE  k + 1 \in K
  <2>1. SUFFICES ASSUME k + 1 <= Len(list)
                 PROVE  Has(a[k + 1], k + 1)
    OBVIOUS
  <2>2. k + 1 \in 1..Len(list) /\ k + 1 \in 0..Len(list) /\ k + 1 # 0 /\ k + 1 - 1 = k /\ k + 1 \in DOMAIN list
    BY <1>1, <2>1
  <2>3. PICK kept : kept = a[k]
    OBVIOUS
  <2>4. Has(kept, k)
    BY <1>1, <1>4, <2>1, <2>3
  <2>5. PICK x : x = list[k + 1]
    OBVIOUS
  <2>6. a[k + 1] = IF x \in T THEN Append(kept, x) ELSE kept
    BY <1>2, <2>2, <2>3, <2>5 DEF KeptOf
  <2>7. \A m \in DOMAIN list : m <= k + 1 => m <= k \/ m = k + 1
    BY <1>1
  <2>8. CASE x \notin T
    <3>1. Has(kept, k + 1)
      BY <2>4, <2>5, <2>7, <2>8
    <3> QED
      BY <2>6, <2>8, <3>1
  <2>9. CASE x \in T
    <3>1. PICK longer : longer = Append(kept, x)
      OBVIOUS
    <3>2. kept \in Seq(S) /\ x \in S /\ Among(x, list)
      BY <1>1, <2>2, <2>4, <2>5 DEF Among
    <3>3. /\ longer \in Seq(S) /\ Len(kept) \in Nat /\ DOMAIN kept = 1..Len(kept)
          /\ DOMAIN longer = 1..(Len(kept) + 1) /\ longer[Len(kept) + 1] = x
          /\ \A n \in DOMAIN kept : longer[n] = kept[n]
      BY <3>1, <3>2
    <3>4. ASSUME NEW n \in DOMAIN longer
          PROVE  longer[n] \in T /\ Among(longer[n], list)
      <4>1. CASE n = Len(kept) + 1
        BY <2>9, <3>2, <3>3, <4>1
      <4>2. CASE n \in DOMAIN kept
        BY <2>4, <3>3, <4>2
      <4> QED
        BY <3>3, <4>1, <4>2
    <3>5. Among(x, longer) /\ \A y : Among(y, kept) => Among(y, longer)
      BY <3>3 DEF Among
    <3>6. \A m \in DOMAIN list : m <= k + 1 /\ list[m] \in T => Among(list[m], longer)
      BY <2>4, <2>5, <2>7, <3>5
    <3>7. Has(longer, k + 1)
      BY <3>3, <3>4, <3>6
    <3> QED
      BY <2>6, <2>9, <3>1, <3>7
  <2> QED
    BY <2>8, <2>9
<1>5. Nat \subseteq K
  <2> HIDE DEF K
  <2> QED
    BY <1>3, <1>4, AllNumbers
<1>6. Has(a[Len(list)], Len(list))
  BY <1>1, <1>5
<1>7. \A m \in DOMAIN list : m <= Len(list)
  BY <1>1
<1> QED
  BY <1>2, <1>6, <1>7

LEMMA WithConditionFacts ==
  ASSUME NEW S, NEW list \in Seq(S)
  PROVE  WithCondition(list) \in Seq(S) /\ Filtered(list, Len(list), WithCondition(list))
<1>1. PICK T : T = {r \in Sequence!ToSet(list) : r.if # {}}
  OBVIOUS
<1>2. Len(list) \in Nat /\ DOMAIN list = 1..Len(list)
  OBVIOUS
<1>3. PICK a : /\ \A n \in 0..Len(list) : a[n] = KeptOf(list, T, a, n)
               /\ Chosen(list, T) = a[Len(list)]
  BY <1>2, ChosenIs
<1>4. WithCondition(list) = a[Len(list)]
  BY <1>1, <1>3 DEF WithCondition
<1>5. \A m \in DOMAIN list : list[m] \in T <=> list[m].if # {}
  BY <1>1 DEF Sequence!ToSet
<1> DEFINE K == {k \in Nat : k <= Len(list) => a[k] \in Seq(S) /\ Filtered(list, k, a[k])}
<1>6. 0 \in K
  <2>1. a[0] = << >>
    BY <1>2, <1>3 DEF KeptOf
  <2>2. Filtered(list, 0, << >>)
    BY <1>2 DEF Filtered
  <2>3. << >> \in Seq(S)
    OBVIOUS
  <2>4. a[0] \in Seq(S) /\ Filtered(list, 0, a[0])
    BY <2>1, <2>2, <2>3
  <2> QED
    BY <2>4
<1>7. ASSUME NEW k \in Nat, k \in K
      PROVE  k + 1 \in K
  <2>1. SUFFICES ASSUME k + 1 <= Len(list)
                 PROVE  a[k + 1] \in Seq(S) /\ Filtered(list, k + 1, a[k + 1])
    OBVIOUS
  <2>2. k + 1 \in 1..Len(list) /\ k + 1 \in 0..Len(list) /\ k + 1 # 0 /\ k + 1 - 1 = k /\ k + 1 \in DOMAIN list
    BY <1>2, <2>1
  <2>3. PICK kept : kept = a[k]
    OBVIOUS
  <2>4. kept \in Seq(S) /\ Filtered(list, k, kept)
    BY <1>2, <1>7, <2>1, <2>3
  <2>5. a[k + 1] = IF list[k + 1].if = {} THEN kept ELSE Append(kept, list[k + 1])
    BY <1>3, <1>5, <2>2, <2>3 DEF KeptOf
  <2>6. CASE list[k + 1].if = {}
    BY <2>2, <2>4, <2>5, <2>6, FilteredSkip
  <2>7. CASE list[k + 1].if # {}
    <3>1. Filtered(list, k + 1, Append(kept, list[k + 1]))
      BY <2>2, <2>4, <2>7, FilteredKeep
    <3>2. Append(kept, list[k + 1]) \in Seq(S)
      BY <2>2, <2>4
    <3> QED
      BY <2>5, <2>7, <3>1, <3>2
  <2> QED
    BY <2>6, <2>7
<1>8. Nat \subseteq K
  <2> HIDE DEF K
  <2> QED
    BY <1>6, <1>7, AllNumbers
<1> QED
  BY <1>2, <1>4, <1>8

-----------------------------------------------------------------------------
(* The list of a configuration: k rules of routes, then those of geo rules *)
(* by priority.                                                            *)

WARPRule(core, r) == Rule(WARPCondition(core, r), WarpTag)
GeoRule(core, r)  == Rule(GeoCondition(r), GeoTarget(core, r))

Lists(core, all, k) ==
  /\ \A n \in DOMAIN all : n <= k => \E r \in RowsInForce(routes) : all[n] = WARPRule(core, r)
  /\ \A n \in DOMAIN all : n <= k => Injected
  /\ Injected => \A r \in RowsInForce(routes) :
                   \E n \in DOMAIN all : n <= k /\ all[n] = WARPRule(core, r)
  /\ \A n \in DOMAIN all : n > k => \E r \in RowsInForce(rules) :
       /\ all[n] = GeoRule(core, r)
       /\ \A o \in RowsInForce(rules) :
            \/ r.priority >= o.priority
            \/ \E m \in DOMAIN all : m < n /\ all[m] = GeoRule(core, o)
  /\ \A r \in RowsInForce(rules) : \E n \in DOMAIN all : n > k /\ all[n] = GeoRule(core, r)

LEMMA InjectedWhen == LoadWARPOutbound(account, routes) <=> Injected
BY DEF LoadWARPOutbound, Injected, RowsInForce

LEMMA WarpPart ==
  ASSUME RoutingParameters, TablesInv, NEW core, NEW w \in Orders(routes)
  PROVE  \E list :
           /\ list = WARPRules(core, Loaded(routes, w))
           /\ Len(list) \in Nat /\ list = [n \in 1..Len(list) |-> list[n]]
           /\ \A n \in DOMAIN list : \E r \in RowsInForce(routes) : list[n] = WARPRule(core, r)
           /\ \A r \in RowsInForce(routes) : \E n \in DOMAIN list : list[n] = WARPRule(core, r)
<1>1. PICK table : table = routes
  OBVIOUS
<1>2. DOMAIN table = Id /\ MaxRows \in Nat /\ w \in Orders(table)
  BY <1>1 DEF TablesInv, RoutingParameters
<1>3. /\ Len(w) \in Nat /\ DOMAIN w = 1..Len(w) /\ \A n \in DOMAIN w : w[n] \in Enabled(table)
      /\ \A i \in Enabled(table) : \E n \in DOMAIN w : w[n] = i
  <2>1. w \in Seq(Enabled(table)) /\ Len(w) \in Nat /\ DOMAIN w = 1..Len(w)
    BY <1>2, OrderFacts
  <2> QED
    BY <1>2, <2>1, OrderFacts
<1>4. PICK list : list = WARPRules(core, Loaded(table, w))
  OBVIOUS
<1>5. list = [n \in DOMAIN w |-> WARPRule(core, table[w[n]])]
  BY <1>4 DEF WARPRules, Loaded, WARPRule
<1>6. DOMAIN list = 1..Len(w) /\ Len(list) = Len(w)
  BY <1>3, <1>5
<1>7. RowsInForce(routes) = {table[i] : i \in Enabled(table)}
  BY <1>1 DEF RowsInForce
<1>8. \A n \in DOMAIN list : \E r \in RowsInForce(routes) : list[n] = WARPRule(core, r)
  BY <1>3, <1>5, <1>7
<1>9. ASSUME NEW r \in RowsInForce(routes)
      PROVE  \E n \in DOMAIN list : list[n] = WARPRule(core, r)
  <2>1. PICK i \in Enabled(table) : r = table[i]
    BY <1>7
  <2>2. PICK n \in DOMAIN w : w[n] = i
    BY <1>3
  <2> QED
    BY <1>5, <2>1, <2>2
<1>10. /\ list = WARPRules(core, Loaded(routes, w)) /\ Len(list) \in Nat
       /\ list = [n \in 1..Len(list) |-> list[n]]
  BY <1>1, <1>3, <1>4, <1>5, <1>6
<1> QED
  BY <1>8, <1>9, <1>10

LEMMA GeoPart ==
  ASSUME RoutingParameters, TablesInv, NEW core, NEW g \in Orders(rules)
  PROVE  \E list :
           /\ list = GeoRules(core, Loaded(rules, g))
           /\ Len(list) \in Nat /\ list = [n \in 1..Len(list) |-> list[n]]
           /\ \A n \in DOMAIN list : \E r \in RowsInForce(rules) :
                /\ list[n] = GeoRule(core, r)
                /\ \A o \in RowsInForce(rules) :
                     \/ r.priority >= o.priority
                     \/ \E m \in DOMAIN list : m < n /\ list[m] = GeoRule(core, o)
           /\ \A r \in RowsInForce(rules) : \E n \in DOMAIN list : list[n] = GeoRule(core, r)
<1>1. PICK table : table = rules
  OBVIOUS
<1>2. DOMAIN table = Id /\ MaxRows \in Nat /\ g \in Orders(table)
  BY <1>1 DEF TablesInv, RoutingParameters
<1>3. /\ Len(g) \in Nat /\ DOMAIN g = 1..Len(g) /\ \A n \in DOMAIN g : g[n] \in Enabled(table)
      /\ \A i \in Enabled(table) : \E n \in DOMAIN g : g[n] = i
      /\ \A i, j \in DOMAIN g : i < j => table[g[i]].priority >= table[g[j]].priority
  <2>1. g \in Seq(Enabled(table)) /\ Len(g) \in Nat /\ DOMAIN g = 1..Len(g)
    BY <1>2, OrderFacts
  <2> QED
    BY <1>2, <2>1, OrderFacts
<1>4. \A i \in Enabled(table) : table[i].priority \in Int
  <2>1. SUFFICES ASSUME NEW i \in Enabled(table) PROVE table[i].priority \in Int
    OBVIOUS
  <2>2. IsGeoRow(table[i])
    BY <1>1, <1>2 DEF Enabled, TablesInv
  <2>3. PICK c \in GeoChoices, e \in BOOLEAN : table[i] = GeoRow(c, e)
    BY <2>2 DEF IsGeoRow
  <2> QED
    BY <2>3 DEF GeoRow, RoutingParameters
<1>5. PICK list : list = GeoRules(core, Loaded(table, g))
  OBVIOUS
<1>6. list = [n \in DOMAIN g |-> GeoRule(core, table[g[n]])]
  BY <1>5 DEF GeoRules, Loaded, GeoRule
<1>7. DOMAIN list = 1..Len(g) /\ Len(list) = Len(g)
  BY <1>3, <1>6
<1>8. RowsInForce(rules) = {table[i] : i \in Enabled(table)}
  BY <1>1 DEF RowsInForce
<1>9. ASSUME NEW o \in RowsInForce(rules)
      PROVE  \E m \in DOMAIN g : o = table[g[m]]
  <2>1. PICK i \in Enabled(table) : o = table[i]
    BY <1>8
  <2>2. PICK m \in DOMAIN g : g[m] = i
    BY <1>3
  <2> QED
    BY <2>1, <2>2
<1>10. ASSUME NEW n \in DOMAIN list
       PROVE  \E r \in RowsInForce(rules) :
                /\ list[n] = GeoRule(core, r)
                /\ \A o \in RowsInForce(rules) :
                     \/ r.priority >= o.priority
                     \/ \E m \in DOMAIN list : m < n /\ list[m] = GeoRule(core, o)
  <2>1. PICK r : r = table[g[n]]
    OBVIOUS
  <2>2. n \in DOMAIN g /\ g[n] \in Enabled(table)
    BY <1>3, <1>7
  <2>3. r \in RowsInForce(rules) /\ list[n] = GeoRule(core, r)
    BY <1>6, <1>8, <2>1, <2>2
  <2>4. ASSUME NEW o \in RowsInForce(rules)
        PROVE  \/ r.priority >= o.priority
               \/ \E m \in DOMAIN list : m < n /\ list[m] = GeoRule(core, o)
    <3>1. PICK m \in DOMAIN g : o = table[g[m]]
      BY <1>9
    <3>2. CASE m < n
      <4>1. m \in DOMAIN list /\ list[m] = GeoRule(core, o)
        BY <1>3, <1>6, <1>7, <3>1
      <4> QED
        BY <3>2, <4>1
    <3>3. CASE m = n
      <4>1. o = r
        BY <2>1, <3>1, <3>3
      <4>2. r.priority \in Int
        BY <1>4, <2>1, <2>2
      <4> QED
        BY <4>1, <4>2
    <3>4. CASE n < m
      BY <1>3, <2>1, <2>2, <3>1, <3>4
    <3> QED
      BY <1>3, <2>2, <3>1, <3>2, <3>3, <3>4
  <2> QED
    BY <2>3, <2>4
<1>11. \A r \in RowsInForce(rules) : \E n \in DOMAIN list : list[n] = GeoRule(core, r)
  <2>1. SUFFICES ASSUME NEW r \in RowsInForce(rules) PROVE \E n \in DOMAIN list : list[n] = GeoRule(core, r)
    OBVIOUS
  <2>2. PICK m \in DOMAIN g : r = table[g[m]]
    BY <1>9
  <2> QED
    BY <1>3, <1>6, <1>7, <2>2
<1>12. /\ list = GeoRules(core, Loaded(rules, g)) /\ Len(list) \in Nat
       /\ list = [n \in 1..Len(list) |-> list[n]]
  BY <1>1, <1>3, <1>5, <1>6, <1>7
<1> QED
  BY <1>10, <1>11, <1>12

\* Both, one after the other.
LEMMA AllListed ==
  ASSUME RoutingParameters, TablesInv, NEW core, NEW w \in Orders(routes), NEW g \in Orders(rules)
  PROVE  \E S : \E all \in Seq(S) : \E k \in Nat :
           all = RoutingRules(core, Db, w, g) /\ Lists(core, all, k)
<1>1. PICK a : a = IF LoadWARPOutbound(account, routes)
                   THEN WARPRules(core, Loaded(routes, w)) ELSE << >>
  OBVIOUS
<1>2. PICK b :
        /\ b = GeoRules(core, Loaded(rules, g))
        /\ Len(b) \in Nat /\ b = [n \in 1..Len(b) |-> b[n]]
        /\ \A n \in DOMAIN b : \E r \in RowsInForce(rules) :
             /\ b[n] = GeoRule(core, r)
             /\ \A o \in RowsInForce(rules) :
                  \/ r.priority >= o.priority
                  \/ \E m \in DOMAIN b : m < n /\ b[m] = GeoRule(core, o)
        /\ \A r \in RowsInForce(rules) : \E n \in DOMAIN b : b[n] = GeoRule(core, r)
  BY GeoPart
<1>3. /\ Len(a) \in Nat /\ a = [n \in 1..Len(a) |-> a[n]]
      /\ \A n \in DOMAIN a : Injected /\ \E r \in RowsInForce(routes) : a[n] = WARPRule(core, r)
      /\ Injected => \A r \in RowsInForce(routes) : \E n \in DOMAIN a : a[n] = WARPRule(core, r)
  <2>1. CASE Injected
    <3>1. a = WARPRules(core, Loaded(routes, w))
      BY <1>1, <2>1, InjectedWhen
    <3> QED
      BY <2>1, <3>1, WarpPart
  <2>2. CASE ~Injected
    <3>1. a = << >>
      BY <1>1, <2>2, InjectedWhen
    <3> QED
      BY <2>2, <3>1
  <2> QED
    BY <2>1, <2>2
<1>4. PICK S : S = {a[n] : n \in DOMAIN a} \cup {b[n] : n \in DOMAIN b}
  OBVIOUS
<1>5. a \in Seq(S) /\ b \in Seq(S)
  <2>1. \A n \in 1..Len(a) : a[n] \in S
    BY <1>3, <1>4
  <2>2. \A n \in 1..Len(b) : b[n] \in S
    BY <1>2, <1>4
  <2> QED
    BY <1>2, <1>3, <2>1, <2>2
<1>6. PICK all : all = a \o b
  OBVIOUS
<1>7. PICK k : k = Len(a)
  OBVIOUS
<1>8. /\ k \in Nat /\ all \in Seq(S) /\ DOMAIN all = 1..(k + Len(b))
      /\ \A n \in DOMAIN a : n \in DOMAIN all /\ n <= k /\ all[n] = a[n]
      /\ \A n \in DOMAIN b : n + k \in DOMAIN all /\ n + k > k /\ all[n + k] = b[n]
      /\ \A n \in DOMAIN all : n <= k => n \in DOMAIN a
      /\ \A n \in DOMAIN all : n > k => n - k \in DOMAIN b /\ n = (n - k) + k
  <2>1. k \in Nat /\ all \in Seq(S) /\ Len(all) = k + Len(b)
    BY <1>3, <1>5, <1>6, <1>7
  <2>2. DOMAIN all = 1..(k + Len(b))
    BY <2>1
  <2>3. \A n \in DOMAIN a : n \in DOMAIN all /\ n <= k /\ all[n] = a[n]
    BY <1>2, <1>3, <1>5, <1>6, <1>7, <2>1, <2>2
  <2>4. \A n \in DOMAIN b : n + k \in DOMAIN all /\ n + k > k /\ all[n + k] = b[n]
    BY <1>2, <1>3, <1>5, <1>6, <1>7, <2>1, <2>2
  <2>5. \A n \in DOMAIN all : n <= k => n \in DOMAIN a
    BY <1>3, <1>7, <2>1, <2>2
  <2>6. \A n \in DOMAIN all : n > k => n - k \in DOMAIN b /\ n = (n - k) + k
    BY <1>2, <2>1, <2>2
  <2> QED
    BY <2>1, <2>2, <2>3, <2>4, <2>5, <2>6
<1>9. \A n \in DOMAIN all : n <= k => Injected /\ \E r \in RowsInForce(routes) : all[n] = WARPRule(core, r)
  BY <1>3, <1>8
<1>10. Injected => \A r \in RowsInForce(routes) :
                     \E n \in DOMAIN all : n <= k /\ all[n] = WARPRule(core, r)
  BY <1>3, <1>8
<1>11. ASSUME NEW n \in DOMAIN all, n > k
       PROVE  \E r \in RowsInForce(rules) :
                /\ all[n] = GeoRule(core, r)
                /\ \A o \in RowsInForce(rules) :
                     \/ r.priority >= o.priority
                     \/ \E m \in DOMAIN all : m < n /\ all[m] = GeoRule(core, o)
  <2>1. PICK j : j = n - k
    OBVIOUS
  <2>2. j \in DOMAIN b /\ n = j + k /\ all[n] = b[j]
    BY <1>8, <1>11, <2>1
  <2>3. PICK r \in RowsInForce(rules) :
          /\ b[j] = GeoRule(core, r)
          /\ \A o \in RowsInForce(rules) :
               \/ r.priority >= o.priority
               \/ \E m \in DOMAIN b : m < j /\ b[m] = GeoRule(core, o)
    BY <1>2, <2>2
  <2>4. ASSUME NEW o \in RowsInForce(rules), ~(r.priority >= o.priority)
        PROVE  \E m \in DOMAIN all : m < n /\ all[m] = GeoRule(core, o)
    <3>1. PICK m \in DOMAIN b : m < j /\ b[m] = GeoRule(core, o)
      BY <2>3, <2>4
    <3>2. m + k < n
      BY <1>2, <1>8, <2>2, <3>1
    <3> QED
      BY <1>8, <3>1, <3>2
  <2> QED
    BY <2>2, <2>3, <2>4
<1>12. \A r \in RowsInForce(rules) : \E n \in DOMAIN all : n > k /\ all[n] = GeoRule(core, r)
  <2>1. SUFFICES ASSUME NEW r \in RowsInForce(rules)
                 PROVE  \E n \in DOMAIN all : n > k /\ all[n] = GeoRule(core, r)
    OBVIOUS
  <2>2. PICK n \in DOMAIN b : b[n] = GeoRule(core, r)
    BY <1>2
  <2> QED
    BY <1>8, <2>2
<1>13. Lists(core, all, k)
  BY <1>9, <1>10, <1>11, <1>12 DEF Lists
<1>14. all = RoutingRules(core, Db, w, g)
  BY <1>1, <1>2, <1>6 DEF RoutingRules, Db
<1> QED
  BY <1>8, <1>13, <1>14

-----------------------------------------------------------------------------
(* The outbounds.                                                          *)

\* The rows that become rules, and those that do not.
NoRows(core) == \A n \in DOMAIN outbounds : IsAction(core, outbounds[n])

LEMMA RowsGiven ==
  ASSUME RoutingParameters, TablesInv, part = "tables"
  PROVE  \E U, rows : rows = outbounds /\ rows \in Seq(U) /\ \A r \in U : r.tag \in STRING \X (Nat \ {0})
<1>1. PICK rows : rows = outbounds
  OBVIOUS
<1>2. PICK F : rows \in Seq([tag : STRING \X (Nat \ {0}), filter : F])
  BY <1>1 DEF TablesInv, RoutingParameters
<1>3. \A r \in [tag : STRING \X (Nat \ {0}), filter : F] : r.tag \in STRING \X (Nat \ {0})
  OBVIOUS
<1> QED
  BY <1>1, <1>2, <1>3

\* The members of rows that are or are not of protocol block or dns in sing-box.
Within(P, rows, T) == P = {r \in Sequence!ToSet(rows) : r \in T}

LEMMA RowsChosen ==
  ASSUME NEW U, NEW rows \in Seq(U), NEW T, NEW P, Within(P, rows, T)
  PROVE  \E c \in Seq(U) :
           /\ c = Chosen(rows, P)
           /\ \A x : Among(x, c) <=> Among(x, rows) /\ x \in T
<1>1. PICK c : c = Chosen(rows, P)
  OBVIOUS
<1>2. /\ c \in Seq(U) /\ \A n \in DOMAIN c : c[n] \in P /\ Among(c[n], rows)
      /\ \A m \in DOMAIN rows : rows[m] \in P => Among(rows[m], c)
  BY <1>1, ChosenFacts
<1>3. \A m \in DOMAIN rows : rows[m] \in P <=> rows[m] \in T
  BY DEF Within, Sequence!ToSet
<1>4. ASSUME NEW x
      PROVE  Among(x, c) <=> Among(x, rows) /\ x \in T
  <2>1. ASSUME Among(x, c)
        PROVE  Among(x, rows) /\ x \in T
    BY <1>2, <1>3, <2>1 DEF Among
  <2>2. ASSUME Among(x, rows), x \in T
        PROVE  Among(x, c)
    BY <1>2, <1>3, <2>2 DEF Among
  <2> QED
    BY <2>1, <2>2
<1> QED
  BY <1>1, <1>2, <1>4

LEMMA KnownTags ==
  ASSUME RoutingParameters, TablesInv, part = "tables", NEW core \in Cores, NEW tag
  PROVE  tag \in Known(core, Db) <=>
           \/ \E n \in DOMAIN outbounds : tag = outbounds[n].tag /\ ~IsAction(core, outbounds[n])
           \/ core # "mihomo" /\ NoRows(core) /\ tag = Tag("direct")
           \/ Injected /\ tag = WarpTag
           \/ core = "mihomo" /\ tag \in {Tag("DIRECT"), Tag("REJECT")}
<1>1. PICK U, rows : /\ rows = outbounds /\ rows \in Seq(U)
                     /\ \A r \in U : r.tag \in STRING \X (Nat \ {0})
  BY RowsGiven
<1>2. PICK X : X = {r \in U : ~IsAction(core, r)}
  OBVIOUS
<1>3. PICK P : P = {r \in Sequence!ToSet(rows) : ~IsAction(core, r)}
  OBVIOUS
<1>4. rows \in Seq(U) /\ Within(P, rows, X)
  BY <1>1, <1>2, <1>3 DEF Within, Sequence!ToSet
<1>5. PICK c \in Seq(U) : /\ c = Chosen(rows, P)
                          /\ \A x : Among(x, c) <=> Among(x, rows) /\ x \in X
  BY <1>4, RowsChosen
<1>6. PICK a : a = RowTags(core, rows)
  OBVIOUS
<1>7. a = IF core # "mihomo" /\ c = << >> THEN <<Tag("direct")>> ELSE [n \in DOMAIN c |-> c[n].tag]
  BY <1>3, <1>5, <1>6 DEF RowTags
<1>8. PICK b : b = IF Injected THEN <<WARPOutbound(core).tag>> ELSE << >>
  OBVIOUS
<1>9. OutboundTags(core, Db) = a \o b
  BY <1>1, <1>6, <1>8, InjectedWhen DEF OutboundTags, Db
<1>10. WARPOutbound(core).tag = WarpTag
  BY DEF WARPOutbound, Cores, XrayWARPOutbound, SingboxWARPOutbound, MihomoWARPProxy
<1>11. PICK T : T = {c[n].tag : n \in DOMAIN c} \cup {WarpTag, Tag("direct")}
  OBVIOUS
<1>12. /\ Len(c) \in Nat /\ DOMAIN c = 1..Len(c)
       /\ c = << >> <=> \A n \in DOMAIN c : FALSE
  BY <1>5
<1>13. \A n \in DOMAIN c : c[n].tag \in T
  BY <1>11
<1>14. \A n \in DOMAIN rows : rows[n] \in U
  BY <1>1
<1>15. (\A n \in DOMAIN c : FALSE) <=> NoRows(core)
  <2>1. (\A n \in DOMAIN c : FALSE) <=> \A x : ~Among(x, c)
    BY DEF Among
  <2>2. (\A x : ~Among(x, c)) <=> \A n \in DOMAIN rows : rows[n] \notin X
    BY <1>5 DEF Among
  <2> QED
    BY <1>1, <1>2, <1>14, <2>1, <2>2 DEF NoRows
<1>16. \A y : (\E n \in DOMAIN c : y = c[n].tag) <=>
                 \E n \in DOMAIN rows : y = rows[n].tag /\ ~IsAction(core, rows[n])
  <2>1. ASSUME NEW y, NEW n \in DOMAIN c, y = c[n].tag
        PROVE  \E m \in DOMAIN rows : y = rows[m].tag /\ ~IsAction(core, rows[m])
    <3>1. Among(c[n], c)
      BY DEF Among
    <3>2. PICK m \in DOMAIN rows : c[n] = rows[m] /\ rows[m] \in X
      BY <1>5, <3>1 DEF Among
    <3> QED
      BY <1>2, <2>1, <3>2
  <2>2. ASSUME NEW y, NEW m \in DOMAIN rows, y = rows[m].tag, ~IsAction(core, rows[m])
        PROVE  \E n \in DOMAIN c : y = c[n].tag
    <3>1. Among(rows[m], rows) /\ rows[m] \in X
      BY <1>2, <1>14, <2>2 DEF Among
    <3>2. Among(rows[m], c)
      BY <1>5, <3>1
    <3> QED
      BY <2>2, <3>2 DEF Among
  <2> QED
    BY <2>1, <2>2
<1>17. /\ a \in Seq(T)
       /\ \A x : Among(x, a) <=>
                   \/ \E n \in DOMAIN rows : x = rows[n].tag /\ ~IsAction(core, rows[n])
                   \/ core # "mihomo" /\ NoRows(core) /\ x = Tag("direct")
  <2>1. CASE core # "mihomo" /\ NoRows(core)
    <3>1. a = <<Tag("direct")>>
      BY <1>7, <1>12, <1>15, <2>1
    <3>2. a \in Seq(T) /\ \A x : Among(x, a) <=> x = Tag("direct")
      BY <1>11, <3>1 DEF Among
    <3>3. \A n \in DOMAIN rows : IsAction(core, rows[n])
      BY <1>1, <2>1 DEF NoRows
    <3> QED
      BY <2>1, <3>2, <3>3
  <2>2. CASE ~(core # "mihomo" /\ NoRows(core))
    <3>1. a = [n \in DOMAIN c |-> c[n].tag]
      BY <1>7, <1>12, <1>15, <2>2
    <3>2. a = [n \in 1..Len(c) |-> c[n].tag] /\ \A n \in 1..Len(c) : c[n].tag \in T
      BY <1>12, <1>13, <3>1
    <3>3. a \in Seq(T)
      BY <1>12, <3>2
    <3>4. \A x : Among(x, a) <=> \E n \in DOMAIN c : x = c[n].tag
      BY <3>1 DEF Among
    <3> QED
      BY <1>16, <2>2, <3>3, <3>4
  <2> QED
    BY <2>1, <2>2
<1>18. /\ b \in Seq(T)
       /\ \A x : Among(x, b) <=> Injected /\ x = WarpTag
  <2>1. CASE Injected
    <3>1. b = <<WarpTag>>
      BY <1>8, <1>10, <2>1
    <3> QED
      BY <1>11, <2>1, <3>1 DEF Among
  <2>2. CASE ~Injected
    <3>1. b = << >>
      BY <1>8, <2>2
    <3> QED
      BY <2>2, <3>1 DEF Among
  <2> QED
    BY <2>1, <2>2
<1>19. PICK all : all = a \o b
  OBVIOUS
<1>20. Among(tag, all) <=> Among(tag, a) \/ Among(tag, b)
  <2>1. a \in Seq(T) /\ b \in Seq(T) /\ Joined(all, a, b)
    BY <1>17, <1>18, <1>19 DEF Joined
  <2> QED
    BY <2>1, ConcatMembers
<1>21. tag \in Known(core, Db) <=>
         Among(tag, all) \/ (core = "mihomo" /\ tag \in {Tag("DIRECT"), Tag("REJECT")})
  BY <1>9, <1>19 DEF Known, Sequence!ToSet, Among
<1> QED
  BY <1>1, <1>17, <1>18, <1>20, <1>21

\* What the generator adds is not the outbound of a row.
LEMMA KnownNames ==
  ASSUME RoutingParameters, TablesInv, part = "tables", NEW core \in Cores, NEW name
  PROVE  Tag(name) \in Known(core, Db) <=>
           \/ core # "mihomo" /\ NoRows(core) /\ name = "direct"
           \/ Injected /\ name = "warp-out"
           \/ core = "mihomo" /\ name \in {"DIRECT", "REJECT"}
<1>1. PICK tag : tag = Tag(name)
  OBVIOUS
<1>2. \A n \in DOMAIN outbounds : tag # outbounds[n].tag
  <2>1. PICK U, rows : /\ rows = outbounds /\ rows \in Seq(U)
                       /\ \A r \in U : r.tag \in STRING \X (Nat \ {0})
    BY RowsGiven
  <2>2. \A n \in DOMAIN rows : rows[n].tag \in STRING \X (Nat \ {0})
    BY <2>1
  <2>3. tag \notin STRING \X (Nat \ {0})
    BY <1>1 DEF Tag
  <2> QED
    BY <2>1, <2>2, <2>3
<1>3. \A other : tag = Tag(other) <=> name = other
  BY <1>1 DEF Tag
<1>4. tag \in Known(core, Db) <=>
           \/ core # "mihomo" /\ NoRows(core) /\ tag = Tag("direct")
           \/ Injected /\ tag = WarpTag
           \/ core = "mihomo" /\ tag \in {Tag("DIRECT"), Tag("REJECT")}
  BY <1>2, KnownTags
<1> QED
  BY <1>1, <1>3, <1>4 DEF WarpTag

\* No row becomes a rule, except in a sing-box that has rows.
Rowless(core) == core = "singbox" => outbounds = << >>

LEMMA NoRowsWhen ==
  ASSUME RoutingParameters, TablesInv, part = "tables", NEW core \in Cores, Rowless(core)
  PROVE  NoRows(core) <=> outbounds = << >>
<1>1. PICK U, rows : rows = outbounds /\ rows \in Seq(U)
  BY RowsGiven
<1>2. rows = << >> <=> \A n \in DOMAIN rows : FALSE
  <2>1. rows \in Seq(U) /\ Len(rows) \in Nat /\ DOMAIN rows = 1..Len(rows)
    BY <1>1
  <2>2. (\A n \in DOMAIN rows : FALSE) => Len(rows) = 0
    <3>1. Len(rows) # 0 => 1 \in DOMAIN rows
      BY <2>1
    <3> QED
      BY <3>1
  <2> QED
    BY <2>1, <2>2
<1>3. CASE core = "singbox"
  <2>1. outbounds = << >>
    BY <1>3 DEF Rowless
  <2> QED
    BY <1>1, <1>2, <2>1 DEF NoRows
<1>4. CASE core # "singbox"
  <2>1. \A n \in DOMAIN outbounds : ~IsAction(core, outbounds[n])
    BY <1>4 DEF IsAction
  <2> QED
    BY <1>1, <1>2, <2>1 DEF NoRows
<1> QED
  BY <1>3, <1>4

LEMMA TargetKnown ==
  ASSUME RoutingParameters, TablesInv, part = "tables", NEW core \in Cores, NEW r, Rowless(core)
  PROVE  GeoTarget(core, r) \in Known(core, Db) <=> Exists(core, r.action)
<1> DEFINE name == CASE r.action = "block" -> IF core = "mihomo" THEN "REJECT" ELSE "block"
                     [] r.action = "warp"  -> "warp-out"
                     [] r.action = "proxy" -> "proxy"
                     [] OTHER              -> IF core = "mihomo" THEN "DIRECT" ELSE "direct"
<1>1. PICK n : n = name
  OBVIOUS
<1>2. GeoTarget(core, r) = Tag(n)
  BY <1>1 DEF GeoTarget, mapGeoAction, MihomoTag, WarpTag, Tag
<1>3. Tag(n) \in Known(core, Db) <=> Exists(core, r.action)
  <2>1. Tag(n) \in Known(core, Db) <=>
           \/ core # "mihomo" /\ outbounds = << >> /\ n = "direct"
           \/ Injected /\ n = "warp-out"
           \/ core = "mihomo" /\ n \in {"DIRECT", "REJECT"}
    BY KnownNames, NoRowsWhen
  <2> QED
    BY <1>1, <2>1 DEF Exists
<1> QED
  BY <1>2, <1>3

LEMMA WarpKnown ==
  ASSUME RoutingParameters, TablesInv, part = "tables", NEW core \in Cores
  PROVE  WarpTag \in Known(core, Db) <=> Injected
BY KnownNames DEF WarpTag

LEMMA DefaultKnown ==
  ASSUME RoutingParameters, TablesInv, part = "tables", NEW core \in Cores, core # "xray", Rowless(core)
  PROVE  Default(core, Db) \in Known(core, Db)
<1>1. CASE core = "singbox"
  <2>1. Default(core, Db) = Tag("direct")
    BY <1>1 DEF Default
  <2>2. NoRows(core)
    BY <1>1, NoRowsWhen DEF Rowless
  <2> QED
    BY <1>1, <2>1, <2>2, KnownNames
<1>2. CASE core = "mihomo"
  <2>1. Default(core, Db) = Tag("DIRECT")
    BY <1>2 DEF Default
  <2> QED
    BY <1>2, <2>1, KnownNames
<1> QED
  BY <1>1, <1>2 DEF Cores

\* Then the rules are those of routes and geo rules.
LEMMA RowlessRules ==
  ASSUME RoutingParameters, TablesInv, part = "tables", NEW core \in Cores, Rowless(core),
         NEW S, NEW all \in Seq(S), NEW w, NEW g, all = RoutingRules(core, Db, w, g)
  PROVE  Rules(core, Db, w, g) = Written(core, all)
<1>1. PICK U, rows : rows = outbounds /\ rows \in Seq(U)
  BY RowsGiven
<1>2. PICK P : P = {r \in Sequence!ToSet(rows) : IsAction(core, r)}
  OBVIOUS
<1>3. P = {}
  <2>1. CASE core = "singbox"
    <3>1. rows = << >>
      BY <1>1, <2>1 DEF Rowless
    <3> QED
      BY <1>2, <3>1 DEF Sequence!ToSet
  <2>2. CASE core # "singbox"
    BY <1>2, <2>2 DEF IsAction
  <2> QED
    BY <2>1, <2>2
<1>4. PICK c : c = Chosen(rows, P)
  OBVIOUS
<1>5. c \in Seq(U) /\ \A n \in DOMAIN c : c[n] \in P
  BY <1>1, <1>4, ChosenFacts
<1>6. c = << >>
  <2>1. c \in Seq(U) /\ Len(c) \in Nat /\ DOMAIN c = 1..Len(c)
    BY <1>5
  <2>2. Len(c) = 0
    <3>1. Len(c) # 0 => 1 \in DOMAIN c
      BY <2>1
    <3> QED
      BY <1>3, <1>5, <3>1
  <2> QED
    BY <2>1, <2>2
<1>7. PICK l : l = RowRules(core, rows)
  OBVIOUS
<1>8. l = [n \in DOMAIN c |-> Rule(c[n].filter, Tag(c[n].tag[1]))]
  BY <1>2, <1>4, <1>7 DEF RowRules
<1>9. l = << >>
  BY <1>6, <1>8
<1>10. l \o all = all
  BY <1>9
<1> QED
  BY <1>1, <1>7, <1>10 DEF Rules, Db

\* A sing-box that has rows is refused: for want of a final outbound, or for an
\* action it does not know.
LEMMA RowsRefused ==
  ASSUME RoutingParameters, TablesInv, part = "tables", NEW core \in Cores, ~Rowless(core),
         NEW S, NEW all \in Seq(S), NEW w, NEW g, all = RoutingRules(core, Db, w, g)
  PROVE  ~Accepts(core, Db, Rules(core, Db, w, g))
<1>1. core = "singbox" /\ outbounds # << >>
  BY DEF Rowless
<1>2. PICK U, rows : rows = outbounds /\ rows \in Seq(U)
  BY RowsGiven
<1>3. PICK d : d = Db
  OBVIOUS
<1>4. PICK given : given = Rules(core, d, w, g)
  OBVIOUS
<1>5. CASE ~NoRows(core)
  <2>1. Default(core, d) = Tag("direct")
    BY <1>1 DEF Default
  <2>2. Tag("direct") \notin Known(core, Db)
    BY <1>1, <1>5, KnownNames
  <2> QED
    BY <1>1, <1>3, <2>1, <2>2 DEF Accepts
<1>6. CASE NoRows(core)
  <2>1. PICK P : P = {r \in Sequence!ToSet(rows) : IsAction(core, r)}
    OBVIOUS
  <2>2. PICK X : X = {r \in U : IsAction(core, r)}
    OBVIOUS
  <2>3. rows \in Seq(U) /\ Within(P, rows, X)
    BY <1>2, <2>1, <2>2 DEF Within, Sequence!ToSet
  <2>4. PICK c \in Seq(U) : /\ c = Chosen(rows, P)
                            /\ \A x : Among(x, c) <=> Among(x, rows) /\ x \in X
    BY <2>3, RowsChosen
  <2>5. PICK l : l = RowRules(core, rows)
    OBVIOUS
  <2>6. l = [n \in DOMAIN c |-> Rule(c[n].filter, Tag(c[n].tag[1]))]
    BY <2>1, <2>4, <2>5 DEF RowRules
  <2>7. PICK n \in DOMAIN c : c[n] \in X
    <3>1. 1 \in DOMAIN rows /\ rows[1] \in U
      BY <1>1, <1>2
    <3>2. rows[1] \in X /\ Among(rows[1], rows)
      BY <1>2, <1>6, <2>2, <3>1 DEF NoRows, Among
    <3> QED
      BY <2>4, <3>2 DEF Among
  <2>8. l[n].to = Tag(c[n].tag[1]) /\ c[n].tag[1] \in {"block", "dns"}
    BY <2>2, <2>6, <2>7 DEF Rule, IsAction
  <2>9. l[n].to \notin Known(core, Db)
    BY <1>1, <2>8, KnownNames
  <2>10. PICK T : T = {l[m] : m \in DOMAIN l} \cup {all[m] : m \in DOMAIN all}
    OBVIOUS
  <2>11. l \in Seq(T) /\ all \in Seq(T)
    <3>1. Len(c) \in Nat /\ DOMAIN c = 1..Len(c) /\ Len(all) \in Nat /\ DOMAIN all = 1..Len(all)
      OBVIOUS
    <3>2. DOMAIN l = 1..Len(c) /\ l = [m \in 1..Len(c) |-> l[m]] /\ \A m \in 1..Len(c) : l[m] \in T
      BY <2>6, <2>10, <3>1
    <3>3. all = [m \in 1..Len(all) |-> all[m]] /\ \A m \in 1..Len(all) : all[m] \in T
      BY <2>10, <3>1
    <3> QED
      BY <3>1, <3>2, <3>3
  <2>12. PICK both : both = l \o all
    OBVIOUS
  <2>13. Joined(both, l, all)
    BY <2>11, <2>12 DEF Joined
  <2>14. Among(l[n], l)
    BY <2>6 DEF Among
  <2>15. Among(l[n], both)
    BY <2>11, <2>13, <2>14, ConcatMembers
  <2>16. given = both
    BY <1>1, <1>2, <1>3, <1>4, <2>5, <2>12 DEF Rules, Written, Db
  <2>17. PICK m \in DOMAIN given : given[m].to \notin Known(core, Db)
    BY <2>9, <2>15, <2>16 DEF Among
  <2> QED
    BY <1>1, <1>3, <1>4, <2>17 DEF Accepts
<1> QED
  BY <1>5, <1>6

-----------------------------------------------------------------------------
(* What the cores make of the list.                                        *)

\* The list as written: it decides alike, and has the rules with a condition.
Alike(all, written) ==
  /\ \A n \in DOMAIN written : \E m \in DOMAIN all : written[n] = all[m]
  /\ \A m \in DOMAIN all : all[m].if # {} => \E n \in DOMAIN written : written[n] = all[m]
  /\ \A t : \A m \in DOMAIN all : First(all, t, m) =>
       \E n \in DOMAIN written : First(written, t, n) /\ written[n] = all[m]

LEMMA WrittenAlike ==
  ASSUME NEW core, NEW S, NEW all \in Seq(S)
  PROVE  /\ Written(core, all) \in Seq(S) /\ Alike(all, Written(core, all))
         /\ core = "mihomo" => \A n \in DOMAIN Written(core, all) : Written(core, all)[n].if # {}
         /\ core # "mihomo" => Written(core, all) = all
<1>1. CASE core = "mihomo"
  <2>1. PICK written : written = WithCondition(all)
    OBVIOUS
  <2>2. written \in Seq(S) /\ Filtered(all, Len(all), written)
    BY <2>1, WithConditionFacts
  <2>3. Written(core, all) = written
    BY <1>1, <2>1 DEF Written
  <2>4. \A m \in DOMAIN all : m <= Len(all)
    OBVIOUS
  <2>5. Alike(all, written) /\ \A n \in DOMAIN written : written[n].if # {}
    BY <2>2, <2>4 DEF Alike, Filtered
  <2> QED
    BY <1>1, <2>2, <2>3, <2>5
<1>2. CASE core # "mihomo"
  BY <1>2 DEF Written, Alike
<1> QED
  BY <1>1, <1>2

\* Whether a row leaves a condition.
LEMMA Conditions ==
  ASSUME NEW core \in Cores, NEW r
  PROVE  /\ WARPRule(core, r).if # {} <=> r.kind \in {"domain", "ip", "cidr"}
         /\ GeoRule(core, r).if # {} <=> r.kind \in {"geoip", "geosite"}
         /\ WARPRule(core, r).to = WarpTag /\ GeoRule(core, r).to = GeoTarget(core, r)
         /\ WARPRule(core, r).if = WARPCondition(core, r) /\ GeoRule(core, r).if = GeoCondition(r)
<1>1. /\ WARPRule(core, r).to = WarpTag /\ GeoRule(core, r).to = GeoTarget(core, r)
      /\ WARPRule(core, r).if = WARPCondition(core, r) /\ GeoRule(core, r).if = GeoCondition(r)
  BY DEF WARPRule, GeoRule, Rule
<1>2. WARPCondition(core, r) # {} <=> r.kind \in {"domain", "ip", "cidr"}
  BY DEF WARPCondition, Cores, MihomoWARPCondition, SingboxWARPCondition, XrayWARPCondition
<1>3. GeoCondition(r) # {} <=> r.kind \in {"geoip", "geosite"}
  BY DEF GeoCondition
<1> QED
  BY <1>1, <1>2, <1>3

LEMMA Starting ==
  ASSUME RoutingParameters, TablesInv, part = "tables", NEW core \in Cores,
         NEW S, NEW all \in Seq(S), NEW k \in Nat, Lists(core, all, k),
         NEW written, written = Written(core, all), Rowless(core)
  PROVE  Accepts(core, Db, written) <=> Starts(core)
<1>1. /\ Alike(all, written)
      /\ core = "mihomo" => \A n \in DOMAIN written : written[n].if # {}
      /\ core # "mihomo" => written = all
  BY WrittenAlike
<1>2. DOMAIN all \subseteq Nat
  OBVIOUS
<1>3. core # "mihomo" =>
        ((\A n \in DOMAIN all : all[n].if # {}) <=>
           (Injected => Sound(routes, {"domain", "ip", "cidr"})) /\ Sound(rules, {"geoip", "geosite"}))
  <2>1. ASSUME NEW n \in DOMAIN all, (Injected => Sound(routes, {"domain", "ip", "cidr"})) /\ Sound(rules, {"geoip", "geosite"})
        PROVE  all[n].if # {}
    <3>1. CASE n <= k
      <4>1. PICK r \in RowsInForce(routes) : all[n] = WARPRule(core, r)
        BY <2>1, <3>1 DEF Lists
      <4>2. r.kind \in {"domain", "ip", "cidr"}
        BY <2>1, <3>1 DEF Lists, Sound
      <4> QED
        BY <4>1, <4>2, Conditions
    <3>2. CASE n > k
      <4>1. PICK r \in RowsInForce(rules) : all[n] = GeoRule(core, r)
        BY <2>1, <3>2 DEF Lists
      <4>2. r.kind \in {"geoip", "geosite"}
        BY <2>1 DEF Sound
      <4> QED
        BY <4>1, <4>2, Conditions
    <3> QED
      BY <1>2, <3>1, <3>2
  <2>2. ASSUME \A n \in DOMAIN all : all[n].if # {}, Injected
        PROVE  Sound(routes, {"domain", "ip", "cidr"})
    <3>1. SUFFICES ASSUME NEW r \in RowsInForce(routes) PROVE r.kind \in {"domain", "ip", "cidr"}
      BY DEF Sound
    <3>2. PICK n \in DOMAIN all : all[n] = WARPRule(core, r)
      BY <2>2 DEF Lists
    <3> QED
      BY <2>2, <3>2, Conditions
  <2>3. ASSUME \A n \in DOMAIN all : all[n].if # {}
        PROVE  Sound(rules, {"geoip", "geosite"})
    <3>1. SUFFICES ASSUME NEW r \in RowsInForce(rules) PROVE r.kind \in {"geoip", "geosite"}
      BY DEF Sound
    <3>2. PICK n \in DOMAIN all : all[n] = GeoRule(core, r)
      BY DEF Lists
    <3> QED
      BY <2>3, <3>2, Conditions
  <2> QED
    BY <2>1, <2>2, <2>3
<1>4. (\A n \in DOMAIN written : written[n].if # {}) <=>
        (core # "mihomo" => (Injected => Sound(routes, {"domain", "ip", "cidr"})) /\ Sound(rules, {"geoip", "geosite"}))
  BY <1>1, <1>3
<1>5. (\A n \in DOMAIN written : written[n].to \in Known(core, Db)) <=>
        \A r \in RowsInForce(rules) :
          (core = "mihomo" => r.kind \in {"geoip", "geosite"}) => Exists(core, r.action)
  <2>1. ASSUME NEW r \in RowsInForce(rules), core = "mihomo" => r.kind \in {"geoip", "geosite"},
               \A n \in DOMAIN written : written[n].to \in Known(core, Db)
        PROVE  Exists(core, r.action)
    <3>1. PICK n \in DOMAIN all : all[n] = GeoRule(core, r)
      BY DEF Lists
    <3>2. PICK m \in DOMAIN written : written[m] = all[n]
      <4>1. CASE core = "mihomo"
        BY <1>1, <2>1, <3>1, <4>1, Conditions DEF Alike
      <4>2. CASE core # "mihomo"
        BY <1>1, <4>2
      <4> QED
        BY <4>1, <4>2
    <3>3. GeoTarget(core, r) \in Known(core, Db)
      <4>1. written[m].to \in Known(core, Db)
        BY <2>1
      <4> QED
        BY <3>1, <3>2, <4>1, Conditions
    <3> QED
      BY <3>3, TargetKnown
  <2>2. ASSUME NEW n \in DOMAIN written,
               \A r \in RowsInForce(rules) :
                 (core = "mihomo" => r.kind \in {"geoip", "geosite"}) => Exists(core, r.action)
        PROVE  written[n].to \in Known(core, Db)
    <3>1. PICK m \in DOMAIN all : written[n] = all[m]
      BY <1>1 DEF Alike
    <3>2. CASE m <= k
      <4>1. PICK r \in RowsInForce(routes) : all[m] = WARPRule(core, r)
        BY <3>2 DEF Lists
      <4>2. Injected
        BY <3>2 DEF Lists
      <4>3. written[n].to = WarpTag
        BY <3>1, <4>1, Conditions
      <4> QED
        BY <4>2, <4>3, WarpKnown
    <3>3. CASE m > k
      <4>1. PICK r \in RowsInForce(rules) : all[m] = GeoRule(core, r)
        BY <3>3 DEF Lists
      <4>2. core = "mihomo" => r.kind \in {"geoip", "geosite"}
        BY <1>1, <3>1, <4>1, Conditions
      <4>3. GeoTarget(core, r) \in Known(core, Db)
        BY <2>2, <4>2, TargetKnown
      <4> QED
        BY <3>1, <4>1, <4>3, Conditions
    <3> QED
      BY <1>2, <3>2, <3>3
  <2> QED
    BY <2>1, <2>2
<1>6. core # "xray" => Default(core, Db) \in Known(core, Db)
  BY DefaultKnown
<1>7. ~(WARPOutbound("singbox").fields \subseteq EndpointFields)
  <2>1. "server" \in WARPOutbound("singbox").fields
    BY DEF WARPOutbound, SingboxWARPOutbound
  <2>2. "server" \notin EndpointFields
    BY DEF EndpointFields
  <2> QED
    BY <2>1, <2>2
<1>8. Accepts(core, Db, written) <=>
        /\ \A n \in DOMAIN written : written[n].if # {}
        /\ core # "xray" => \A n \in DOMAIN written : written[n].to \in Known(core, Db)
        /\ core = "singbox" => ~Injected
  <2>1. LoadWARPOutbound(Db.account, Db.routes) <=> Injected
    BY InjectedWhen DEF Db
  <2>2. PICK d : d = Db
    OBVIOUS
  <2>3. Accepts(core, d, written) <=>
          /\ \A n \in DOMAIN written : written[n].if # {}
          /\ core # "xray" => /\ \A n \in DOMAIN written : written[n].to \in Known(core, d)
                              /\ Default(core, d) \in Known(core, d)
          /\ core = "singbox" /\ LoadWARPOutbound(d.account, d.routes) =>
               WARPOutbound(core).fields \subseteq EndpointFields
    BY DEF Accepts
  <2> QED
    BY <1>6, <1>7, <2>1, <2>2, <2>3
<1>9. CASE core = "xray"
  BY <1>4, <1>8, <1>9 DEF Starts
<1>10. CASE core = "singbox"
  BY <1>4, <1>5, <1>8, <1>10 DEF Starts, Rowless
<1>11. CASE core = "mihomo"
  BY <1>4, <1>5, <1>8, <1>11 DEF Starts
<1> QED
  BY <1>9, <1>10, <1>11 DEF Cores

\* When a rule of a route fits.
LEMMA RouteFits ==
  ASSUME RoutingParameters, NEW core \in Cores, core # "singbox", Injected, NEW t \in Traffic
  PROVE  (\E r \in RowsInForce(routes) : Fits(WARPRule(core, r), t)) <=> Covered(t) \/ Overreaches(core, t)
<1> DEFINE More(r) ==
             \/ core = "xray" /\ r.kind = "domain" /\ <<"part", r.value>> \in t
             \/ /\ core = "mihomo" /\ r.kind = "ip" /\ r.value \in IPv6
                /\ <<"prefix", r.value>> \in t
<1>1. \A r : Fits(WARPRule(core, r), t) <=> WARPCondition(core, r) \cap t # {}
  BY Conditions DEF Fits
<1>2. ASSUME NEW r
      PROVE  WARPCondition(core, r) \cap t # {} <=> AskedCondition(r) \cap t # {} \/ More(r)
  <2>1. CASE core = "xray"
    <3>1. WARPCondition(core, r) = XrayWARPCondition(r)
      BY <2>1 DEF WARPCondition
    <3>2. CASE r.kind = "domain"
      <4>1. XrayWARPCondition(r) = {<<"part", r.value>>} /\ AskedCondition(r) = {<<"suffix", r.value>>}
        BY <3>2 DEF XrayWARPCondition, AskedCondition
      <4>2. <<"suffix", r.value>> \in t => <<"part", r.value>> \in t
        BY DEF RoutingParameters
      <4> QED
        BY <2>1, <3>1, <3>2, <4>1, <4>2
    <3>3. CASE r.kind # "domain"
      <4>1. XrayWARPCondition(r) = AskedCondition(r)
        BY <3>3 DEF XrayWARPCondition, AskedCondition
      <4> QED
        BY <2>1, <3>1, <3>3, <4>1
    <3> QED
      BY <3>2, <3>3
  <2>2. CASE core = "mihomo"
    <3>1. WARPCondition(core, r) = SingboxWARPCondition(r)
      BY <2>2 DEF WARPCondition, MihomoWARPCondition
    <3>2. CASE r.kind = "ip" /\ r.value \in IPv6
      <4>1. SingboxWARPCondition(r) = {<<"prefix", r.value>>} /\ AskedCondition(r) = {<<"address", r.value>>}
        BY <3>2 DEF SingboxWARPCondition, AskedCondition, Slash32
      <4>2. <<"address", r.value>> \in t => <<"prefix", r.value>> \in t
        BY <3>2 DEF RoutingParameters
      <4> QED
        BY <2>2, <3>1, <3>2, <4>1, <4>2
    <3>3. CASE ~(r.kind = "ip" /\ r.value \in IPv6)
      <4>1. SingboxWARPCondition(r) = AskedCondition(r)
        BY <3>3 DEF SingboxWARPCondition, AskedCondition, Slash32
      <4> QED
        BY <2>2, <3>1, <3>3, <4>1
    <3> QED
      BY <3>2, <3>3
  <2> QED
    BY <2>1, <2>2 DEF Cores
<1>3. Covered(t) \/ Overreaches(core, t) <=>
        \E r \in RowsInForce(routes) : AskedCondition(r) \cap t # {} \/ More(r)
  BY DEF Covered, Overreaches
<1> HIDE DEF More
<1> QED
  BY <1>1, <1>2, <1>3

LEMMA CoveredInjected ==
  ASSUME NEW t
  PROVE  Covered(t) /\ AccountReadable(account) => Injected
BY DEF Covered, Injected

\* Traffic no route takes goes where the applying geo rule of the highest
\* priority says; traffic one takes, there.
LEMMA FirstOfAll ==
  ASSUME RoutingParameters, TablesInv, part = "tables", NEW core \in Cores,
         NEW S, NEW all \in Seq(S), NEW k \in Nat, Lists(core, all, k), NEW t \in Traffic,
         core = "singbox" => ~Injected
  PROVE  IF Injected /\ (Covered(t) \/ Overreaches(core, t))
         THEN \E n \in DOMAIN all : First(all, t, n) /\ all[n].to = WarpTag
         ELSE IF Applying(t) = {} THEN \A n \in DOMAIN all : ~Fits(all[n], t)
         ELSE \E n \in DOMAIN all : \E r \in Applying(t) :
                /\ First(all, t, n) /\ all[n].to = GeoTarget(core, r)
                /\ \A o \in Applying(t) : r.priority >= o.priority
<1>1. DOMAIN all \subseteq Nat
  OBVIOUS
<1>2. \A r \in RowsInForce(rules) : Fits(GeoRule(core, r), t) <=> r \in Applying(t)
  BY Conditions DEF Fits, Applying
<1>3. CASE Injected /\ (Covered(t) \/ Overreaches(core, t))
  <2>1. PICK r \in RowsInForce(routes) : Fits(WARPRule(core, r), t)
    BY <1>3, RouteFits
  <2>2. PICK m \in DOMAIN all : m <= k /\ all[m] = WARPRule(core, r)
    BY <1>3 DEF Lists
  <2>3. PICK n \in DOMAIN all : First(all, t, n)
    BY <2>1, <2>2, FirstExists
  <2>4. n <= k
    <3>1. ~(m < n)
      BY <2>1, <2>2, <2>3 DEF First
    <3> QED
      BY <1>1, <2>2, <3>1
  <2>5. all[n].to = WarpTag
    <3>1. PICK o : all[n] = WARPRule(core, o)
      BY <2>4 DEF Lists
    <3> QED
      BY <3>1, Conditions
  <2> QED
    BY <1>3, <2>3, <2>5
<1>4. CASE ~(Injected /\ (Covered(t) \/ Overreaches(core, t)))
  <2>1. ASSUME NEW n \in DOMAIN all, Fits(all[n], t)
        PROVE  n > k /\ \E r \in Applying(t) :
                 /\ all[n].to = GeoTarget(core, r)
                 /\ \A o \in Applying(t) :
                      \/ r.priority >= o.priority
                      \/ \E m \in DOMAIN all : m < n /\ all[m] = GeoRule(core, o)
    <3>1. n > k
      <4>1. SUFFICES ASSUME n <= k PROVE FALSE
        BY <1>1
      <4>2. Injected /\ \E r \in RowsInForce(routes) : all[n] = WARPRule(core, r)
        BY <4>1 DEF Lists
      <4> QED
        BY <1>4, <2>1, <4>2, RouteFits
    <3>2. PICK r \in RowsInForce(rules) :
            /\ all[n] = GeoRule(core, r)
            /\ \A o \in RowsInForce(rules) :
                 \/ r.priority >= o.priority
                 \/ \E m \in DOMAIN all : m < n /\ all[m] = GeoRule(core, o)
      BY <3>1 DEF Lists
    <3>3. r \in Applying(t) /\ all[n].to = GeoTarget(core, r)
      BY <1>2, <2>1, <3>2, Conditions
    <3>4. Applying(t) \subseteq RowsInForce(rules)
      BY DEF Applying
    <3> QED
      BY <3>1, <3>2, <3>3, <3>4
  <2>2. CASE Applying(t) = {}
    BY <1>4, <2>1, <2>2
  <2>3. CASE Applying(t) # {}
    <3>1. PICK a : a \in Applying(t)
      BY <2>3
    <3>2. a \in RowsInForce(rules) /\ Fits(GeoRule(core, a), t)
      BY <1>2, <3>1 DEF Applying
    <3>3. PICK m \in DOMAIN all : all[m] = GeoRule(core, a)
      BY <3>2 DEF Lists
    <3>4. PICK n \in DOMAIN all : First(all, t, n)
      BY <3>2, <3>3, FirstExists
    <3>5. Fits(all[n], t)
      BY <3>4 DEF First
    <3>6. PICK r \in Applying(t) :
                 /\ all[n].to = GeoTarget(core, r)
                 /\ \A o \in Applying(t) :
                      \/ r.priority >= o.priority
                      \/ \E p \in DOMAIN all : p < n /\ all[p] = GeoRule(core, o)
      BY <2>1, <3>5
    <3>7. ASSUME NEW o \in Applying(t)
          PROVE  r.priority >= o.priority
      <4>1. ASSUME NEW p \in DOMAIN all, p < n, all[p] = GeoRule(core, o)
            PROVE  FALSE
        <5>1. Fits(all[p], t)
          BY <1>2, <4>1 DEF Applying
        <5> QED
          BY <3>4, <4>1, <5>1 DEF First
      <4> QED
        BY <3>6, <4>1
    <3> QED
      BY <1>4, <2>3, <3>4, <3>6, <3>7
  <2> QED
    BY <2>2, <2>3
<1> QED
  BY <1>3, <1>4

\* What traffic may get, in the words of the property.
As(core, t, got) ==
  IF Overreaches(core, t) THEN got = WarpTag
  ELSE IF core = "xray" /\ Applying(t) # {} /\ ~(Injected /\ Covered(t)) THEN got \in Fallback(t)
  ELSE got \in Asked(core, t)

LEMMA Deciding ==
  ASSUME RoutingParameters, TablesInv, part = "tables", NEW core \in Cores,
         NEW S, NEW all \in Seq(S), NEW k \in Nat, Lists(core, all, k), NEW t \in Traffic,
         NEW written, written = Written(core, all), Starts(core)
  PROVE  As(core, t, Decision(core, Db, written, t))
<1>1. written \in Seq(S) /\ Alike(all, written)
  BY WrittenAlike
<1>2. PICK got : got = Decision(core, Db, written, t)
  OBVIOUS
<1>3. ASSUME NEW m \in DOMAIN all, First(all, t, m)
      PROVE  got = IF all[m].to \in Known(core, Db) THEN all[m].to ELSE Default(core, Db)
  <2>1. PICK n \in DOMAIN written : First(written, t, n) /\ written[n] = all[m]
    BY <1>1, <1>3 DEF Alike
  <2>2. PICK d : d = Db
    OBVIOUS
  <2>3. Decision(core, d, written, t) =
          IF written[n].to \in Known(core, d) THEN written[n].to ELSE Default(core, d)
    BY <1>1, <2>1, FirstDecides
  <2> QED
    BY <1>2, <2>1, <2>2, <2>3
<1>4. ASSUME \A m \in DOMAIN all : ~Fits(all[m], t)
      PROVE  got = Default(core, Db)
  <2>1. \A n \in DOMAIN written : ~Fits(written[n], t)
    BY <1>1, <1>4 DEF Alike
  <2>2. PICK d : d = Db
    OBVIOUS
  <2>3. Decision(core, d, written, t) = Default(core, d)
    BY <2>1, NoneDecides
  <2> QED
    BY <1>2, <2>2, <2>3
<1> Rowless(core) /\ (core = "singbox" => ~Injected)
  BY DEF Starts, Rowless
<1>5. CASE Injected /\ (Covered(t) \/ Overreaches(core, t))
  <2>1. PICK n \in DOMAIN all : First(all, t, n) /\ all[n].to = WarpTag
    BY <1>5, FirstOfAll
  <2>2. got = WarpTag
    BY <1>3, <1>5, <2>1, WarpKnown
  <2>3. Overreaches(core, t) \/ (Covered(t) /\ AccountReadable(account))
    BY <1>5 DEF Injected
  <2>4. CASE Overreaches(core, t)
    BY <1>2, <2>2, <2>4 DEF As, Overreaches
  <2>5. CASE ~Overreaches(core, t)
    <3>1. Injected /\ Covered(t) /\ Asked(core, t) = {WarpTag}
      BY <1>5, <2>3, <2>5 DEF Asked
    <3> QED
      BY <1>2, <2>2, <2>5, <3>1 DEF As
  <2> QED
    BY <2>4, <2>5
<1>6. CASE ~(Injected /\ (Covered(t) \/ Overreaches(core, t)))
  <2>1. ~Overreaches(core, t) /\ ~(Injected /\ Covered(t)) /\ ~(AccountReadable(account) /\ Covered(t))
    BY <1>6, CoveredInjected DEF Overreaches
  <2>2. CASE Applying(t) = {}
    <3>1. got = Default(core, Db)
      BY <1>4, <1>6, <2>2, FirstOfAll
    <3>2. Asked(core, t) = {Default(core, Db)}
      BY <2>1, <2>2 DEF Asked
    <3> QED
      BY <1>2, <2>1, <2>2, <3>1, <3>2 DEF As
  <2>3. CASE Applying(t) # {}
    <3>1. PICK n \in DOMAIN all, r \in Applying(t) :
            /\ First(all, t, n) /\ all[n].to = GeoTarget(core, r)
            /\ \A o \in Applying(t) : r.priority >= o.priority
      BY <1>6, <2>3, FirstOfAll
    <3>2. got = IF Exists(core, r.action) THEN GeoTarget(core, r) ELSE Default(core, Db)
      BY <1>3, <3>1, TargetKnown
    <3>3. CASE core = "xray"
      <4>1. got \in Fallback(t)
        BY <3>1, <3>2, <3>3 DEF Fallback
      <4> QED
        BY <1>2, <2>1, <2>3, <3>3, <4>1 DEF As
    <3>4. CASE core # "xray"
      <4>1. r \in RowsInForce(rules) /\ r.kind \in {"geoip", "geosite"}
        BY DEF Applying, GeoCondition
      <4>2. Exists(core, r.action)
        BY <3>4, <4>1 DEF Starts
      <4>3. got \in Asked(core, t)
        BY <2>1, <2>3, <3>1, <3>2, <4>2 DEF Asked
      <4> QED
        BY <1>2, <2>1, <3>4, <4>3 DEF As
    <3> QED
      BY <3>3, <3>4
  <2> QED
    BY <2>2, <2>3
<1> QED
  BY <1>5, <1>6

LEMMA RulesDecided == RoutingParameters /\ TablesInv => RulesDecide
<1> SUFFICES ASSUME RoutingParameters, TablesInv, part = "tables",
                    NEW core \in Cores, NEW w \in Orders(routes), NEW g \in Orders(rules)
             PROVE  /\ Accepts(core, Db, Rules(core, Db, w, g)) <=> Starts(core)
                    /\ Starts(core) => \A t \in Traffic :
                         As(core, t, Decision(core, Db, Rules(core, Db, w, g), t))
  BY DEF RulesDecide, As
<1>1. PICK S : \E all \in Seq(S) : \E k \in Nat :
           all = RoutingRules(core, Db, w, g) /\ Lists(core, all, k)
  BY AllListed
<1>2. PICK all \in Seq(S), k \in Nat :
           all = RoutingRules(core, Db, w, g) /\ Lists(core, all, k)
  BY <1>1
<1>3. CASE Rowless(core)
  <2>1. PICK written : written = Written(core, all)
    OBVIOUS
  <2>2. Rules(core, Db, w, g) = written
    BY <1>2, <1>3, <2>1, RowlessRules
  <2>3. Accepts(core, Db, written) <=> Starts(core)
    BY <1>2, <1>3, <2>1, Starting
  <2>4. Starts(core) => \A t \in Traffic : As(core, t, Decision(core, Db, written, t))
    BY <1>2, <2>1, Deciding
  <2> QED
    BY <2>2, <2>3, <2>4
<1>4. CASE ~Rowless(core)
  <2>1. ~Starts(core)
    BY <1>4 DEF Rowless, Starts
  <2>2. ~Accepts(core, Db, Rules(core, Db, w, g))
    BY <1>2, <1>4, RowsRefused
  <2> QED
    BY <2>1, <2>2
<1> QED
  BY <1>3, <1>4

\* Whatever routes, rules and outbounds there are, a core starts exactly with
\* the rules it can be asked for, and sends traffic where the administrator
\* asked but for the two exceptions, in every order in which rows of the same
\* priority may be loaded (InjectWARP, InjectGeo, GenerateConfig).
THEOREM AskedIsTaken ==
  ASSUME RoutingParameters
  PROVE  Spec => []RulesDecide
<1>1. Init => TablesInv
  BY TablesInit
<1>2. TablesInv /\ [Next]_vars => TablesInv'
  BY TablesNext
<1>3. TablesInv => RulesDecide
  BY RulesDecided
<1> QED
  BY <1>1, <1>2, <1>3, PTL DEF Spec
===============================================================================
