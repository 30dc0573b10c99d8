----------------------------- MODULE Subscriptions -----------------------------
(***************************************************************************)
(* Subscriptions and their cache.  A reader reads the rows, looks in the   *)
(* cache, and on a miss generates the text from the rows it read and puts  *)
(* it in.  An administrator's change and the invalidation that goes with   *)
(* it are two steps: the invalidation comes after an update and before a   *)
(* deletion.  Invalidating for any user clears the whole cache.            *)
(*                                                                         *)
(* The columns of a user or inbound a generator uses are one version.      *)
(*                                                                         *)
(* Sources: services/subscription_service.go, api/subscriptions.go,        *)
(* services/user_service.go, services/inbound_service.go.                  *)
(***************************************************************************)
EXTENDS Naturals, FiniteSets

CONSTANTS
  Users, Inbounds, Formats, Readers, Editors,
  MaxVersion, \* bound on changes
  NoEntry,    \* not in the cache
  NoRow       \* an inbound that was deleted

VARIABLES
  users,    \* for each user [status, active, version]
  inbounds, \* for each inbound [version, enabled] or NoRow
  mappings, \* user_inbound_mappings
  version,  \* versions given out
  cache,    \* for each user and format [content, late] or NoEntry
  reader,   \* subscription requests
  editor    \* administrators' requests

vars == <<users, inbounds, mappings, version, cache, reader, editor>>
rows == <<users, inbounds, mappings, version>>

Nothing == [user |-> 0, inbounds |-> {}]
Reading == [at |-> "idle", user |-> 0, format |-> 0, content |-> Nothing, late |-> FALSE]
Editing == [at |-> "idle", kind |-> "none", user |-> 0, inbound |-> 0, row |-> NoRow]

Live(u)    == users[u].status = "live"
Exists(i)  == inbounds[i] # NoRow
Of(u)      == {i \in Inbounds : <<u, i>> \in mappings}

\* What a generator writes for a user: every format has the same sources.
Proxies(u)  == {<<i, inbounds[i].version>> : i \in {j \in Of(u) : Exists(j) /\ inbounds[j].enabled}}
Generate(u) == [user |-> users[u].version, inbounds |-> Proxies(u)]

Init ==
  /\ users = [u \in Users |-> [status |-> "new", active |-> FALSE, version |-> 0]]
  /\ inbounds = [i \in Inbounds |-> [version |-> 0, enabled |-> TRUE]]
  /\ mappings = {} /\ version = 0
  /\ cache = [k \in Users \X Formats |-> NoEntry]
  /\ reader = [r \in Readers |-> Reading] /\ editor = [e \in Editors |-> Editing]

Goes(r, at) == reader' = [reader EXCEPT ![r].at = at]
Ends(r)     == reader' = [reader EXCEPT ![r] = Reading]
-----------------------------------------------------------------------------
(***************************************************************************)
(* A request with the token of a user who is active and has not expired;   *)
(* any other gets 404.                                                     *)
(***************************************************************************)
GetUserBySubscriptionToken(r, u, f) ==
  /\ reader[r].at = "idle" /\ Live(u) /\ users[u].active
  /\ reader' = [reader EXCEPT ![r] = [Reading EXCEPT !.at = "inbounds", !.user = u, !.format = f,
                                        !.content = [Nothing EXCEPT !.user = users[u].version]]]
  /\ UNCHANGED <<rows, cache, editor>>

GetUserSubscriptionData(r) ==
  /\ reader[r].at = "inbounds"
  /\ reader' = [reader EXCEPT ![r] = [@ EXCEPT !.at = "lookup",
                                               !.content.inbounds = Proxies(reader[r].user)]]
  /\ UNCHANGED <<rows, cache, editor>>

Key(r) == <<reader[r].user, reader[r].format>>

GetCachedSubscription(r) ==
  /\ reader[r].at = "lookup"
  /\ IF cache[Key(r)] # NoEntry THEN Ends(r) ELSE Goes(r, "set")
  /\ UNCHANGED <<rows, cache, editor>>

\* late: rows changed under the reader, or a deletion is past its invalidation.
SetCachedSubscription(r) ==
  /\ reader[r].at = "set"
  /\ cache' = [cache EXCEPT ![Key(r)] =
                 [content |-> reader[r].content,
                  late    |-> reader[r].late \/ \E e \in Editors : editor[e].at = "delete"]]
  /\ Ends(r)
  /\ UNCHANGED <<rows, editor>>

\* The time to live is five minutes; the cache may also drop what it is given.
CacheExpires(k) ==
  /\ cache[k] # NoEntry
  /\ cache' = [cache EXCEPT ![k] = NoEntry]
  /\ UNCHANGED <<rows, reader, editor>>
-----------------------------------------------------------------------------
\* Rows change: the readers at work are late.
Change  == reader' = [r \in Readers |-> [reader[r] EXCEPT !.late = reader[r].at # "idle"]]
NewVersion == version < MaxVersion /\ version' = version + 1

Step(e, kind, at, u, i) ==
  editor' = [editor EXCEPT ![e] = [Editing EXCEPT !.at = at, !.kind = kind, !.user = u, !.inbound = i]]
Done(e) == editor' = [editor EXCEPT ![e] = Editing]
Idle(e) == editor[e].at = "idle"

CreateUser(e, u, is) ==
  /\ Idle(e) /\ users[u].status = "new" /\ \A i \in is : Exists(i)
  /\ NewVersion /\ Change
  /\ users' = [users EXCEPT ![u] = [status |-> "live", active |-> TRUE, version |-> version + 1]]
  /\ mappings' = mappings \cup ({u} \X is)
  /\ Step(e, "user", "invalidate", u, 0)
  /\ UNCHANGED <<inbounds, cache>>

\* UpdateUser and RegenerateCredentials read the whole row ...
ReadUser(e, u) ==
  /\ Idle(e) /\ Live(u) /\ version < MaxVersion
  /\ version' = version + 1
  /\ \E active \in BOOLEAN :
       editor' = [editor EXCEPT ![e] = [Editing EXCEPT !.at = "save", !.kind = "user", !.user = u,
                    !.row = [status |-> "live", active |-> active, version |-> version + 1]]]
  /\ UNCHANGED <<users, inbounds, mappings, cache, reader>>

\* ... and save it whole, even if it was deleted meanwhile.  The mappings are
\* replaced when the request names inbounds.
UpdateUser(e, is) ==
  /\ editor[e].at = "save" /\ \A i \in is : Exists(i)
  /\ LET u == editor[e].user IN
       /\ users' = [users EXCEPT ![u] = editor[e].row]
       /\ mappings' = (mappings \ ({u} \X Inbounds)) \cup ({u} \X is)
       /\ Step(e, "user", "invalidate", u, 0)
  /\ Change
  /\ UNCHANGED <<inbounds, version, cache>>

\* The deletion is a mark: the mappings stay.
DeleteUser(e, u) ==
  /\ Idle(e) /\ Live(u)
  /\ Step(e, "user", "clear", u, 0)
  /\ UNCHANGED <<rows, cache, reader>>

DeleteUserRow(e) ==
  /\ editor[e].at = "delete" /\ editor[e].kind = "user"
  /\ users' = [users EXCEPT ![editor[e].user].status = "deleted"]
  /\ Change /\ Done(e)
  /\ UNCHANGED <<inbounds, mappings, version, cache>>

UpdateInbound(e, i) ==
  /\ Idle(e) /\ Exists(i)
  /\ NewVersion /\ Change
  /\ \E enabled \in BOOLEAN :
       inbounds' = [inbounds EXCEPT ![i] = [version |-> version + 1, enabled |-> enabled]]
  /\ Step(e, "inbound", "invalidate", 0, i)
  /\ UNCHANGED <<users, mappings, cache>>

DeleteInbound(e, i) ==
  /\ Idle(e) /\ Exists(i)
  /\ Step(e, "inbound", "clear", 0, i)
  /\ UNCHANGED <<rows, cache, reader>>

\* The mappings go with the inbound: their foreign key cascades.
DeleteInboundRow(e) ==
  /\ editor[e].at = "delete" /\ editor[e].kind = "inbound"
  /\ inbounds' = [inbounds EXCEPT ![editor[e].inbound] = NoRow]
  /\ mappings' = mappings \ (Users \X {editor[e].inbound})
  /\ Change /\ Done(e)
  /\ UNCHANGED <<users, version, cache>>

AssignInboundToUser(e, u, i) ==
  /\ Idle(e) /\ Live(u) /\ Exists(i) /\ <<u, i>> \notin mappings
  /\ mappings' = mappings \cup {<<u, i>>}
  /\ Change /\ Step(e, "user", "invalidate", u, 0)
  /\ UNCHANGED <<users, inbounds, version, cache>>

UnassignInboundFromUser(e, u, i) ==
  /\ Idle(e) /\ <<u, i>> \in mappings
  /\ mappings' = mappings \ {<<u, i>>}
  /\ Change /\ Step(e, "user", "invalidate", u, 0)
  /\ UNCHANGED <<users, inbounds, version, cache>>

\* One transaction, then the invalidation; users who do not exist are skipped.
BulkAssignUsers(e, i, add, remove) ==
  /\ Idle(e) /\ Exists(i) /\ add \cup remove # {} /\ add \cap remove = {}
  /\ mappings' = (mappings \ (remove \X {i})) \cup ({u \in add : Live(u)} \X {i})
  /\ Change /\ Step(e, "user", "invalidate", CHOOSE u \in add \cup remove : TRUE, 0)
  /\ UNCHANGED <<users, inbounds, version, cache>>

\* Mutant: only the entries of the user the request names are cleared.
InvalidateOneUser(e) ==
  /\ editor[e].at \in {"invalidate", "clear"}
  /\ cache' = [k \in DOMAIN cache |-> IF k[1] = editor[e].user THEN NoEntry ELSE cache[k]]
  /\ IF editor[e].at = "clear" THEN editor' = [editor EXCEPT ![e].at = "delete"] ELSE Done(e)
  /\ UNCHANGED <<rows, reader>>

\* For an inbound: if any user assigned to it still exists.  When the query for
\* them fails nothing is cleared, and the entries of those users are late.
InvalidateUserCache(e) ==
  /\ editor[e].at \in {"invalidate", "clear"}
  /\ \/ cache' = IF \/ editor[e].kind = "user"
                    \/ \E u \in Users : Live(u) /\ <<u, editor[e].inbound>> \in mappings
                 THEN [k \in DOMAIN cache |-> NoEntry] ELSE cache
     \/ /\ editor[e].kind = "inbound"
        /\ cache' = [k \in DOMAIN cache |->
                       IF cache[k] # NoEntry /\ <<k[1], editor[e].inbound>> \in mappings
                       THEN [cache[k] EXCEPT !.late = TRUE] ELSE cache[k]]
  /\ IF editor[e].at = "clear" THEN editor' = [editor EXCEPT ![e].at = "delete"] ELSE Done(e)
  /\ UNCHANGED <<rows, reader>>

\* A transaction rolls back.
UpdateFails(e) ==
  /\ editor[e].at \in {"save", "delete"}
  /\ Done(e)
  /\ UNCHANGED <<rows, cache, reader>>

\* A handler of the four formats.
Serve(r) ==
  \/ \E u \in Users, f \in Formats : GetUserBySubscriptionToken(r, u, f)
  \/ GetUserSubscriptionData(r) \/ GetCachedSubscription(r) \/ SetCachedSubscription(r)

\* Those that create a user, assign one, and many.
AddUser(e) == \E u \in Users, is \in SUBSET Inbounds : CreateUser(e, u, is)
Assign(e) == \E u \in Users, i \in Inbounds : AssignInboundToUser(e, u, i) \/ UnassignInboundFromUser(e, u, i)
AssignMany(e) == \E i \in Inbounds, add, remove \in SUBSET Users : BulkAssignUsers(e, i, add, remove)

Next ==
  \/ \E r \in Readers : Serve(r)
  \/ \E k \in DOMAIN cache : CacheExpires(k)
  \/ \E e \in Editors :
       \/ InvalidateUserCache(e) \/ DeleteUserRow(e) \/ DeleteInboundRow(e) \/ UpdateFails(e)
       \/ AddUser(e) \/ \E is \in SUBSET Inbounds : UpdateUser(e, is)
       \/ \E u \in Users : ReadUser(e, u) \/ DeleteUser(e, u)
       \/ \E i \in Inbounds : UpdateInbound(e, i) \/ DeleteInbound(e, i)
       \/ Assign(e) \/ AssignMany(e)

Spec == Init /\ [][Next]_vars
-----------------------------------------------------------------------------
\* With no change between its rows and its invalidation, what the cache holds
\* for a user who can ask for it is what would be generated now, unless the
\* rows changed under the reader that put it there, a deletion had cleared the
\* cache and not yet deleted, or an inbound changed and the query for its users
\* failed: such an entry lives on for five minutes.
CacheIsCurrent ==
  (\A e \in Editors : editor[e].at # "invalidate") =>
    \A k \in DOMAIN cache :
      cache[k] # NoEntry /\ ~cache[k].late /\ Live(k[1]) =>
        cache[k].content = Generate(k[1])
================================================================================
