--------------------------- MODULE TrafficQuota_proofs ---------------------------
(***************************************************************************)
(* Proofs about TrafficQuota for any users, handlers and bounds: as long as *)
(* requests, passes and resets come one at a time, no save of a whole row   *)
(* brings back a user that was deleted, or traffic that a reset cleared.    *)
(*                                                                          *)
(* Both are about a step, and follow from what the step's copy of the row   *)
(* may be: the row it was read from is not deleted and has counted no less  *)
(* since (FreshInv).  That is so because the handler, or the pass, that     *)
(* holds a copy is then alone (AloneInv).                                   *)
(***************************************************************************)
EXTENDS TrafficQuota, TLAPS

Parameters == None \notin Row /\ None \notin User

Types ==
  /\ row \in [User -> Row]
  /\ pc \in [Handler -> {"idle", "save"}]
  /\ target \in [Handler -> User \cup {None}]
  /\ snap \in [Handler -> Row \cup {None}]
  /\ pass \in [User -> Row \cup {None}]
  /\ counter \in [User -> Nat]
  /\ serial \in BOOLEAN
  /\ \A h \in Handler : pc[h] = "save" => target[h] \in User /\ snap[h] \in Row

\* Who holds a copy is alone.
AloneInv ==
  \A h \in Handler : pc[h] = "save" => ~Enforcing /\ \A k \in Handler \ {h} : pc[k] = "idle"

\* A copy that may be saved over the row it was read from.
Fresh(copy, u) == ~row[u].deleted /\ copy.used <= row[u].used

FreshInv ==
  /\ \A h \in Handler : pc[h] = "save" => Fresh(snap[h], target[h])
  /\ \A u \in User : pass[u] # None => Fresh(pass[u], u)

IInv == Types /\ (serial => AloneInv /\ FreshInv)

-----------------------------------------------------------------------------
(* Rows.                                                                    *)

LEMMA RowFacts ==
  ASSUME NEW r \in Row
  PROVE  /\ r.used \in Nat /\ r.used <= MaxUsed /\ r.deleted \in BOOLEAN
         /\ r.active \in BOOLEAN /\ r.limit \in Limits \cup {0}
BY QuotaAssumption DEF Row

\* A save writes the copy's counter, on a row that is then not deleted.
LEMMA SavedFacts ==
  ASSUME NEW old \in Row, NEW new \in Row
  PROVE  /\ SavedOver(old, new) \in Row
         /\ ~SavedOver(old, new).deleted /\ SavedOver(old, new).used = new.used
<1>1. new.active \in BOOLEAN /\ old.deleted \in BOOLEAN
  BY DEF Row
<1>2. (new.active \/ old.deleted) \in BOOLEAN
  BY <1>1
<1> DEFINE active == new.active \/ old.deleted
<1> HIDE DEF active
<1>3. [new EXCEPT !.deleted = FALSE, !.active = active] \in Row
      /\ [new EXCEPT !.deleted = FALSE, !.active = active].deleted = FALSE
      /\ [new EXCEPT !.deleted = FALSE, !.active = active].used = new.used
  BY <1>2 DEF Row, active
<1> QED
  BY <1>3 DEF SavedOver, active

LEMMA UpdateFacts ==
  ASSUME NEW s \in Row, NEW new \in Updates(s)
  PROVE  new \in Row /\ new.used = s.used
<1>1. ASSUME NEW l \in Limits, new = [s EXCEPT !.limit = l] PROVE new \in Row /\ new.used = s.used
  BY <1>1 DEF Row
<1>2. ASSUME NEW a \in BOOLEAN, new = [s EXCEPT !.active = a] PROVE new \in Row /\ new.used = s.used
  BY <1>2 DEF Row
<1> QED
  BY <1>1, <1>2 DEF Updates

-----------------------------------------------------------------------------
(* The steps, each with what it keeps of the rows.                          *)

Kept ==
  \A u \in User :
    /\ row[u].deleted => row'[u].deleted
    /\ row'[u].used > row[u].used => row'[u].used = Capped(row[u].used + counter[u])

\* Steps that leave the rows and the copies of them alone.
LEMMA AsideInv ==
  ASSUME Parameters, IInv, UNCHANGED <<row, pc, target, snap, pass, serial>>,
         counter' \in [User -> Nat], disabled' \in {disabled, None}
  PROVE  IInv' /\ Kept
<1>1. Types'
  BY DEF IInv, Types
<1>2. AloneInv => AloneInv'
  BY DEF AloneInv, Enforcing
<1>3. FreshInv => FreshInv'
  BY DEF FreshInv, Fresh
<1>4. Kept
  <2>1. \A u \in User : row[u].used \in Nat
    BY RowFacts DEF IInv, Types
  <2> QED
    BY <2>1 DEF Kept
<1> QED
  BY <1>1, <1>2, <1>3, <1>4 DEF IInv

LEMMA CoreInv ==
  ASSUME Parameters, IInv,
         (\E u \in User : Traffic(u)) \/ ReloadAffectedCores \/ ReloadElsewhere \/ ClearAllWarnings
         \/ UNCHANGED vars
  PROVE  IInv' /\ Kept
<1>1. counter \in [User -> Nat]
  BY DEF IInv, Types
<1>2. [u \in User |-> 0] \in [User -> Nat]
  OBVIOUS
<1>3. ASSUME NEW u \in User, Traffic(u) PROVE IInv' /\ Kept
  <2>1. counter' \in [User -> Nat]
    BY <1>1, <1>3 DEF Traffic
  <2> QED
    BY <1>3, <2>1, AsideInv DEF Traffic, handlers, enforcer, history
<1>4. CASE ReloadAffectedCores
  BY <1>2, <1>4, AsideInv DEF ReloadAffectedCores, Reload, handlers, history
<1>5. CASE ReloadElsewhere
  BY <1>2, <1>5, AsideInv DEF ReloadElsewhere, Reload, handlers, enforcer, history
<1>6. CASE ClearAllWarnings
  BY <1>1, <1>6, AsideInv DEF ClearAllWarnings, rows, handlers, history
<1>7. CASE UNCHANGED vars
  BY <1>1, <1>7, AsideInv DEF vars
<1> QED
  BY <1>3, <1>4, <1>5, <1>6, <1>7

\* A request that begins while others are at work ends the hypothesis; one that
\* begins alone holds a fresh copy.
LEMMA ReadInv ==
  ASSUME Parameters, IInv, NEW h \in Handler, Request(h)
  PROVE  IInv' /\ Kept
<1>1. PICK o \in AllOps, u \in User : ReadUser(h, o, u)
  BY DEF Request
<1>2. /\ UNCHANGED <<row, counter, pass, disabled>> /\ serial' = (serial /\ Quiet) /\ ~row[u].deleted
      /\ pc' = [pc EXCEPT ![h] = "save"] /\ target' = [target EXCEPT ![h] = u]
      /\ snap' = [snap EXCEPT ![h] = row[u]]
  BY <1>1 DEF ReadUser, rows, enforcer
<1>3. row[u] \in Row /\ row[u].used \in Nat
  BY RowFacts DEF IInv, Types
<1>4. /\ pc' \in [Handler -> {"idle", "save"}] /\ target' \in [Handler -> User \cup {None}]
      /\ snap' \in [Handler -> Row \cup {None}]
      /\ pc'[h] = "save" /\ target'[h] = u /\ snap'[h] = row[u]
      /\ \A k \in Handler \ {h} : pc'[k] = pc[k] /\ target'[k] = target[k] /\ snap'[k] = snap[k]
  BY <1>2, <1>3 DEF IInv, Types
<1>5. serial' \in BOOLEAN
  BY <1>2
<1>6. Types'
  BY <1>2, <1>3, <1>4, <1>5 DEF IInv, Types
<1>7. ASSUME serial' PROVE AloneInv' /\ FreshInv'
  <2>1. serial /\ ~Enforcing /\ \A k \in Handler : pc[k] = "idle"
    BY <1>2, <1>7 DEF Quiet
  <2>2. ~Enforcing'
    BY <1>2, <2>1 DEF Enforcing
  <2>3. \A k \in Handler : pc'[k] = "save" => k = h
    BY <1>4, <2>1
  <2>4. \A k \in Handler : k # h => pc'[k] = "idle"
    BY <1>4, <2>1
  <2>5. AloneInv'
    BY <2>2, <2>3, <2>4 DEF AloneInv
  <2>6. FreshInv'
    BY <1>2, <1>3, <1>4, <2>2, <2>3 DEF FreshInv, Fresh, Enforcing
  <2> QED
    BY <2>5, <2>6
<1>8. Kept
  <2>1. \A v \in User : row[v].used \in Nat
    BY RowFacts DEF IInv, Types
  <2> QED
    BY <1>2, <2>1 DEF Kept
<1> QED
  BY <1>6, <1>7, <1>8 DEF IInv

\* A handler that answers; new is what it puts in place of its user's row.
LEMMA AnswerInv ==
  ASSUME Parameters, IInv, NEW h \in Handler, pc[h] = "save", Reply(h),
         UNCHANGED <<counter, pass, disabled, serial>>,
         NEW new \in Row, row' = [row EXCEPT ![target[h]] = new],
         new.used \in {snap[h].used, row[target[h]].used}
  PROVE  IInv' /\ (serial => \A u \in User : row'[u].used > row[u].used => row'[u].used = Capped(row[u].used + counter[u]))
<1> DEFINE u == target[h]
<1>1. u \in User /\ snap[h] \in Row
  BY DEF IInv, Types
<1>2. /\ pc' \in [Handler -> {"idle", "save"}] /\ target' \in [Handler -> User \cup {None}]
      /\ snap' \in [Handler -> Row \cup {None}] /\ pc'[h] = "idle"
      /\ \A k \in Handler \ {h} : pc'[k] = pc[k] /\ target'[k] = target[k] /\ snap'[k] = snap[k]
  BY DEF Reply, IInv, Types
<1>3. row' = [row EXCEPT ![u] = new]
  OBVIOUS
<1> HIDE DEF u
<1>4. row' \in [User -> Row] /\ row'[u] = new /\ \A v \in User \ {u} : row'[v] = row[v]
  BY <1>1, <1>3 DEF IInv, Types
<1>5. Types'
  BY <1>2, <1>4 DEF IInv, Types
<1>6. ASSUME serial PROVE AloneInv' /\ FreshInv'
  <2>1. ~Enforcing /\ \A k \in Handler \ {h} : pc[k] = "idle"
    BY <1>6 DEF IInv, AloneInv
  <2>2. \A k \in Handler : pc'[k] = "idle"
    BY <1>2, <2>1
  <2>3. \A v \in User : pass'[v] = None
    BY <2>1 DEF Enforcing
  <2> QED
    BY <2>2, <2>3 DEF AloneInv, FreshInv
<1>7. ASSUME serial, NEW v \in User, row'[v].used > row[v].used
      PROVE  FALSE
  <2>1. snap[h].used <= row[u].used
    BY <1>7 DEF IInv, FreshInv, Fresh, u
  <2>2. row[v].used \in Nat /\ row'[v].used \in Nat
    BY <1>4, RowFacts DEF IInv, Types
  <2>3. v = u
    BY <1>4, <1>7, <2>2
  <2> QED
    BY <1>4, <1>7, <2>1, <2>2, <2>3 DEF u
<1> QED
  BY <1>5, <1>6, <1>7 DEF IInv

LEMMA AnswersInv ==
  ASSUME Parameters, IInv, NEW h \in Handler, Answer(h)
  PROVE  IInv' /\ (serial' => Kept)
<1>1. pc[h] = "save" /\ Reply(h) /\ UNCHANGED <<counter, pass, disabled, serial>>
  BY DEF Answer, UpdateUser, RegenerateCredentials, DeleteUser, enforcer, history
<1>2. target[h] \in User /\ snap[h] \in Row /\ row \in [User -> Row] /\ row[target[h]] \in Row
  BY <1>1 DEF IInv, Types
<1>3. serial => ~row[target[h]].deleted
  BY <1>1 DEF IInv, FreshInv, Fresh
<1>4. PICK new \in Row :
        /\ row' = [row EXCEPT ![target[h]] = new]
        /\ new.used \in {snap[h].used, row[target[h]].used}
        /\ new.deleted \in BOOLEAN
  <2>1. CASE UpdateUser(h)
    <3>1. PICK s \in Updates(snap[h]) : row' = [row EXCEPT ![target[h]] = SavedOver(@, s)]
      BY <2>1 DEF UpdateUser
    <3>2. s \in Row /\ s.used = snap[h].used
      BY <1>2, <3>1, UpdateFacts
    <3> QED
      BY <1>2, <3>1, <3>2, SavedFacts, RowFacts
  <2>2. CASE RegenerateCredentials(h)
    BY <1>2, <2>2, SavedFacts, RowFacts DEF RegenerateCredentials
  <2>3. CASE DeleteUser(h)
    <3>1. row' = [row EXCEPT ![target[h]].deleted = TRUE]
      BY <2>3 DEF DeleteUser
    <3> DEFINE new == [row[target[h]] EXCEPT !.deleted = TRUE]
    <3>2. new \in Row /\ new.used = row[target[h]].used
      BY <1>2 DEF Row
    <3>3. row' = [row EXCEPT ![target[h]] = new]
      BY <3>1
    <3> HIDE DEF new
    <3> QED
      BY <3>2, <3>3, RowFacts
  <2> QED
    BY <2>1, <2>2, <2>3 DEF Answer
<1>5. IInv' /\ (serial => \A u \in User : row'[u].used > row[u].used => row'[u].used = Capped(row[u].used + counter[u]))
  BY <1>1, <1>4, AnswerInv
<1>6. ASSUME serial, NEW u \in User, row[u].deleted PROVE row'[u].deleted
  BY <1>2, <1>3, <1>4, <1>6
<1> QED
  BY <1>1, <1>5, <1>6 DEF Kept

LEMMA CollectInv ==
  ASSUME Parameters, IInv, NEW u \in User, Collect(u)
  PROVE  IInv' /\ Kept
<1> DEFINE used == Capped(row[u].used + Gain(u))
           new  == [row[u] EXCEPT !.used = used]
<1>1. row \in [User -> Row] /\ row[u] \in Row /\ counter[u] \in Nat
  BY DEF IInv, Types
<1>2. row[u].used \in Nat /\ row[u].used <= MaxUsed /\ MaxUsed \in Nat
  BY <1>1, RowFacts, QuotaAssumption
<1>3. Gain(u) \in Nat /\ Gain(u) \in {0, counter[u]}
  BY <1>1 DEF Gain
<1>4. used \in 0..MaxUsed /\ used >= row[u].used
  BY <1>2, <1>3 DEF Capped
<1>5. used > row[u].used => used = Capped(row[u].used + counter[u])
  BY <1>2, <1>3 DEF Capped
<1> HIDE DEF used
<1>6. new \in Row /\ new.used = used /\ new.deleted = row[u].deleted
  BY <1>1, <1>4 DEF Row
<1>7. row' = [row EXCEPT ![u] = new]
  BY DEF Collect, used
<1> HIDE DEF new
<1>8. row' \in [User -> Row] /\ row'[u] = new /\ \A v \in User \ {u} : row'[v] = row[v]
  BY <1>1, <1>6, <1>7
<1>9. UNCHANGED <<pc, target, snap, pass, disabled, counter, serial>>
  BY DEF Collect, handlers, enforcer
<1>10. Types'
  BY <1>8, <1>9 DEF IInv, Types
<1>11. AloneInv => AloneInv'
  BY <1>9 DEF AloneInv, Enforcing
<1>12. \A v \in User : /\ row'[v].deleted = row[v].deleted
                       /\ row[v].used \in Nat /\ row'[v].used \in Nat /\ row[v].used <= row'[v].used
  BY <1>1, <1>4, <1>6, <1>8, RowFacts
<1>13. ASSUME NEW copy \in Row, NEW v \in User, Fresh(copy, v) PROVE Fresh(copy, v)'
  BY <1>12, <1>13, RowFacts DEF Fresh
<1>14. FreshInv => FreshInv'
  BY <1>9, <1>13 DEF FreshInv, IInv, Types
<1>15. Kept
  BY <1>5, <1>6, <1>8, <1>12 DEF Kept
<1> QED
  BY <1>9, <1>10, <1>11, <1>14, <1>15 DEF IInv

\* A pass begins with copies of the rows as they are.
LEMMA CheckInv ==
  ASSUME Parameters, IInv, CheckAndEnforce
  PROVE  IInv' /\ Kept
<1>1. /\ UNCHANGED <<row, pc, target, snap, disabled, counter>> /\ serial' = (serial /\ Quiet)
      /\ pass' = [u \in User |-> IF u \in Limited THEN row[u] ELSE None]
  BY DEF CheckAndEnforce, rows, handlers
<1>2. \A u \in User : row[u] \in Row /\ row[u].used \in Nat
  BY RowFacts DEF IInv, Types
<1>3. pass' \in [User -> Row \cup {None}] /\ serial' \in BOOLEAN
  BY <1>1, <1>2
<1>4. Types'
  BY <1>1, <1>3 DEF IInv, Types
<1>5. ASSUME serial' PROVE AloneInv' /\ FreshInv'
  <2>1. \A h \in Handler : pc'[h] = "idle"
    BY <1>1, <1>5 DEF Quiet
  <2>2. \A u \in User : pass'[u] # None => pass'[u] = row[u] /\ ~row[u].deleted
    BY <1>1 DEF Limited
  <2> QED
    BY <1>1, <1>2, <2>1, <2>2 DEF AloneInv, FreshInv, Fresh
<1>6. Kept
  BY <1>1, <1>2 DEF Kept
<1> QED
  BY <1>4, <1>5, <1>6 DEF IInv

LEMMA EnforceInv ==
  ASSUME Parameters, IInv, NEW u \in User, Enforce(u)
  PROVE  IInv' /\ (serial' => Kept)
<1> DEFINE copy == pass[u]
<1>1. copy \in Row /\ row \in [User -> Row] /\ row[u] \in Row /\ pass \in [User -> Row \cup {None}]
  BY DEF Enforce, IInv, Types
<1>2. /\ pass' = [pass EXCEPT ![u] = None] /\ UNCHANGED <<counter, pc, target, snap, serial>>
      /\ pass[u] # None
  BY DEF Enforce, handlers
<1>3. /\ pass' \in [User -> Row \cup {None}] /\ pass'[u] = None
      /\ \A v \in User \ {u} : pass'[v] = pass[v]
  BY <1>1, <1>2
<1>4. PICK new \in Row :
        /\ row' = [row EXCEPT ![u] = new]
        /\ new = row[u] \/ (~new.deleted /\ new.used = copy.used)
  <2> DEFINE off == [copy EXCEPT !.active = FALSE]
  <2>1. off \in Row /\ off.used = copy.used
    BY <1>1 DEF Row
  <2>2. CASE UNCHANGED row
    BY <1>1, <2>2
  <2>3. CASE row' = [row EXCEPT ![u] = SavedOver(@, off)]
    <3> HIDE DEF off, copy
    <3>1. row' = [row EXCEPT ![u] = SavedOver(row[u], off)]
      BY <1>1, <2>3
    <3> DEFINE saved == SavedOver(row[u], off)
    <3>2. saved \in Row /\ ~saved.deleted /\ saved.used = copy.used
      BY <1>1, <2>1, SavedFacts
    <3> HIDE DEF saved
    <3> QED
      BY <3>1, <3>2 DEF saved
  <2> QED
    BY <2>2, <2>3 DEF Enforce
<1> HIDE DEF copy
<1>5. row' \in [User -> Row] /\ row'[u] = new /\ \A v \in User \ {u} : row'[v] = row[v]
  BY <1>1, <1>4
<1>6. Types'
  BY <1>2, <1>3, <1>5 DEF IInv, Types
<1>7. ASSUME serial PROVE AloneInv' /\ FreshInv' /\ Kept
  <2>1. \A h \in Handler : pc[h] # "save"
    BY <1>2, <1>7 DEF IInv, AloneInv, Enforcing
  <2>2. Fresh(copy, u)
    BY <1>2, <1>7 DEF IInv, FreshInv, copy
  <2>3. AloneInv'
    BY <1>2, <2>1 DEF AloneInv
  <2>4. FreshInv'
    BY <1>2, <1>3, <1>5, <1>7, <2>1 DEF IInv, FreshInv, Fresh
  <2>5. \A v \in User : row[v].used \in Nat /\ row'[v].used \in Nat /\ copy.used \in Nat
    BY <1>1, <1>5, RowFacts
  <2>6. Kept
    BY <1>4, <1>5, <2>2, <2>5 DEF Kept, Fresh
  <2> QED
    BY <2>3, <2>4, <2>6
<1> QED
  BY <1>2, <1>6, <1>7 DEF IInv

\* No copy outlives a reset, so that none brings back what it cleared.
LEMMA ResetInv ==
  ASSUME Parameters, IInv, ResetAllTraffic
  PROVE  IInv' /\ Kept
<1>1. /\ row' = [u \in User |-> [row[u] EXCEPT !.used = 0]] /\ serial' = (serial /\ Quiet)
      /\ UNCHANGED <<pc, target, snap, pass, disabled, counter>>
  BY DEF ResetAllTraffic, handlers, enforcer
<1>2. \A r \in Row : /\ [r EXCEPT !.used = 0] \in Row
                     /\ [r EXCEPT !.used = 0].used = 0 /\ [r EXCEPT !.used = 0].deleted = r.deleted
  BY QuotaAssumption DEF Row
<1>3. \A u \in User : row[u] \in Row /\ row[u].used \in Nat
  BY RowFacts DEF IInv, Types
<1>4. row' \in [User -> Row] /\ \A u \in User : row'[u].used = 0 /\ row'[u].deleted = row[u].deleted
  BY <1>1, <1>2, <1>3
<1>5. Types'
  BY <1>1, <1>4 DEF IInv, Types
<1>6. ASSUME serial' PROVE AloneInv' /\ FreshInv'
  <2>1. (\A h \in Handler : pc'[h] = "idle") /\ \A u \in User : pass'[u] = None
    BY <1>1, <1>6 DEF Quiet, Enforcing
  <2> QED
    BY <2>1 DEF AloneInv, FreshInv
<1>7. Kept
  BY <1>3, <1>4 DEF Kept
<1> QED
  BY <1>5, <1>6, <1>7 DEF IInv

LEMMA NextInv == Parameters /\ IInv /\ [Next]_vars => IInv' /\ (serial' => Kept)
<1> SUFFICES ASSUME Parameters, IInv, [Next]_vars PROVE IInv' /\ (serial' => Kept)
  OBVIOUS
<1> QED
  BY ReadInv, AnswersInv, CoreInv, CollectInv, CheckInv, EnforceInv, ResetInv DEF Next, EnforceNext

LEMMA InitInv == Parameters /\ Init => IInv
<1> SUFFICES ASSUME Parameters, Init PROVE IInv
  OBVIOUS
<1>1. PICK l \in Limits, n \in InitUsed :
        row = [u \in User |-> [active |-> TRUE, limit |-> l, used |-> n, deleted |-> FALSE]]
  BY DEF Init
<1>2. [active |-> TRUE, limit |-> l, used |-> n, deleted |-> FALSE] \in Row
  BY QuotaAssumption DEF Row
<1>3. row \in [User -> Row]
  BY <1>1, <1>2
<1>4. /\ pc \in [Handler -> {"idle", "save"}] /\ target \in [Handler -> User \cup {None}]
      /\ snap \in [Handler -> Row \cup {None}] /\ pass \in [User -> Row \cup {None}]
      /\ counter \in [User -> Nat] /\ \A h \in Handler : pc[h] = "idle"
  BY DEF Init
<1>5. serial \in BOOLEAN /\ \A u \in User : pass[u] = None
  BY DEF Init
<1> QED
  BY <1>3, <1>4, <1>5 DEF IInv, Types, AloneInv, FreshInv

-----------------------------------------------------------------------------
\* While requests, passes and resets come one at a time, a user that was deleted
\* stays deleted: no request and no pass saves the copy of a row that is gone.
THEOREM DeletedForGood ==
  ASSUME Parameters
  PROVE  Spec => DeletedStaysDeleted
<1>1. Init => IInv
  BY InitInv
<1>2. IInv /\ [Next]_vars => IInv'
  BY NextInv
<1>3. IInv /\ [Next]_vars => [serial' => \A u \in User : row[u].deleted => row'[u].deleted]_vars
  BY NextInv DEF Kept
<1> QED
  BY <1>1, <1>2, <1>3, PTL DEF Spec, DeletedStaysDeleted

\* ... and a counter that a reset has cleared grows again only by what the core
\* counts: no stale copy puts the old value back.
THEOREM CountersAreTraffic ==
  ASSUME Parameters
  PROVE  Spec => OnlyTrafficCounts
<1>1. Init => IInv
  BY InitInv
<1>2. IInv /\ [Next]_vars => IInv'
  BY NextInv
<1>3. IInv /\ [Next]_vars =>
        [serial' => \A u \in User :
           row'[u].used > row[u].used => row'[u].used = Capped(row[u].used + counter[u])]_vars
  BY NextInv DEF Kept
<1> QED
  BY <1>1, <1>2, <1>3, PTL DEF Spec, OnlyTrafficCounts
==================================================================================
