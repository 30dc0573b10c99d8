----------------------- MODULE Notifications_proofs -----------------------
(***************************************************************************)
(* Proofs about Notifications for any number of notifications and retries, *)
(* any capacity of the channel and any channels: the variables have their  *)
(* types, a pending notification has a job on its way, and a channel takes *)
(* none twice unless ticks overtake the workers.                           *)
(*                                                                         *)
(* A job passes from the sender to the queue, to the worker and into the   *)
(* table.  That the pending ones are never lost on the way is not          *)
(* inductive: the worker saves the row its job carries over whatever the   *)
(* table holds, so that row must not be pending any more by then           *)
(* (WorkerInv).  That none is delivered twice rests on there being one job *)
(* of it at a time, wherever it is (OneJob), and on a job or a failed row  *)
(* meaning that no channel has taken it yet (NotYet).                      *)
(***************************************************************************)
EXTENDS Notifications, FiniteSetTheorems, TLAPS

\* The worker that is at work has a job, and saves none that is pending.
WorkerInv ==
  /\ worker \in {"count", "find", "erase", "send", "save"} => job \in Job
  /\ worker = "save" => job.row.status # "pending"

IInv == TypeOK /\ WorkerInv /\ PendingHasJob

-----------------------------------------------------------------------------
(* Types.                                                                  *)

\* There are no more rows than notifications.
LEMMA RowsFinite == IsFiniteSet(Rows) /\ Cardinality(Rows) \in 0..MaxNotes
<1>1. IsFiniteSet(Note) /\ Cardinality(Note) = MaxNotes
  BY NotificationsAssumption, FS_Interval DEF Note
<1>2. IsFiniteSet(Rows) /\ Cardinality(Rows) <= Cardinality(Note)
  BY <1>1, FS_Subset DEF Rows
<1>3. Cardinality(Rows) \in Nat
  BY <1>2, FS_CardinalityType
<1> QED
  BY <1>1, <1>2, <1>3, NotificationsAssumption

\* What the channel and the retry worker do to a sequence of jobs.
LEMMA QueueType ==
  ASSUME NEW s \in Seq(Job)
  PROVE  /\ \A e \in Job : Append(s, e) \in Seq(Job) /\ Len(Append(s, e)) = Len(s) + 1
         /\ s # <<>> => /\ Head(s) \in Job /\ Tail(s) \in Seq(Job)
                        /\ Len(Tail(s)) = Len(s) - 1
OBVIOUS

LEMMA RowTypes ==
  /\ NewRow \in Row
  /\ \A row \in Row : Sent(row) \in Row /\ Failed(row) \in Row
  /\ \A row \in Row : [row EXCEPT !.due = "now"] \in Row
<1>1. NewRow \in Row
  BY NotificationsAssumption DEF NewRow, Row
<1>2. ASSUME NEW row \in Row PROVE Sent(row) \in Row /\ [row EXCEPT !.due = "now"] \in Row
  BY DEF Sent, Row
<1>3. ASSUME NEW row \in Row PROVE Failed(row) \in Row
  BY NotificationsAssumption DEF Failed, Row
<1> QED
  BY <1>1, <1>2, <1>3

LEMMA InitType == Init => TypeOK
<1> SUFFICES ASSUME Init PROVE TypeOK
  OBVIOUS
<1>1. <<>> \in Seq(Job) /\ Len(<<>>) <= Cap
  BY NotificationsAssumption
<1>2. created \in 0..MaxNotes /\ restarts \in 0..MaxRestarts /\ surplus \in 0..MaxNotes
  BY NotificationsAssumption DEF Init
<1>3. table \in [Note -> Row \cup {Absent}] /\ accepted \in [Note -> 0..2]
  BY DEF Init
<1>4. reached \in [Note -> SUBSET Channel]
  BY DEF Init
<1> QED
  BY <1>1, <1>2, <1>3, <1>4 DEF Init, TypeOK

\* The senders.
LEMMA SendType ==
  ASSUME TypeOK, Create \/ \E n \in Note : Enqueue(n)
  PROVE  TypeOK'
<1>1. CASE Create
  <2>1. created' \in Note /\ created' \in 0..MaxNotes
    BY <1>1, NotificationsAssumption DEF TypeOK, Create, Note
  <2>2. table' \in [Note -> Row \cup {Absent}]
    BY <1>1, <2>1, RowTypes DEF TypeOK, Create
  <2> QED
    BY <1>1, <2>1, <2>2 DEF TypeOK, Create, options, work, run, history
<1>2. ASSUME NEW n \in Note, Enqueue(n) PROVE TypeOK'
  <2> DEFINE new == [id |-> n, row |-> NewRow, cleanup |-> TRUE]
  <2>1. new \in Job
    BY RowTypes DEF Job
  <2>a. (Len(queue) < Cap /\ queue' = Append(queue, new)) \/ UNCHANGED queue
    BY <1>2 DEF Enqueue
  <2> HIDE DEF new
  <2>2. queue' \in Seq(Job) /\ Len(queue') <= Cap
    BY <2>1, <2>a, QueueType, NotificationsAssumption DEF TypeOK
  <2> QED
    BY <1>2, <2>2 DEF TypeOK, Enqueue, store, options, work, run
<1> QED
  BY <1>1, <1>2

\* The worker, which has a job when it is at work.
LEMMA WorkerType ==
  ASSUME TypeOK, WorkerInv, Worker
  PROVE  TypeOK'
<1>1. CASE Take
  <2>1. job' \in Job /\ queue' \in Seq(Job) /\ Len(queue') <= Cap
    BY <1>1, QueueType, NotificationsAssumption DEF TypeOK, Take
  <2> QED
    BY <1>1, <2>1 DEF TypeOK, Take, store, options, run, history
<1>2. CASE CleanupCount
  <2>1. surplus' \in 0..MaxNotes
    BY <1>2, RowsFinite, NotificationsAssumption DEF TypeOK, CleanupCount
  <2> QED
    BY <1>2, <2>1 DEF TypeOK, CleanupCount, store, options, run, history
<1>3. CASE CleanupFind
  <2>1. doomed' \subseteq Note /\ surplus' \in 0..MaxNotes
    BY <1>3, NotificationsAssumption DEF TypeOK, CleanupFind, Oldest, Rows
  <2> QED
    BY <1>3, <2>1 DEF TypeOK, CleanupFind, store, options, run, history
<1>4. CASE CleanupErase
  <2>1. table' \in [Note -> Row \cup {Absent}]
    BY <1>4 DEF TypeOK, CleanupErase
  <2> QED
    BY <1>4, <2>1 DEF TypeOK, CleanupErase, options, run, history
<1>5. CASE Attempt
  <2>1. job \in Job
    BY <1>5 DEF WorkerInv, Attempt
  <2>2. job.row \in Row /\ job.id \in Note
    BY <2>1 DEF Job
  <2>3. [job EXCEPT !.row = Sent(@)] \in Job /\ [job EXCEPT !.row = Failed(@)] \in Job
    BY <2>1, <2>2, RowTypes DEF Job
  <2>4. job' \in Job
    BY <1>5, <2>3 DEF Attempt
  <2>5. accepted' \in [Note -> 0..2]
    BY <1>5, <2>2 DEF TypeOK, Attempt
  <2>6. reached' \in [Note -> SUBSET Channel]
    BY <1>5, <2>2 DEF TypeOK, Attempt, Live
  <2> QED
    BY <1>5, <2>4, <2>5, <2>6 DEF TypeOK, Attempt, store, options, run
<1>6. CASE SaveNotification
  <2>1. job.row \in Row
    BY <1>6 DEF WorkerInv, SaveNotification, Job
  <2>2. table' \in [Note -> Row \cup {Absent}]
    BY <1>6, <2>1 DEF TypeOK, SaveNotification
  <2> QED
    BY <1>6, <2>2 DEF TypeOK, SaveNotification, options, run, history
<1>7. CASE WorkerStops
  BY <1>7 DEF TypeOK, WorkerStops, store, options, run, history
<1> QED
  BY <1>1, <1>2, <1>3, <1>4, <1>5, <1>6, <1>7 DEF Worker

\* The retry worker reads the rows that are due in some order.
LEMMA RetryType ==
  ASSUME TypeOK, RetryTick \/ RetryPush
  PROVE  TypeOK'
<1>1. CASE RetryTick
  <2>1. PICK due \in SetToSeqs({n \in Note : IsDue(n)}) :
          retry' = [k \in DOMAIN due |-> RetryJob(due[k])]
    BY <1>1 DEF RetryTick
  <2>2. Cardinality({n \in Note : IsDue(n)}) \in Nat
    <3>1. {n \in Note : IsDue(n)} \subseteq Rows
      BY DEF IsDue, Rows
    <3> QED
      BY <3>1, RowsFinite, FS_Subset, FS_CardinalityType
  <2>3. due \in [1..Cardinality({n \in Note : IsDue(n)}) -> {n \in Note : IsDue(n)}]
    BY <2>1 DEF SetToSeqs
  <2>4. \A n \in Note : IsDue(n) => RetryJob(n) \in Job
    BY DEF TypeOK, IsDue, RetryJob, Job
  <2>5. retry' \in Seq(Job)
    BY <2>1, <2>2, <2>3, <2>4
  <2> QED
    BY <1>1, <2>5 DEF TypeOK, RetryTick, store, options, work, run
<1>2. CASE RetryPush
  <2>1. retry' \in Seq(Job) /\ Head(retry) \in Job
    BY <1>2, QueueType DEF TypeOK, RetryPush
  <2>2. queue' \in Seq(Job) /\ Len(queue') <= Cap
    BY <1>2, <2>1, QueueType, NotificationsAssumption DEF TypeOK, RetryPush
  <2> QED
    BY <1>2, <2>1, <2>2 DEF TypeOK, RetryPush, store, options, work, run, history
<1> QED
  BY <1>1, <1>2

\* Time, the API, the end of the process and its restart.
LEMMA OtherType ==
  ASSUME TypeOK, (\E n \in Note : TimePasses(n)) \/ Handle \/ Stop \/ Restart \/ UNCHANGED vars
  PROVE  TypeOK'
<1>1. ASSUME NEW n \in Note, TimePasses(n) PROVE TypeOK'
  <2>1. [table[n] EXCEPT !.due = "now"] \in Row
    BY <1>1, RowTypes DEF TypeOK, TimePasses
  <2>2. table' = [table EXCEPT ![n] = [table[n] EXCEPT !.due = "now"]]
    BY <1>1 DEF TimePasses
  <2>3. table' \in [Note -> Row \cup {Absent}]
    BY <2>1, <2>2 DEF TypeOK
  <2> QED
    BY <1>1, <2>3 DEF TypeOK, TimePasses, options, work, run, history
<1>2. CASE Handle
  BY <1>2 DEF TypeOK, Handle, UpdateSettings, DeleteNotification, store, options, work, run, history
<1>3. CASE Stop
  <2>1. <<>> \in Seq(Job)
    OBVIOUS
  <2> QED
    BY <1>3, <2>1 DEF TypeOK, Stop, store, options, work, history
<1>4. CASE Restart
  <2>1. <<>> \in Seq(Job) /\ Len(<<>>) <= Cap
    BY NotificationsAssumption
  <2>2. lost' \subseteq Note
    BY <1>4 DEF TypeOK, Restart, Rows
  <2>3. surplus' \in 0..MaxNotes /\ restarts' \in 0..MaxRestarts
    BY <1>4, NotificationsAssumption DEF TypeOK, Restart
  <2> QED
    BY <1>4, <2>1, <2>2, <2>3 DEF TypeOK, Restart, store
<1>5. CASE UNCHANGED vars
  BY <1>5 DEF TypeOK, vars
<1> QED
  BY <1>1, <1>2, <1>3, <1>4, <1>5

LEMMA NextType == TypeOK /\ WorkerInv /\ [Next]_vars => TypeOK'
BY SendType, WorkerType, RetryType, OtherType DEF Next

-----------------------------------------------------------------------------
(* The worker.                                                             *)

\* What a channel answers, the row is not pending any more.
LEMMA Outcome == \A row \in Row : Sent(row).status # "pending" /\ Failed(row).status # "pending"
BY DEF Sent, Failed, Row

LEMMA NextWorkerInv == TypeOK /\ WorkerInv /\ [Next]_vars => WorkerInv'
<1> SUFFICES ASSUME TypeOK, WorkerInv, [Next]_vars PROVE WorkerInv'
  OBVIOUS
<1>1. CASE Take
  BY <1>1, QueueType DEF TypeOK, WorkerInv, Take
<1>2. CASE CleanupCount \/ CleanupFind \/ CleanupErase
  BY <1>2 DEF WorkerInv, CleanupCount, CleanupFind, CleanupErase
<1>3. CASE Attempt
  <2>1. job \in Job
    BY <1>3 DEF WorkerInv, Attempt
  <2>2. job.row \in Row
    BY <2>1 DEF Job
  <2>3. \A row \in Row : [job EXCEPT !.row = row] \in Job /\ [job EXCEPT !.row = row].row = row
    BY <2>1 DEF Job
  <2>4. job' = [job EXCEPT !.row = Sent(job.row)] \/ job' = [job EXCEPT !.row = Failed(job.row)]
    BY <1>3 DEF Attempt
  <2>5. job' \in Job /\ job'.row.status # "pending"
    BY <2>2, <2>3, <2>4, RowTypes, Outcome
  <2> QED
    BY <1>3, <2>5 DEF WorkerInv, Attempt
<1>4. CASE SaveNotification \/ WorkerStops \/ Restart
  BY <1>4 DEF WorkerInv, SaveNotification, WorkerStops, Restart
<1>5. CASE UNCHANGED <<worker, job>>
  BY <1>5 DEF WorkerInv
<1>6. CASE Create \/ (\E n \in Note : Enqueue(n)) \/ RetryTick \/ RetryPush \/ Stop
  BY <1>5, <1>6 DEF Create, Enqueue, RetryTick, RetryPush, Stop, work
<1>7. CASE (\E n \in Note : TimePasses(n)) \/ Handle \/ UNCHANGED vars
  BY <1>5, <1>7 DEF TimePasses, Handle, UpdateSettings, DeleteNotification, work, vars
<1> QED
  BY <1>1, <1>2, <1>3, <1>4, <1>6, <1>7 DEF Next, Worker

-----------------------------------------------------------------------------
(* Pending rows.                                                           *)

Pending(n) == table[n] # Absent /\ table[n].status = "pending"

Underway(n) == n \in sending \/ n \in Queued \/ Busy(n) \/ n \in lost

LEMMA PendingUnderway == PendingHasJob <=> \A n \in Note : Pending(n) => Underway(n)
BY DEF PendingHasJob, Pending, Underway, Rows

\* A row is pending only since it was created: nothing makes one pending again.
LEMMA PendingIsOld ==
  ASSUME TypeOK, WorkerInv, [Next]_vars, NEW n \in Note, Pending(n)'
  PROVE  Pending(n) \/ (Create /\ n \in sending')
<1>1. CASE UNCHANGED table
  BY <1>1 DEF Pending
<1>2. CASE Create
  BY <1>2, NotificationsAssumption DEF TypeOK, Create, Pending, Note
<1>3. CASE CleanupErase
  BY <1>3, NoneAssumption DEF TypeOK, CleanupErase, Pending
<1>4. CASE SaveNotification
  <2>1. job \in Job /\ job.row.status # "pending"
    BY <1>4 DEF WorkerInv, SaveNotification
  <2>2. table' = [table EXCEPT ![job.id] = job.row]
    BY <1>4 DEF SaveNotification
  <2> QED
    BY <2>1, <2>2 DEF TypeOK, Pending
<1>5. ASSUME NEW m \in Note, TimePasses(m) PROVE Pending(n)
  <2>1. table[m] \in Row /\ table' = [table EXCEPT ![m] = [table[m] EXCEPT !.due = "now"]]
    BY <1>5 DEF TypeOK, TimePasses
  <2>2. table[m] # Absent
    BY <2>1, NoneAssumption
  <2>3. [table[m] EXCEPT !.due = "now"].status = table[m].status
    BY <2>1 DEF Row
  <2> QED
    BY <2>1, <2>2, <2>3 DEF TypeOK, Pending
<1>6. ASSUME NEW m \in Note, DeleteNotification(m) PROVE Pending(n)
  BY <1>6 DEF TypeOK, DeleteNotification, Pending
<1>7. CASE (\E m \in Note : Enqueue(m)) \/ RetryTick \/ RetryPush \/ Stop \/ Restart
           \/ UpdateSettings \/ UNCHANGED vars
  BY <1>1, <1>7 DEF Enqueue, RetryTick, RetryPush, Stop, Restart, UpdateSettings, store, vars
<1>8. CASE Take \/ CleanupCount \/ CleanupFind \/ Attempt \/ WorkerStops
  BY <1>1, <1>8 DEF Take, CleanupCount, CleanupFind, Attempt, WorkerStops, store
<1> QED
  BY <1>2, <1>3, <1>4, <1>5, <1>6, <1>7, <1>8 DEF Next, Worker, Handle

\* What an appended job adds to, and the first one takes from, who is queued.
LEMMA QueueHolds ==
  ASSUME NEW s \in Seq(Job)
  PROVE  /\ \A e \in Job : /\ \A k \in DOMAIN s : k \in DOMAIN Append(s, e) /\ Append(s, e)[k] = s[k]
                         /\ Len(s) + 1 \in DOMAIN Append(s, e) /\ Append(s, e)[Len(s) + 1] = e
         /\ s # <<>> => \A k \in DOMAIN s : s[k] = Head(s) \/ \E j \in DOMAIN Tail(s) : Tail(s)[j] = s[k]
<1>1. ASSUME NEW e \in Job
      PROVE  /\ \A k \in DOMAIN s : k \in DOMAIN Append(s, e) /\ Append(s, e)[k] = s[k]
             /\ Len(s) + 1 \in DOMAIN Append(s, e) /\ Append(s, e)[Len(s) + 1] = e
  OBVIOUS
<1>2. ASSUME s # <<>>, NEW k \in DOMAIN s, k # 1
      PROVE  k - 1 \in DOMAIN Tail(s) /\ Tail(s)[k - 1] = s[k]
  BY <1>2
<1>3. s # <<>> => Head(s) = s[1]
  OBVIOUS
<1> QED
  BY <1>1, <1>2, <1>3

\* A job stays on its way until its row is saved.
LEMMA UnderwayStays ==
  ASSUME TypeOK, WorkerInv, [Next]_vars, NEW n \in Note, Pending(n), Underway(n), Pending(n)'
  PROVE  Underway(n)'
<1>1. CASE UNCHANGED <<sending, queue, worker, job, lost>>
  BY <1>1 DEF Underway, Queued, Busy
<1>2. CASE Create
  BY <1>2 DEF Create, Underway, Queued, Busy, work, history
<1>3. ASSUME NEW m \in Note, Enqueue(m) PROVE Underway(n)'
  <2> DEFINE new == [id |-> m, row |-> NewRow, cleanup |-> TRUE]
  <2>1. new \in Job /\ new.id = m
    BY RowTypes DEF Job
  <2>2. \/ queue' = Append(queue, new) /\ UNCHANGED lost
        \/ UNCHANGED queue /\ lost' = lost \cup {m}
    BY <1>3 DEF Enqueue
  <2>3. sending' = sending \ {m} /\ UNCHANGED work
    BY <1>3 DEF Enqueue
  <2> HIDE DEF new
  <2>4. queue \in Seq(Job)
    BY DEF TypeOK
  <2>5. CASE UNCHANGED queue /\ lost' = lost \cup {m}
    BY <2>3, <2>5 DEF Underway, Queued, Busy, work
  <2>6. CASE queue' = Append(queue, new) /\ UNCHANGED lost
    <3>1. Queued \cup {m} \subseteq Queued'
      BY <2>1, <2>4, <2>6, QueueHolds DEF Queued
    <3> QED
      BY <2>3, <2>6, <3>1 DEF Underway, Busy, work
  <2> QED
    BY <2>2, <2>5, <2>6
<1>4. CASE Take
  <2>1. queue \in Seq(Job) /\ queue # <<>> /\ job' = Head(queue) /\ queue' = Tail(queue)
        /\ worker' # "select" /\ UNCHANGED <<sending, lost>> /\ worker = "select"
    BY <1>4 DEF TypeOK, Take, history
  <2>2. job' \in Job /\ job' # NoJob
    BY <2>1, QueueType, NoneAssumption
  <2>3. n \in Queued => n \in Queued' \/ Busy(n)'
    BY <2>1, <2>2, QueueHolds DEF Queued, Busy
  <2> QED
    BY <2>1, <2>3 DEF Underway, Busy
<1>5. CASE CleanupCount \/ CleanupFind \/ CleanupErase
  <2>1. UNCHANGED <<sending, queue, job, lost>> /\ worker' # "select"
    BY <1>5 DEF CleanupCount, CleanupFind, CleanupErase, history
  <2> QED
    BY <2>1 DEF Underway, Queued, Busy
<1>6. CASE Attempt
  <2>1. job \in Job
    BY <1>6 DEF WorkerInv, Attempt
  <2>2. job' = [job EXCEPT !.row = Sent(job.row)] \/ job' = [job EXCEPT !.row = Failed(job.row)]
    BY <1>6 DEF Attempt
  <2>3. job' \in Job /\ job'.id = job.id
    BY <2>1, <2>2, RowTypes DEF Job
  <2>4. job' # NoJob
    BY <2>3, NoneAssumption
  <2>5. UNCHANGED <<sending, queue, lost>> /\ worker' # "select"
    BY <1>6 DEF Attempt
  <2> QED
    BY <2>3, <2>4, <2>5 DEF Underway, Queued, Busy
<1>7. CASE SaveNotification
  <2>1. job \in Job /\ job.row.status # "pending" /\ table' = [table EXCEPT ![job.id] = job.row]
    BY <1>7 DEF WorkerInv, SaveNotification
  <2>2. job.id # n
    BY <2>1 DEF TypeOK, Pending
  <2> QED
    BY <1>7, <2>2 DEF SaveNotification, Underway, Queued, Busy, history
<1>8. CASE WorkerStops
  BY <1>8 DEF WorkerStops, Underway, Queued, Busy, history
<1>9. CASE RetryTick \/ Stop \/ UNCHANGED vars \/ Handle \/ \E m \in Note : TimePasses(m)
  BY <1>1, <1>9 DEF RetryTick, Stop, vars, Handle, UpdateSettings, DeleteNotification, TimePasses,
                    work, history
<1>10. CASE RetryPush
  <2>1. queue \in Seq(Job) /\ Head(retry) \in Job
    BY <1>10, QueueType DEF TypeOK, RetryPush
  <2>2. queue' = Append(queue, Head(retry)) \/ UNCHANGED queue
    BY <1>10 DEF RetryPush
  <2>3. Queued \subseteq Queued'
    BY <2>1, <2>2, QueueHolds DEF Queued
  <2> QED
    BY <1>10, <2>3 DEF RetryPush, Underway, Busy, work, history
<1>11. CASE Restart
  BY <1>11 DEF Restart, Underway, Pending, Rows
<1> QED
  BY <1>2, <1>3, <1>4, <1>5, <1>6, <1>7, <1>8, <1>9, <1>10, <1>11 DEF Next, Worker

LEMMA NextPending == TypeOK /\ WorkerInv /\ PendingHasJob /\ [Next]_vars => PendingHasJob'
<1> SUFFICES ASSUME TypeOK, WorkerInv, PendingHasJob, [Next]_vars, NEW n \in Note, Pending(n)'
             PROVE  Underway(n)'
  BY DEF PendingHasJob, Pending, Underway, Rows
<1>1. CASE Pending(n)
  BY <1>1, PendingUnderway, UnderwayStays
<1>2. CASE n \in sending'
  BY <1>2 DEF Underway
<1> QED
  BY <1>1, <1>2, PendingIsOld

-----------------------------------------------------------------------------
(* One job of a notification at a time.                                    *)

Has(s, n) == \E k \in DOMAIN s : s[k].id = n

Twice(s, n) == \E j, k \in DOMAIN s : j # k /\ s[j].id = n /\ s[k].id = n

Holds(n) == worker \in {"count", "find", "erase", "send", "save"} /\ job.id = n

FailedRow(n) == table[n] # Absent /\ table[n].status = "failed"

OneJob(n) ==
  /\ n \in sending => ~Holds(n) /\ ~Has(queue, n) /\ ~Has(retry, n)
  /\ Holds(n) => ~Has(queue, n) /\ ~Has(retry, n)
  /\ Has(queue, n) => ~Has(retry, n)
  /\ ~Twice(queue, n) /\ ~Twice(retry, n)

\* Who has a job or a failed row has not been taken by a channel, except while
\* the worker is about to save that it has.
NotYet(n) ==
  /\ accepted[n] \in 0..1
  /\ n \in sending \/ Has(queue, n) \/ Has(retry, n) => accepted[n] = 0
  /\ Holds(n) => accepted[n] = 0 \/ (worker = "save" /\ job.row.status = "sent")
  /\ FailedRow(n) => accepted[n] = 0 \/ Holds(n)

\* A notification that was not created yet.
Unborn(n) ==
  /\ n \notin sending /\ ~Holds(n) /\ ~Has(queue, n) /\ ~Has(retry, n)
  /\ accepted[n] = 0 /\ table[n] = Absent

OnceInv ==
  \A n \in Note : /\ n > created => Unborn(n)
                  /\ rushed \/ n \in lost \/ (OneJob(n) /\ NotYet(n))

LEMMA Joins ==
  ASSUME NEW s \in Seq(Job), NEW e \in Job, NEW n
  PROVE  /\ Has(Append(s, e), n) <=> e.id = n \/ Has(s, n)
         /\ Twice(Append(s, e), n) => Twice(s, n) \/ (e.id = n /\ Has(s, n))
<1>1. /\ Len(s) \in Nat /\ DOMAIN s = 1..Len(s) /\ DOMAIN Append(s, e) = 1..(Len(s) + 1)
      /\ Append(s, e)[Len(s) + 1] = e /\ \A k \in 1..Len(s) : Append(s, e)[k] = s[k]
  OBVIOUS
<1>2. \A k \in 1..(Len(s) + 1) : k \in 1..Len(s) \/ k = Len(s) + 1
  BY <1>1
<1> DEFINE m == Len(s)  t == Append(s, e)
<1> HIDE DEF m, t
<1>3. /\ DOMAIN s = 1..m /\ DOMAIN t = 1..(m + 1) /\ m + 1 \in 1..(m + 1) /\ 1..m \subseteq 1..(m + 1)
      /\ t[m + 1] = e /\ (\A k \in 1..m : t[k] = s[k]) /\ \A k \in 1..(m + 1) : k \in 1..m \/ k = m + 1
  BY <1>1, <1>2 DEF m, t
<1>4. Has(t, n) <=> e.id = n \/ Has(s, n)
  BY <1>3 DEF Has
<1>5. Twice(t, n) => Twice(s, n) \/ (e.id = n /\ Has(s, n))
  BY <1>3 DEF Has, Twice
<1> QED
  BY <1>4, <1>5 DEF t

LEMMA Leaves ==
  ASSUME NEW s \in Seq(Job), s # <<>>, NEW n
  PROVE  /\ Has(s, Head(s).id)
         /\ Has(Tail(s), n) => Has(s, n)
         /\ Twice(Tail(s), n) => Twice(s, n)
         /\ Has(Tail(s), n) /\ Head(s).id = n => Twice(s, n)
<1>1. /\ Len(s) \in Nat /\ Len(s) >= 1 /\ DOMAIN s = 1..Len(s) /\ Head(s) = s[1]
      /\ DOMAIN Tail(s) = 1..(Len(s) - 1)
      /\ \A k \in 1..(Len(s) - 1) : Tail(s)[k] = s[k + 1]
  OBVIOUS
<1>2. \A k \in DOMAIN Tail(s) : k + 1 \in DOMAIN s /\ Tail(s)[k] = s[k + 1] /\ k + 1 # 1 /\ k \in Int
  BY <1>1
<1>3. 1 \in DOMAIN s
  BY <1>1
<1>4. \A j, k \in DOMAIN Tail(s) : j # k => j + 1 # k + 1
  BY <1>2
<1> DEFINE t == Tail(s)  h == Head(s)
<1> HIDE DEF t, h
<1>5. /\ \A k \in DOMAIN t : k + 1 \in DOMAIN s /\ t[k] = s[k + 1] /\ k + 1 # 1
      /\ \A j, k \in DOMAIN t : j # k => j + 1 # k + 1
      /\ h = s[1]
  BY <1>1, <1>2, <1>4 DEF t, h
<1>6. Has(s, h.id) /\ (Has(t, n) => Has(s, n)) /\ (Has(t, n) /\ h.id = n => Twice(s, n))
  BY <1>3, <1>5 DEF Has, Twice
<1>7. Twice(t, n) => Twice(s, n)
  BY <1>5 DEF Twice
<1> QED
  BY <1>6, <1>7 DEF t, h

LEMMA InitOnce == Init => OnceInv
<1> SUFFICES ASSUME Init, NEW n \in Note PROVE Unborn(n) /\ OneJob(n) /\ NotYet(n)
  BY DEF OnceInv
<1>1. ~Has(queue, n) /\ ~Has(retry, n) /\ ~Twice(queue, n) /\ ~Twice(retry, n)
  BY DEF Init, Has, Twice
<1>2. accepted[n] = 0 /\ table[n] = Absent /\ ~Holds(n) /\ n \notin sending /\ ~FailedRow(n)
  BY DEF Init, Holds, FailedRow
<1> QED
  BY <1>1, <1>2 DEF Unborn, OneJob, NotYet

\* What a step leaves of the jobs of n.
SameJobs(n) ==
  /\ n \in sending' => n \in sending
  /\ Has(queue', n) => Has(queue, n)
  /\ Has(retry', n) => Has(retry, n)
  /\ Twice(queue', n) => Twice(queue, n)
  /\ Twice(retry', n) => Twice(retry, n)

\* A step that gives n no job and does not touch the worker's.
LEMMA Apart ==
  ASSUME OnceInv, NEW n \in Note, SameJobs(n), UNCHANGED <<worker, job, accepted>>,
         FailedRow(n)' => FailedRow(n), n > created' => n > created,
         table[n] = Absent => table'[n] = Absent,
         rushed => rushed', lost \subseteq lost'
  PROVE  (n > created' => Unborn(n)') /\ (rushed' \/ n \in lost' \/ (OneJob(n)' /\ NotYet(n)'))
<1>1. Holds(n)' <=> Holds(n)
  BY DEF Holds
<1>2. n > created' => Unborn(n)'
  BY <1>1 DEF OnceInv, Unborn, SameJobs
<1>3. rushed' \/ n \in lost' \/ OneJob(n)'
  BY <1>1 DEF OnceInv, OneJob, SameJobs
<1>4. rushed' \/ n \in lost' \/ NotYet(n)'
  BY <1>1 DEF OnceInv, NotYet, SameJobs
<1> QED
  BY <1>2, <1>3, <1>4

OnceNext(n) == /\ n > created' => Unborn(n)'
               /\ rushed' \/ n \in lost' \/ (OneJob(n)' /\ NotYet(n)')

\* The senders.
LEMMA OnceSend ==
  ASSUME TypeOK, OnceInv, NEW n \in Note, Create \/ \E m \in Note : Enqueue(m)
  PROVE  OnceNext(n)
<1>1. CASE Create
  <2>1. /\ created' = created + 1 /\ created' \in Note /\ sending' = sending \cup {created'}
        /\ created \in Nat /\ n \in Nat
        /\ UNCHANGED <<queue, worker, job, retry, accepted, lost, rushed>>
        /\ table' = [table EXCEPT ![created'] = NewRow]
    BY <1>1, NotificationsAssumption DEF Create, TypeOK, Note, work, history
  <2>2. FailedRow(n)' => FailedRow(n)
    BY <2>1, RowTypes DEF TypeOK, FailedRow, NewRow
  <2>3. (n > created' => n > created) /\ (n = created' => n > created)
    BY <2>1
  <2>4. CASE n # created'
    <3>1. SameJobs(n) /\ table'[n] = table[n]
      BY <2>1, <2>4 DEF TypeOK, SameJobs
    <3> QED
      BY <2>1, <2>2, <2>3, <3>1, Apart DEF OnceNext
  <2>5. CASE n = created'
    <3>1. Unborn(n) /\ ~(n > created')
      BY <2>1, <2>3, <2>5 DEF OnceInv
    <3>2. rushed' \/ n \in lost' \/ (~Twice(queue, n) /\ ~Twice(retry, n))
      BY <2>1 DEF OnceInv, OneJob
    <3>3. /\ ~Holds(n)' /\ ~Has(queue', n) /\ ~Has(retry', n) /\ accepted'[n] = 0
          /\ Twice(queue', n) = Twice(queue, n) /\ Twice(retry', n) = Twice(retry, n)
      BY <2>1, <3>1 DEF Unborn, Holds
    <3> QED
      BY <3>1, <3>2, <3>3 DEF OnceNext, OneJob, NotYet
  <2> QED
    BY <2>4, <2>5
<1>2. ASSUME NEW m \in Note, Enqueue(m) PROVE OnceNext(n)
  <2> DEFINE new == [id |-> m, row |-> NewRow, cleanup |-> TRUE]
  <2>1. new \in Job /\ new.id = m
    BY RowTypes DEF Job
  <2>2. \/ queue' = Append(queue, new) /\ UNCHANGED lost
        \/ UNCHANGED queue /\ lost' = lost \cup {m}
    BY <1>2 DEF Enqueue
  <2>3. /\ m \in sending /\ sending' = sending \ {m} /\ queue \in Seq(Job)
        /\ UNCHANGED <<created, table, worker, job, retry, accepted, rushed>>
    BY <1>2 DEF TypeOK, Enqueue, store, work
  <2>a. FailedRow(n)' => FailedRow(n)
    BY <2>3 DEF FailedRow
  <2> HIDE DEF new
  <2>4. CASE n # m \/ UNCHANGED queue
    <3>1. SameJobs(n)
      <4>1. (Has(queue', n) => Has(queue, n)) /\ (Twice(queue', n) => Twice(queue, n))
        <5>1. CASE UNCHANGED queue
          BY <5>1
        <5>2. CASE n # m /\ queue' = Append(queue, new)
          BY <2>1, <2>3, <5>2, Joins
        <5> QED
          BY <2>2, <2>4, <5>1, <5>2
      <4> QED
        BY <2>3, <4>1 DEF SameJobs
    <3> QED
      BY <2>2, <2>3, <2>a, <3>1, Apart DEF OnceNext
  <2>5. CASE n = m /\ queue' = Append(queue, new) /\ UNCHANGED lost
    <3>1. ~(n > created')
      BY <2>3, <2>5 DEF OnceInv, Unborn
    <3>2. (Has(queue', n) <=> TRUE) /\ (Twice(queue', n) => Twice(queue, n) \/ Has(queue, n))
      BY <2>1, <2>3, <2>5, Joins
    <3>3. rushed \/ n \in lost \/ (OneJob(n) /\ NotYet(n))
      BY DEF OnceInv
    <3>4. (Holds(n)' <=> Holds(n)) /\ n \notin sending'
      BY <2>3, <2>5 DEF Holds
    <3>5. rushed' \/ n \in lost' \/ OneJob(n)'
      BY <2>3, <2>5, <3>2, <3>3, <3>4 DEF OneJob
    <3>6. rushed' \/ n \in lost' \/ NotYet(n)'
      BY <2>3, <2>5, <2>a, <3>2, <3>3, <3>4 DEF NotYet, OneJob
    <3> QED
      BY <3>1, <3>5, <3>6 DEF OnceNext
  <2> QED
    BY <2>2, <2>4, <2>5
<1> QED
  BY <1>1, <1>2

\* The worker.
LEMMA OnceTake ==
  ASSUME TypeOK, OnceInv, NEW n \in Note, Take
  PROVE  OnceNext(n)
<1>1. /\ queue \in Seq(Job) /\ queue # <<>> /\ job' = Head(queue) /\ queue' = Tail(queue)
      /\ worker = "select" /\ worker' \in {"count", "send"}
      /\ UNCHANGED <<created, table, sending, retry, accepted, lost, rushed>>
  BY DEF TypeOK, Take, store, history
<1>2. ~Holds(n) /\ (Holds(n)' <=> Head(queue).id = n)
  BY <1>1 DEF Holds
<1>3. /\ (Holds(n)' => Has(queue, n)) /\ (Has(queue', n) => Has(queue, n))
      /\ (Twice(queue', n) => Twice(queue, n)) /\ (Holds(n)' /\ Has(queue', n) => Twice(queue, n))
  BY <1>1, <1>2, Leaves
<1>4. n > created' => Unborn(n)'
  BY <1>1, <1>3 DEF OnceInv, Unborn
<1>5. rushed \/ n \in lost \/ (OneJob(n) /\ NotYet(n))
  BY DEF OnceInv
<1>6. rushed' \/ n \in lost' \/ OneJob(n)'
  BY <1>1, <1>2, <1>3, <1>5 DEF OneJob
<1>7. rushed' \/ n \in lost' \/ NotYet(n)'
  <2>1. FailedRow(n)' => FailedRow(n)
    BY <1>1 DEF FailedRow
  <2> QED
    BY <1>1, <1>2, <1>3, <1>5, <2>1 DEF NotYet
<1> QED
  BY <1>4, <1>6, <1>7 DEF OnceNext

LEMMA OnceCleanup ==
  ASSUME TypeOK, OnceInv, NEW n \in Note, CleanupCount \/ CleanupFind \/ CleanupErase
  PROVE  OnceNext(n)
<1>1. /\ UNCHANGED <<created, sending, queue, job, retry, accepted, lost, rushed>>
      /\ worker \in {"count", "find", "erase"} /\ worker' \in {"count", "find", "erase", "send"}
  BY DEF CleanupCount, CleanupFind, CleanupErase, store, history
<1>2. FailedRow(n)' => FailedRow(n)
  BY DEF TypeOK, CleanupCount, CleanupFind, CleanupErase, store, FailedRow
<1>3. Holds(n)' <=> Holds(n)
  BY <1>1 DEF Holds
<1>4. n > created' => Unborn(n)'
  <2>1. table[n] = Absent => table'[n] = Absent
    BY DEF TypeOK, CleanupCount, CleanupFind, CleanupErase, store
  <2> QED
    BY <1>1, <1>3, <2>1 DEF OnceInv, Unborn
<1>5. rushed \/ n \in lost \/ (OneJob(n) /\ NotYet(n))
  BY DEF OnceInv
<1>6. rushed' \/ n \in lost' \/ OneJob(n)'
  BY <1>1, <1>3, <1>5 DEF OneJob
<1>7. rushed' \/ n \in lost' \/ NotYet(n)'
  BY <1>1, <1>2, <1>3, <1>5 DEF NotYet
<1> QED
  BY <1>4, <1>6, <1>7 DEF OnceNext

LEMMA OnceAttempt ==
  ASSUME TypeOK, WorkerInv, OnceInv, NEW n \in Note, Attempt
  PROVE  OnceNext(n)
<1>1. /\ worker = "send" /\ worker' = "save"
      /\ UNCHANGED <<created, table, sending, queue, retry, lost, rushed>>
  BY DEF Attempt, store
<1>2. job \in Job /\ job.row \in Row /\ job.id \in Note
  BY <1>1 DEF WorkerInv, Job
<1>3. \A row : [job EXCEPT !.row = row].id = job.id /\ [job EXCEPT !.row = row].row = row
  BY <1>2 DEF Job
<1>4. job'.id = job.id
  <2>1. job' = [job EXCEPT !.row = Sent(job.row)] \/ job' = [job EXCEPT !.row = Failed(job.row)]
    BY DEF Attempt
  <2>2. PICK row : job' = [job EXCEPT !.row = row]
    BY <2>1
  <2> QED
    BY <1>3, <2>2
<1>5. \/ job'.row.status = "sent" /\ accepted'[n] \in {accepted[n], accepted[n] + 1}
         /\ (job.id # n => accepted'[n] = accepted[n])
      \/ UNCHANGED accepted
  <2>1. Sent(job.row).status = "sent"
    BY <1>2 DEF Sent, Row
  <2>2. CASE UNCHANGED accepted
    BY <2>2
  <2>3. CASE /\ job' = [job EXCEPT !.row = Sent(@)]
             /\ accepted' = [accepted EXCEPT ![job.id] = IF Live # {} /\ @ < 2 THEN @ + 1 ELSE @]
    <3>1. job'.row.status = "sent"
      BY <1>3, <2>1, <2>3
    <3>2. /\ accepted'[n] \in {accepted[n], accepted[n] + 1}
          /\ (job.id # n => accepted'[n] = accepted[n])
      BY <2>3 DEF TypeOK
    <3> QED
      BY <3>1, <3>2
  <2> QED
    BY <2>2, <2>3 DEF Attempt
<1>6. Holds(n)' <=> Holds(n)
  BY <1>1, <1>4 DEF Holds
<1>7. n > created' => Unborn(n)'
  <2>1. n > created => job.id # n
    BY <1>1 DEF OnceInv, Unborn, Holds
  <2> QED
    BY <1>1, <1>5, <1>6, <2>1 DEF OnceInv, Unborn
<1>8. rushed \/ n \in lost \/ (OneJob(n) /\ NotYet(n))
  BY DEF OnceInv
<1>9. rushed' \/ n \in lost' \/ OneJob(n)'
  BY <1>1, <1>6, <1>8 DEF OneJob
<1>10. rushed' \/ n \in lost' \/ NotYet(n)'
  <2>1. FailedRow(n)' <=> FailedRow(n)
    BY <1>1 DEF FailedRow
  <2> SUFFICES ASSUME OneJob(n), NotYet(n) PROVE NotYet(n)'
    BY <1>1, <1>8
  <2>2. CASE job.id # n
    <3>1. accepted'[n] = accepted[n] /\ ~Holds(n)
      BY <1>5, <2>2 DEF Holds
    <3> QED
      BY <1>1, <1>6, <2>1, <3>1 DEF NotYet
  <2>3. CASE job.id = n
    <3>1. /\ Holds(n) /\ accepted[n] = 0 /\ n \notin sending /\ ~Has(queue, n) /\ ~Has(retry, n)
      BY <1>1, <2>3 DEF Holds, NotYet, OneJob
    <3>2. accepted'[n] \in 0..1 /\ (accepted'[n] = 0 \/ job'.row.status = "sent")
      BY <1>5, <3>1
    <3> QED
      BY <1>1, <1>6, <3>1, <3>2 DEF NotYet
  <2> QED
    BY <2>2, <2>3
<1> QED
  BY <1>7, <1>9, <1>10 DEF OnceNext

LEMMA OnceSave ==
  ASSUME TypeOK, WorkerInv, OnceInv, NEW n \in Note, SaveNotification \/ WorkerStops
  PROVE  OnceNext(n)
<1>1. CASE SaveNotification
  <2>1. /\ worker = "save" /\ worker' = "select"
        /\ table' = [table EXCEPT ![job.id] = job.row] /\ job \in Job
        /\ UNCHANGED <<created, sending, queue, retry, accepted, lost, rushed>>
    BY <1>1 DEF WorkerInv, SaveNotification, history
  <2>2. ~Holds(n)'
    BY <2>1 DEF Holds
  <2>3. n > created' => Unborn(n)'
    <3>1. n > created => job.id # n
      BY <2>1 DEF OnceInv, Unborn, Holds
    <3> QED
      BY <2>1, <2>2, <3>1 DEF TypeOK, OnceInv, Unborn
  <2>4. rushed \/ n \in lost \/ (OneJob(n) /\ NotYet(n))
    BY DEF OnceInv
  <2>5. rushed' \/ n \in lost' \/ OneJob(n)'
    BY <2>1, <2>2, <2>4 DEF OneJob
  <2>6. rushed' \/ n \in lost' \/ NotYet(n)'
    <3>1. FailedRow(n)' => (job.id = n /\ Holds(n) /\ job.row.status = "failed") \/ (job.id # n /\ FailedRow(n) /\ ~Holds(n))
      BY <2>1 DEF TypeOK, FailedRow, Holds
    <3> QED
      BY <2>1, <2>2, <2>4, <3>1 DEF NotYet
  <2> QED
    BY <2>3, <2>5, <2>6 DEF OnceNext
<1>2. CASE WorkerStops
  <2>1. /\ worker = "select" /\ worker' = "stopped"
        /\ UNCHANGED <<created, table, sending, queue, retry, accepted, lost, rushed>>
    BY <1>2 DEF WorkerStops, store, history
  <2>2. ~Holds(n)' /\ ~Holds(n)
    BY <2>1 DEF Holds
  <2>3. FailedRow(n)' <=> FailedRow(n)
    BY <2>1 DEF FailedRow
  <2>4. n > created' => Unborn(n)'
    BY <2>1, <2>2 DEF OnceInv, Unborn
  <2>5. rushed \/ n \in lost \/ (OneJob(n) /\ NotYet(n))
    BY DEF OnceInv
  <2>6. rushed' \/ n \in lost' \/ OneJob(n)'
    BY <2>1, <2>2, <2>5 DEF OneJob
  <2>7. rushed' \/ n \in lost' \/ NotYet(n)'
    BY <2>1, <2>2, <2>3, <2>5 DEF NotYet
  <2> QED
    BY <2>4, <2>6, <2>7 DEF OnceNext
<1> QED
  BY <1>1, <1>2

\* The retry worker: when a tick finds the others done, nobody has a job.
LEMMA OnceRetry ==
  ASSUME TypeOK, OnceInv, NEW n \in Note, RetryTick \/ RetryPush
  PROVE  OnceNext(n)
<1>1. CASE RetryTick
  <2>1. PICK due \in SetToSeqs({m \in Note : IsDue(m)}) :
          retry' = [k \in DOMAIN due |-> RetryJob(due[k])]
    BY <1>1 DEF RetryTick
  <2>2. /\ due \in [1..Cardinality({m \in Note : IsDue(m)}) -> {m \in Note : IsDue(m)}]
        /\ \A j, k \in DOMAIN due : j # k => due[j] # due[k]
    BY <2>1 DEF SetToSeqs
  <2>3. DOMAIN retry' = DOMAIN due /\ \A k \in DOMAIN due : retry'[k].id = due[k] /\ IsDue(due[k])
    BY <2>1, <2>2 DEF RetryJob
  <2>4. ~Twice(retry', n) /\ (Has(retry', n) => IsDue(n))
    BY <2>2, <2>3 DEF Twice, Has
  <2>5. /\ UNCHANGED <<created, table, sending, queue, worker, job, accepted, lost>>
        /\ rushed' = (rushed \/ ~Idle) /\ retry = <<>>
    BY <1>1 DEF RetryTick, store, work
  <2>6. ~Has(retry, n) /\ ~Twice(retry, n)
    BY <2>5 DEF Has, Twice
  <2>7. n > created' => Unborn(n)'
    <3>1. ASSUME n > created PROVE ~IsDue(n)
      BY <3>1 DEF OnceInv, Unborn, IsDue
    <3> QED
      BY <2>4, <2>5, <3>1 DEF OnceInv, Unborn, Holds
  <2>8. ASSUME ~rushed', n \notin lost' PROVE OneJob(n)' /\ NotYet(n)'
    <3>1. Idle /\ OneJob(n) /\ NotYet(n)
      BY <2>5, <2>8 DEF OnceInv
    <3>2. ~Holds(n) /\ n \notin sending /\ ~Has(queue, n) /\ ~Twice(queue, n)
      BY <3>1 DEF Idle, Holds, Has, Twice
    <3>3. (Holds(n)' <=> Holds(n)) /\ (FailedRow(n)' <=> FailedRow(n))
      BY <2>5 DEF Holds, FailedRow
    <3>4. OneJob(n)'
      BY <2>4, <2>5, <3>2, <3>3 DEF OneJob
    <3>5. IsDue(n) => FailedRow(n)
      BY DEF IsDue, FailedRow
    <3>6. NotYet(n)'
      BY <2>4, <2>5, <3>1, <3>2, <3>3, <3>5 DEF NotYet
    <3> QED
      BY <3>4, <3>6
  <2> QED
    BY <2>7, <2>8 DEF OnceNext
<1>2. CASE RetryPush
  <2>1. /\ retry \in Seq(Job) /\ retry # <<>> /\ retry' = Tail(retry) /\ queue \in Seq(Job)
        /\ (queue' = Append(queue, Head(retry)) \/ UNCHANGED queue)
        /\ UNCHANGED <<created, table, sending, worker, job, accepted, lost, rushed>>
    BY <1>2 DEF TypeOK, RetryPush, store, work, history
  <2>2. /\ Head(retry) \in Job
        /\ Has(retry, Head(retry).id) /\ (Has(retry', n) => Has(retry, n))
        /\ (Twice(retry', n) => Twice(retry, n))
        /\ (Has(retry', n) /\ Head(retry).id = n => Twice(retry, n))
    BY <2>1, Leaves, QueueType
  <2>3. /\ Has(queue', n) => Has(queue, n) \/ (Head(retry).id = n /\ Has(retry, n))
        /\ Twice(queue', n) => Twice(queue, n) \/ (Head(retry).id = n /\ Has(queue, n) /\ Has(retry, n))
        /\ UNCHANGED queue \/ (Has(queue', n) <=> Head(retry).id = n \/ Has(queue, n))
    BY <2>1, <2>2, Joins
  <2>4. (Holds(n)' <=> Holds(n)) /\ (FailedRow(n)' <=> FailedRow(n))
    BY <2>1 DEF Holds, FailedRow
  <2>5. n > created' => Unborn(n)'
    BY <2>1, <2>2, <2>3, <2>4 DEF OnceInv, Unborn
  <2>6. rushed \/ n \in lost \/ (OneJob(n) /\ NotYet(n))
    BY DEF OnceInv
  <2>7. rushed' \/ n \in lost' \/ OneJob(n)'
    BY <2>1, <2>2, <2>3, <2>4, <2>6 DEF OneJob
  <2>8. rushed' \/ n \in lost' \/ NotYet(n)'
    BY <2>1, <2>2, <2>3, <2>4, <2>6 DEF NotYet
  <2> QED
    BY <2>5, <2>7, <2>8 DEF OnceNext
<1> QED
  BY <1>1, <1>2

\* Time, the API, the end of the process and its restart.
LEMMA OnceOther ==
  ASSUME TypeOK, WorkerInv, OnceInv, NEW n \in Note,
         (\E m \in Note : TimePasses(m)) \/ Handle \/ Stop \/ Restart \/ UNCHANGED vars
  PROVE  OnceNext(n)
<1>1. CASE ~Restart
  <2>1. /\ UNCHANGED <<created, sending, queue, worker, job, accepted, lost, rushed>>
        /\ UNCHANGED retry \/ retry' = <<>>
    BY <1>1 DEF TimePasses, Handle, UpdateSettings, DeleteNotification, Stop, vars, store, work, history
  <2>2. SameJobs(n)
    BY <2>1 DEF SameJobs, Has, Twice
  <2>3. FailedRow(n)' => FailedRow(n)
    <3>1. ASSUME NEW m \in Note, TimePasses(m) PROVE FailedRow(n)' => FailedRow(n)
      <4>1. table[m] \in Row /\ table' = [table EXCEPT ![m] = [table[m] EXCEPT !.due = "now"]] /\ table[m] # Absent
        BY <3>1 DEF TypeOK, TimePasses
      <4>2. [table[m] EXCEPT !.due = "now"].status = table[m].status
        BY <4>1 DEF Row
      <4> QED
        BY <4>1, <4>2 DEF TypeOK, FailedRow
    <3>2. ASSUME NEW m \in Note, DeleteNotification(m) PROVE FailedRow(n)' => FailedRow(n)
      BY <3>2 DEF TypeOK, DeleteNotification, FailedRow
    <3>3. CASE UNCHANGED table
      BY <3>3 DEF FailedRow
    <3> QED
      BY <1>1, <3>1, <3>2, <3>3 DEF Handle, UpdateSettings, Stop, vars, store
  <2>4. table[n] = Absent => table'[n] = Absent
    BY <1>1 DEF TypeOK, TimePasses, Handle, UpdateSettings, DeleteNotification, Stop, vars, store
  <2> QED
    BY <2>1, <2>2, <2>3, <2>4, Apart DEF OnceNext
<1>2. CASE Restart
  <2>1. /\ sending' = {} /\ queue' = <<>> /\ retry' = <<>> /\ worker' = "select"
        /\ UNCHANGED <<created, table, accepted, rushed>>
        /\ lost' = lost \cup {m \in Rows : table[m].status = "pending" \/ Busy(m)}
    BY <1>2 DEF Restart, store
  <2>2. /\ ~Holds(n)' /\ ~Has(queue', n) /\ ~Has(retry', n) /\ ~Twice(queue', n) /\ ~Twice(retry', n)
        /\ n \notin sending'
    BY <2>1 DEF Holds, Has, Twice
  <2>3. n > created' => Unborn(n)'
    BY <2>1, <2>2 DEF OnceInv, Unborn
  <2>4. OneJob(n)'
    BY <2>2 DEF OneJob
  <2>5. ASSUME ~rushed', n \notin lost' PROVE NotYet(n)'
    <3>1. NotYet(n) /\ (n \in Rows => ~Busy(n))
      BY <2>1, <2>5 DEF OnceInv
    <3>2. FailedRow(n)' => FailedRow(n) /\ n \in Rows
      BY <2>1 DEF FailedRow, Rows
    <3>3. Holds(n) => Busy(n)
      BY NoneAssumption DEF WorkerInv, Holds, Busy
    <3> QED
      BY <2>1, <2>2, <3>1, <3>2, <3>3 DEF NotYet
  <2> QED
    BY <2>3, <2>4, <2>5 DEF OnceNext
<1> QED
  BY <1>1, <1>2

LEMMA NextOnce == TypeOK /\ WorkerInv /\ OnceInv /\ [Next]_vars => OnceInv'
<1> SUFFICES ASSUME TypeOK, WorkerInv, OnceInv, [Next]_vars PROVE OnceInv'
  OBVIOUS
<1>1. \A n \in Note : OnceNext(n)
  BY OnceSend, OnceTake, OnceCleanup, OnceAttempt, OnceSave, OnceRetry, OnceOther DEF Next, Worker
<1> QED
  BY <1>1 DEF OnceInv, OnceNext

-----------------------------------------------------------------------------
LEMMA Inductive == Spec => []IInv
<1>1. Init => WorkerInv /\ PendingHasJob
  BY DEF Init, WorkerInv, PendingHasJob, Rows
<1>2. Init => IInv
  BY <1>1, InitType DEF IInv
<1>3. IInv /\ [Next]_vars => IInv'
  BY NextType, NextWorkerInv, NextPending DEF IInv
<1> QED
  BY <1>2, <1>3, PTL DEF Spec

\* Every variable of the notification service stays in its type: the channel
\* never holds more than its capacity, and retry_count stops one past its
\* maximum.
THEOREM TypeCorrect == Spec => []TypeOK
<1>1. IInv => TypeOK
  BY DEF IInv
<1> QED
  BY <1>1, Inductive, PTL

\* A pending notification has a job with its sender, in the channel or with the
\* worker, unless the job was dropped for want of room or died with the panel:
\* neither a deletion, a retry nor a change of the settings loses one.
THEOREM PendingOnItsWay == Spec => []PendingHasJob
<1>1. IInv => PendingHasJob
  BY DEF IInv
<1> QED
  BY <1>1, Inductive, PTL

\* As long as the ticks of the retry worker find the others done, a channel takes
\* a notification at most once, however often it failed before and whatever was
\* deleted meanwhile; only a panel that died between the call and the save may
\* repeat one.
THEOREM TakenOnce == Spec => []DeliveredOnce
<1>1. Init => IInv /\ OnceInv
  BY InitType, InitOnce DEF Init, IInv, WorkerInv, PendingHasJob, Rows
<1>2. IInv /\ OnceInv /\ [Next]_vars => (IInv /\ OnceInv)'
  BY NextType, NextWorkerInv, NextPending, NextOnce DEF IInv
<1>3. OnceInv => DeliveredOnce
  BY DEF OnceInv, NotYet, DeliveredOnce
<1> QED
  BY <1>1, <1>2, <1>3, PTL DEF Spec
=============================================================================
