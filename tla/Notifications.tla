---------------------------- MODULE Notifications ----------------------------
(***************************************************************************)
(* NotificationService: events become rows of table notifications; a       *)
(* bounded channel hands them to one worker, which trims the table, calls  *)
(* the configured channel and saves the outcome; a retry worker queues     *)
(* failed rows again.  Senders, the API, the two workers and a restart of  *)
(* the panel interleave.                                                   *)
(*                                                                         *)
(* Sources: services/notification_service.go, services/webhook_notifier.go,*)
(* services/telegram_notifier.go, under src/backend/internal.              *)
(***************************************************************************)
EXTENDS Naturals, Sequences, FiniteSets, SequencesExt

CONSTANTS
  MaxNotes,    \* bound on the notifications ever created
  Cap,         \* capacity of jobChan (100 in the code)
  MaxKept,     \* maxNotifications (100 in the code)
  MaxRetries,  \* MaxRetries of a notification (3 in the code)
  Deletes,     \* may the API delete notifications?
  MaxRestarts, \* bound on how often the panel stops or dies and comes back
  Channel,     \* the channels the code has, "webhook" and "telegram", or one
  Env,         \* channels configured in .env
  Absent, NoJob

ASSUME NotificationsAssumption ==
  /\ MaxNotes \in Nat /\ Cap \in Nat \ {0} /\ MaxKept \in Nat
  /\ MaxRetries \in Nat \ {0, 1}
  /\ Channel \subseteq {"webhook", "telegram"} /\ Env \subseteq Channel
  /\ MaxRestarts \in Nat
  /\ Deletes \in BOOLEAN

Note == 1..MaxNotes

VARIABLES
  created,   \* notifications created so far; ids and created_at follow it
  table,     \* table notifications: Absent or a row
  stored,    \* channels enabled in the first row of notification_settings
  enabled,   \* channels enabled in s.settings
  sending,   \* rows whose Send has not reached the channel yet
  queue,     \* jobChan
  worker,    \* the next step of the worker goroutine
  job,       \* the job it works on
  surplus,   \* how many rows cleanup is to remove
  doomed,    \* the rows it found and has not removed yet
  retry,     \* failed rows the retry worker read and has not queued yet
  quit,      \* channel quit is closed
  restarts,  \* how often the panel came back
  accepted,  \* accepted[n]: how often a channel acknowledged n (history)
  reached,   \* reached[n]: the channels that acknowledged it (history)
  lost,      \* notifications whose job was dropped, or died with the panel
             \*   (history)
  rushed     \* a retry tick came before the workers had done with the jobs of
             \*   earlier ones (history)

store   == <<created, table>>
options == <<stored, enabled>>
work    == <<worker, job, surplus, doomed>>
history == <<accepted, reached, lost, rushed>>
run     == <<quit, restarts>>
vars    == <<created, table, stored, enabled, sending, queue, worker, job,
             surplus, doomed, retry, quit, restarts, accepted, reached, lost,
             rushed>>

\* retry_count is counted up to one more than MaxRetries: the code compares it
\* with MaxRetries only.  due: NextRetryAt is NULL, in the future, or passed.
Row == [status : {"pending", "sent", "failed"}, retries : 0..MaxRetries + 1,
        due : {"never", "later", "now"}]

Job == [id : Note, row : Row, cleanup : BOOLEAN]

ASSUME NoneAssumption == Absent \notin Row /\ NoJob \notin Job

TypeOK ==
  /\ created \in 0..MaxNotes
  /\ table \in [Note -> Row \cup {Absent}]
  /\ stored \subseteq Channel /\ enabled \subseteq Channel
  /\ sending \subseteq Note
  /\ queue \in Seq(Job) /\ Len(queue) <= Cap
  /\ worker \in {"select", "count", "find", "erase", "send", "save", "stopped"}
  /\ job \in Job \cup {NoJob}
  /\ surplus \in 0..MaxNotes /\ doomed \subseteq Note
  /\ retry \in Seq(Job)
  /\ quit \in BOOLEAN
  /\ accepted \in [Note -> 0..2]
  /\ reached \in [Note -> SUBSET Channel]
  /\ lost \subseteq Note
  /\ restarts \in 0..MaxRestarts
  /\ rushed \in BOOLEAN

NewRow == [status |-> "pending", retries |-> 0, due |-> "never"]

Rows == {n \in Note : table[n] # Absent}
Queued == {queue[k].id : k \in DOMAIN queue}
Busy(n) == worker # "select" /\ job # NoJob /\ job.id = n

\* The n rows with the smallest created_at.
Oldest(n) == {m \in Rows : Cardinality({k \in Rows : k < m}) < n}

Idle == worker = "select" /\ queue = <<>> /\ sending = {} /\ retry = <<>>

-----------------------------------------------------------------------------
(* Send, in the goroutine of a handler or of the quota loop.               *)

\* The record is created (for an event type that is enabled) ...
Create ==
  /\ created < MaxNotes
  /\ created' = created + 1
  /\ table' = [table EXCEPT ![created'] = NewRow]
  /\ sending' = sending \cup {created'}
  /\ UNCHANGED <<options, queue, work, retry, run, history>>

\* ... and its job queued, or dropped if the channel is full.
Enqueue(n) ==
  /\ n \in sending
  /\ sending' = sending \ {n}
  /\ \/ /\ Len(queue) < Cap
        /\ queue' = Append(queue, [id |-> n, row |-> NewRow, cleanup |-> TRUE])
        /\ UNCHANGED lost
     \/ /\ Len(queue) = Cap
        /\ lost' = lost \cup {n}
        /\ UNCHANGED queue
  /\ UNCHANGED <<store, options, work, retry, run, accepted, reached, rushed>>

-----------------------------------------------------------------------------
(* worker and processJob.                                                  *)

Take ==
  /\ worker = "select" /\ queue # <<>>
  /\ job' = Head(queue) /\ queue' = Tail(queue)
  /\ worker' = IF Head(queue).cleanup THEN "count" ELSE "send"
  /\ UNCHANGED <<store, options, sending, surplus, doomed, retry, run, history>>

\* cleanupOldNotifications: count the rows ...
CleanupCount ==
  /\ worker = "count"
  /\ IF Cardinality(Rows) > MaxKept
     THEN worker' = "find" /\ surplus' = Cardinality(Rows) - MaxKept
     ELSE worker' = "send" /\ UNCHANGED surplus
  /\ UNCHANGED <<store, options, sending, queue, job, doomed, retry, run, history>>

\* ... find that many of the oldest ...
CleanupFind ==
  /\ worker = "find"
  /\ worker' = "erase" /\ surplus' = 0 /\ doomed' = Oldest(surplus)
  /\ UNCHANGED <<store, options, sending, queue, job, retry, run, history>>

\* ... and delete them one by one.
CleanupErase ==
  /\ worker = "erase"
  /\ IF doomed = {}
     THEN worker' = "send" /\ UNCHANGED <<table, doomed>>
     ELSE LET n == CHOOSE m \in doomed : \A k \in doomed : m <= k IN
          /\ table' = [table EXCEPT ![n] = Absent]
          /\ doomed' = doomed \ {n}
          /\ UNCHANGED worker
  /\ UNCHANGED <<created, options, sending, queue, job, surplus, retry, run, history>>

\* A channel whose credentials are missing skips the message and reports no
\* error.  The bot token is never there: notification_settings is created
\* without one, and in a PUT of the settings it is not a field of the JSON.
Live == enabled \ {"telegram"}

Sent(row) == [row EXCEPT !.status = "sent"]

\* Mutant: off by one, no retry is due after the first failure.
FailedNotDue(row) ==
  LET count == IF row.retries > MaxRetries THEN row.retries ELSE row.retries + 1 IN
  [status  |-> "failed",
   retries |-> count,
   due     |-> IF count > 1 /\ count < MaxRetries THEN "later" ELSE row.due]

\* Mutant: a failure leaves the notification pending.
FailedKeepsStatus(row) == [row EXCEPT !.retries = IF @ > MaxRetries THEN @ ELSE @ + 1]

Failed(row) ==
  LET count == IF row.retries > MaxRetries THEN row.retries ELSE row.retries + 1 IN
  [status  |-> "failed",
   retries |-> count,
   due     |-> IF count < MaxRetries THEN "later" ELSE row.due]

\* Send of a channel: nothing if it is not set up; else the message arrives, or
\* an error is reported whether it did or not.
Outcomes == IF Live = {} THEN {"ok"} ELSE {"ok", "error"}

\* sendNotification calls the channels; a failed one may have been reached.
Attempt ==
  /\ worker = "send"
  /\ \/ /\ job' = [job EXCEPT !.row = Sent(@)]
        /\ accepted' = [accepted EXCEPT ![job.id] =
                          IF Live # {} /\ @ < 2 THEN @ + 1 ELSE @]
        /\ reached' = [reached EXCEPT ![job.id] = @ \cup Live]
     \/ /\ "error" \in Outcomes
        /\ job' = [job EXCEPT !.row = Failed(@)]
        /\ UNCHANGED <<accepted, reached>>
  /\ worker' = "save"
  /\ UNCHANGED <<store, options, sending, queue, surplus, doomed, retry, run, lost, rushed>>

\* db.Save of the row the job carries; a row deleted meanwhile is inserted.
SaveNotification ==
  /\ worker = "save"
  /\ table' = [table EXCEPT ![job.id] = job.row]
  /\ worker' = "select" /\ job' = NoJob
  /\ UNCHANGED <<created, options, sending, queue, surplus, doomed, retry, run, history>>

-----------------------------------------------------------------------------
(* startRetryWorker.                                                       *)

RetryJob(n) == [id |-> n, row |-> table[n], cleanup |-> FALSE]

\* Mutant: the query asks for the time only.
IsDueAnyStatus(n) == table[n] # Absent /\ table[n].due = "now"

IsDue(n) == table[n] # Absent /\ table[n].status = "failed" /\ table[n].due = "now"

RetryTick ==
  /\ retry = <<>> /\ ~quit
  /\ rushed' = (rushed \/ ~Idle)
  /\ \E n \in Note : IsDue(n)
  /\ \E due \in SetToSeqs({n \in Note : IsDue(n)}) : \* the query asks for no order
       retry' = [k \in DOMAIN due |-> RetryJob(due[k])]
  /\ UNCHANGED <<store, options, sending, queue, work, run, accepted, reached, lost>>

\* Each is queued if the channel has room; the others wait for the next tick.
RetryPush ==
  /\ retry # <<>>
  /\ retry' = Tail(retry)
  /\ queue' = IF Len(queue) < Cap THEN Append(queue, Head(retry)) ELSE queue
  /\ UNCHANGED <<store, options, sending, work, run, history>>

\* The time of a retry comes.
TimePasses(n) ==
  /\ table[n] # Absent /\ table[n].due = "later"
  /\ table' = [table EXCEPT ![n].due = "now"]
  /\ UNCHANGED <<created, options, sending, queue, work, retry, run, history>>

-----------------------------------------------------------------------------
(* The API, shutdown and restart.                                          *)

DeleteNotification(n) ==
  /\ Deletes /\ table[n] # Absent
  /\ table' = [table EXCEPT ![n] = Absent]
  /\ UNCHANGED <<created, options, sending, queue, work, retry, run, history>>

\* db.Save updates the row whose id the request names, and inserts another one,
\* which nothing reads, if it names none.
UpdateSettings ==
  /\ enabled' \in SUBSET Channel
  /\ stored' \in {stored, enabled'}
  /\ UNCHANGED <<store, sending, queue, work, retry, run, history>>

\* Stop closes quit; the worker empties the channel before it returns.
Stop ==
  /\ restarts < MaxRestarts /\ ~quit
  /\ quit' = TRUE
  /\ retry' = <<>>
  /\ UNCHANGED <<store, options, sending, queue, work, restarts, history>>

WorkerStops ==
  /\ quit /\ worker = "select" /\ queue = <<>>
  /\ worker' = "stopped"
  /\ UNCHANGED <<store, options, sending, queue, job, surplus, doomed, retry, run,
                 history>>

\* The process ends, in order or not, and starts again: what was in memory is
\* gone.  Initialize reads notification_settings.
Restart ==
  /\ restarts < MaxRestarts
  /\ restarts' = restarts + 1
  /\ sending' = {} /\ queue' = <<>> /\ retry' = <<>> /\ quit' = FALSE
  /\ worker' = "select" /\ job' = NoJob /\ surplus' = 0 /\ doomed' = {}
  /\ enabled' = stored
  /\ lost' = lost \cup {n \in Rows : table[n].status = "pending" \/ Busy(n)}
  /\ UNCHANGED <<store, stored, accepted, reached, rushed>>

-----------------------------------------------------------------------------

\* The environment fills s.settings, and Initialize then replaces them by the
\* row the migrations create, in which every channel is disabled.
Init ==
  /\ created = 0
  /\ table = [n \in Note |-> Absent]
  /\ stored = {} /\ enabled = {}
  /\ sending = {} /\ queue = <<>> /\ retry = <<>>
  /\ quit = FALSE /\ restarts = 0 /\ rushed = FALSE
  /\ worker = "select" /\ job = NoJob /\ surplus = 0 /\ doomed = {}
  /\ accepted = [n \in Note |-> 0]
  /\ reached = [n \in Note |-> {}]
  /\ lost = {}

Worker == \/ Take \/ CleanupCount \/ CleanupFind \/ CleanupErase \/ Attempt
          \/ SaveNotification \/ WorkerStops

\* Requests of the administrator.
Handle == UpdateSettings \/ \E n \in Note : DeleteNotification(n)

Next ==
  \/ Create \/ (\E n \in Note : Enqueue(n))
  \/ Worker
  \/ RetryTick \/ RetryPush \/ (\E n \in Note : TimePasses(n))
  \/ Handle
  \/ Stop \/ Restart

Spec == Init /\ [][Next]_vars

\* Goroutines that can run do, timers fire, and time passes.  Nobody has to
\* send, and a channel may fail every time.
FairSpec ==
  /\ Spec
  /\ WF_vars(Worker) /\ WF_vars(\E n \in Note : Enqueue(n))
  /\ SF_vars(RetryTick) /\ WF_vars(RetryPush)
  /\ \A n \in Note : WF_vars(TimePasses(n))

-----------------------------------------------------------------------------
(* Properties.                                                             *)

\* A pending notification has a job on its way to the worker, unless that job
\* was dropped or the panel restarted: nothing else loses one.
PendingHasJob ==
  \A n \in Rows : table[n].status = "pending" =>
                    n \in sending \/ n \in Queued \/ Busy(n) \/ n \in lost

\* As long as ticks find the workers done, a channel takes a notification at
\* most once, however often it failed before; only a restart between the call
\* and the save that follows it may repeat one.
DeliveredOnce == ~rushed => \A n \in Note : accepted[n] <= 1 \/ n \in lost

\* A notification whose job was queued is eventually sent, failed or deleted,
\* unless the panel shuts down first.
Settles ==
  \A n \in Note :
    (table[n] # Absent /\ table[n].status = "pending")
      ~> (table[n] = Absent \/ table[n].status # "pending" \/ n \in lost \/ quit)

\* A failed notification is tried again, or is deleted: none is given up,
\* whatever a restart lost, as long as ticks find the workers done.
FailedTriedAgain ==
  \A n \in Note :
    (table[n] # Absent /\ table[n].status = "failed")
      ~> (Busy(n) \/ table[n] = Absent \/ table[n].status # "failed" \/ quit \/ rushed)

(* Statements of the documentation that the code does not keep.            *)

\* docs/old/detail_phase_10_to_100%.md:255: rows with retry_count >=
\* max_retries are not retried.
RetriesBounded == \A n \in Rows : table[n].retries <= MaxRetries

\* notification_service.go:247: cleanup keeps only maxNotifications rows.
KeptAtMost ==
  Idle /\ lost = {} => Cardinality(Rows) <= MaxKept

\* api/notifications.go:115, "Delete a notification event from history": it
\* does not come back.
DeletedStaysDeleted ==
  [][\A n \in Note : table[n] = Absent /\ n <= created => table'[n] = Absent]_vars

\* docs/USER_MANUAL.md:779: a channel configured in .env gets the messages.
EnvIsUsed ==
  \A n \in Rows : table[n].status = "sent" => Env \subseteq reached[n]
=============================================================================
