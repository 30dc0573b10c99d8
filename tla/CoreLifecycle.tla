--------------------------- MODULE CoreLifecycle ---------------------------
(***************************************************************************)
(* The life of ONE proxy core (xray, sing-box or mihomo): the inbounds     *)
(* configured for it, the configuration file the panel writes, the row of  *)
(* table `cores`, and the process supervisord runs.  Several HTTP handlers *)
(* and background workers act on them with no lock around a whole          *)
(* operation, so every database read, database write, file write and       *)
(* supervisord call is a step of its own here.                             *)
(*                                                                         *)
(* Sources: services/core_lifecycle.go, services/config_service.go,        *)
(* services/inbound_service.go, cores/manager.go, cores/supervisor.go and  *)
(* app/watchdog.go, all under src/backend/internal.                        *)
(***************************************************************************)
EXTENDS Naturals

CONSTANTS
  Inbound,   \* identities of the inbounds of this core
  Content,   \* what an inbound may be besides enabled or disabled
  Handler,   \* goroutines that may run an operation on the core
  Ops,       \* the operations the goroutines of this instance run
  MaxRev,    \* bound on the changes to other configuration data
  Faulty,    \* may supervisord calls, generation or the process fail?
  None       \* "there is no such file", and "there is no such row"

InboundOps == {"created", "updated", "deleted"}
Observers  == {"status", "watchdog"}
AllOps     == InboundOps \cup Observers
              \cup {"touch", "start", "stop", "restart", "init"}

\* A configuration: the inbounds it serves and what they are, and the revision
\* of the rest.
Config == [inb : [Inbound -> Content \cup {None}], rev : Nat]

ASSUME LifecycleAssumption ==
  /\ Handler # {}
  /\ Ops \subseteq AllOps \ {"init"}
  /\ MaxRev \in Nat
  /\ Faulty \in BOOLEAN
  /\ None \notin Handler /\ None \notin Config /\ None \notin Content

VARIABLES
  inbounds,  \* table inbounds: the content of a row, or None
  enabled,   \* the inbounds whose is_enabled is true
  rev,       \* revision of all other data GenerateConfig reads
             \*   (users, outbounds, routes)
  row,       \* the row of table cores: is_running, "last_error is set", and
             \*   whether api_port was drawn or needs no drawing
  file,      \* the configuration file the core is started with
  tmp,       \* its ".tmp" sibling
  proc,      \* the supervised process: state, and the config it loaded
  pc,        \* pc[h]: the next step of goroutine h, "idle" if it has none
  op,        \* op[h]: the operation (for an inbound: the hook) h runs
  arg,       \* arg[h]: the inbound it is about
  was,       \* was[h]: UpdateInbound's wasEnabled
  others,    \* others[h]: OnInboundDeleted's "count > 0"
  cfg,       \* cfg[h]: the configuration h generated
  snap,      \* snap[h]: the row of table cores as h read it
  solo,      \* history: the goroutine whose operation has met no other
             \*   operation and no fault since it began, or None
  clean      \* history: so far only inbound operations and observers ran,
             \*   one at a time, and nothing failed

world  == <<inbounds, enabled, rev, row, file, tmp, proc>>
locals == <<arg, was, others, cfg, snap>>
ghosts == <<solo, clean>>
vars   == <<inbounds, enabled, rev, row, file, tmp, proc, pc, op, arg, was,
            others, cfg, snap, solo, clean>>

-----------------------------------------------------------------------------
(* Types.                                                                  *)

Row     == [running : BOOLEAN, failed : BOOLEAN, drawn : BOOLEAN]
Process == [state : {"stopped", "starting", "running"}, config : Config]

Steps == {"idle", "apply", "dispatch", "erase", "count", "generate", "configure", "write",
          "probe", "start.row", "start.check", "start.call", "start.wait",
          "start.confirm", "start.save", "restart.row", "restart.stop",
          "stop.row", "stop.check", "stop.call", "stop.save",
          "touch.generate", "touch.configure", "touch.write", "touch.probe",
          "touch.rename", "touch.cleanup", "status.check", "watchdog.save", "init"}

TypeOK ==
  /\ inbounds \in [Inbound -> Content \cup {None}]
  /\ enabled \subseteq Inbound /\ \A i \in enabled : inbounds[i] # None
  /\ rev \in Nat
  /\ row \in Row
  /\ file \in Config
  /\ tmp \in Config \cup {None}
  /\ proc \in Process
  /\ pc \in [Handler -> Steps]
  /\ op \in [Handler -> AllOps \cup {"none"}]
  /\ arg \in [Handler -> Inbound \cup {None}]
  /\ was \in [Handler -> BOOLEAN]
  /\ others \in [Handler -> BOOLEAN]
  /\ cfg \in [Handler -> Config]
  /\ snap \in [Handler -> Row]
  /\ solo \in Handler \cup {None}
  /\ clean \in BOOLEAN

-----------------------------------------------------------------------------
(* Helpers.                                                                *)

\* What the generators produce from the database: all inbounds of the core,
\* enabled or not, and everything else they read.
Desired == [inb |-> inbounds, rev |-> rev]

EmptyConfig == [inb |-> [i \in Inbound |-> None], rev |-> 0]
InitialRow  == [running |-> FALSE, failed |-> FALSE, drawn |-> FALSE]

\* SupervisorClient.IsProcessRunning: state 20 and nothing else.
Serving == proc.state = "running"

AllIdle == \A h \in Handler : pc[h] = "idle"
Alone(h) == \A g \in Handler \ {h} : pc[g] = "idle"

Goto(h, step) == pc' = [pc EXCEPT ![h] = step]

\* The operation of h is over, with or without an error.
Finish(h) ==
  /\ pc' = [pc EXCEPT ![h] = "idle"]
  /\ op' = [op EXCEPT ![h] = "none"]
  /\ arg' = [arg EXCEPT ![h] = None]
  /\ was' = [was EXCEPT ![h] = FALSE]
  /\ others' = [others EXCEPT ![h] = FALSE]
  /\ cfg' = [cfg EXCEPT ![h] = EmptyConfig]
  /\ snap' = [snap EXCEPT ![h] = InitialRow]

\* A step that may fail did fail: history is no longer clean.
Spoil ==
  /\ Faulty
  /\ clean' = FALSE
  /\ solo' = None

\* h starts operation o on i.  While the panel runs InitializeCores it does
\* not serve requests and has no workers yet.
Begin(h, o, i, step) ==
  LET alone == Alone(h) /\ proc.state # "starting" IN
  /\ pc[h] = "idle"
  /\ o \in Ops
  /\ \A g \in Handler : op[g] # "init"
  /\ pc' = [pc EXCEPT ![h] = step]
  /\ op' = [op EXCEPT ![h] = o]
  /\ arg' = [arg EXCEPT ![h] = i]
  /\ solo' = IF alone THEN h ELSE None
  /\ clean' = (clean /\ alone /\ o \in InboundOps \cup Observers)

-----------------------------------------------------------------------------
(* InboundService: the row of table inbounds changes, then a hook runs.    *)

\* CreateInbound.  is_enabled has a database default of true and a zero value
\* is not inserted, so a new inbound is enabled.
CreateInbound(h, i) ==
  /\ inbounds[i] = None
  /\ Begin(h, "created", i, "generate")
  /\ \E c \in Content : inbounds' = [inbounds EXCEPT ![i] = c]
  /\ enabled' = enabled \cup {i}
  /\ UNCHANGED <<rev, row, file, tmp, proc, was, others, cfg, snap>>

\* UpdateInbound reads the inbound and keeps wasEnabled ...
UpdateRead(h, i) ==
  /\ inbounds[i] # None
  /\ Begin(h, "updated", i, "apply")
  /\ was' = [was EXCEPT ![h] = i \in enabled]
  /\ UNCHANGED <<world, others, cfg, snap>>

\* ... applies the requested columns, is_enabled or others or both.  An UPDATE
\* of a row deleted meanwhile changes nothing and is no error.
UpdateApply(h) ==
  /\ pc[h] = "apply"
  /\ \/ inbounds[arg[h]] = None /\ UNCHANGED <<inbounds, enabled>>
     \/ \E i \in Inbound, c \in Content :
          /\ i = arg[h] /\ inbounds[i] # None
          /\ inbounds' = [inbounds EXCEPT ![i] = c]
          /\ enabled' \in {enabled \cup {i}, enabled \ {i}}
  /\ Goto(h, "dispatch")
  /\ UNCHANGED <<rev, row, file, tmp, proc, op, locals, ghosts>>

\* ... reloads the row, which fails if it is gone, and runs OnInboundUpdated,
\* which picks the hook: none if the inbound was and is disabled.
UpdateDispatch(h) ==
  LET now == arg[h] \in enabled IN
  /\ pc[h] = "dispatch"
  /\ UNCHANGED <<world, ghosts>>
  /\ \/ /\ inbounds[arg[h]] = None \/ ~(now \/ was[h])
        /\ Finish(h)
     \/ /\ now
        /\ op' = [op EXCEPT ![h] = IF was[h] THEN "updated" ELSE "created"]
        /\ Goto(h, "generate")
        /\ UNCHANGED locals
     \/ /\ inbounds[arg[h]] # None /\ ~now /\ was[h]
        /\ op' = [op EXCEPT ![h] = "deleted"]
        /\ Goto(h, "count")
        /\ UNCHANGED locals

\* DeleteInbound: read, (drop the cached subscriptions,) delete, hook.
DeleteRead(h, i) ==
  /\ inbounds[i] # None
  /\ Begin(h, "deleted", i, "erase")
  /\ UNCHANGED <<world, was, others, cfg, snap>>

DeleteApply(h) ==
  /\ pc[h] = "erase"
  /\ inbounds' = [inbounds EXCEPT ![arg[h]] = None]
  /\ enabled' = enabled \ {arg[h]}
  /\ Goto(h, "count")
  /\ UNCHANGED <<rev, row, file, tmp, proc, op, locals, ghosts>>

-----------------------------------------------------------------------------
(* CoreLifecycleManager's hooks and ConfigService.RegenerateConfig.        *)

\* OnInboundDeleted counts the other enabled inbounds before anything else.
CountOthers(h) ==
  /\ pc[h] = "count"
  /\ others' = [others EXCEPT ![h] = enabled \ {arg[h]} # {}]
  /\ Goto(h, "generate")
  /\ UNCHANGED <<world, op, arg, was, cfg, snap, ghosts>>

\* Mutant: the last inbound does not stop the core.
AfterRegenerateNeverStops(h) == "probe"

\* Where a hook goes once RegenerateConfig returned, with or without an error.
AfterRegenerate(h) ==
  IF op[h] = "deleted" /\ ~others[h] THEN "stop.row" ELSE "probe"

\* Both RegenerateConfig and RegenerateAndReload generate: they read the row of
\* the core ...
ReadCore(h) ==
  /\ \/ pc[h] = "generate" /\ Goto(h, "configure")
     \/ pc[h] = "touch.generate" /\ Goto(h, "touch.configure")
  /\ snap' = [snap EXCEPT ![h] = row]
  /\ UNCHANGED <<world, op, arg, was, others, cfg, ghosts>>

\* ... draw a port for xray's API if the row has none, and save the whole row;
\* that drawing or saving failed is only logged ...
PortSaved(h) == IF snap[h].drawn THEN row ELSE [snap[h] EXCEPT !.drawn = TRUE]

\* ... and read the rest; the row as read is dropped.
Generated(h, step) ==
  /\ cfg' = [cfg EXCEPT ![h] = Desired]
  /\ Goto(h, step)

\* A hook only logs that generating failed.
GenerateConfig(h) ==
  /\ pc[h] = "configure"
  /\ \/ Generated(h, "write") /\ row' = PortSaved(h) /\ UNCHANGED ghosts
     \/ /\ Spoil
        /\ row' \in {row, PortSaved(h)}
        /\ \/ Generated(h, "write")
           \/ Goto(h, AfterRegenerate(h)) /\ UNCHANGED cfg
  /\ snap' = [snap EXCEPT ![h] = InitialRow]
  /\ UNCHANGED <<inbounds, enabled, rev, file, tmp, proc, op, arg, was, others>>

\* Mutant: the file is written beside the one the core reads.
WriteConfigAside(h) ==
  /\ pc[h] = "write"
  /\ tmp' = cfg[h]
  /\ Goto(h, AfterRegenerate(h))
  /\ cfg' = [cfg EXCEPT ![h] = EmptyConfig]
  /\ UNCHANGED <<inbounds, enabled, rev, row, file, proc, op, arg, was, others, snap, ghosts>>

\* ... and write what was generated.
WriteConfig(h) ==
  /\ pc[h] = "write"
  /\ \/ file' = cfg[h] /\ UNCHANGED ghosts
     \/ Spoil /\ UNCHANGED file
  /\ Goto(h, AfterRegenerate(h))
  /\ cfg' = [cfg EXCEPT ![h] = EmptyConfig]
  /\ UNCHANGED <<inbounds, enabled, rev, row, tmp, proc, op, arg, was, others, snap>>

\* The hook asks whether the core runs: a created inbound then starts or
\* restarts it; an updated or deleted one restarts it if it runs.  An error of
\* the call ends the operation.
Probe(h) ==
  /\ pc[h] = "probe"
  /\ \/ /\ Serving /\ Goto(h, "restart.row")
        /\ UNCHANGED <<world, op, locals, ghosts>>
     \/ /\ ~Serving /\ op[h] = "created" /\ Goto(h, "start.row")
        /\ UNCHANGED <<world, op, locals, ghosts>>
     \/ /\ ~Serving /\ op[h] # "created" /\ Finish(h)
        /\ UNCHANGED <<world, ghosts>>
     \/ /\ Spoil /\ Finish(h)
        /\ UNCHANGED world

-----------------------------------------------------------------------------
(* CoreManager: how StartCore, StopCore and RestartCore end.  Only         *)
(* RegenerateAndReload continues after RestartCore; when that failed it    *)
(* removes its temporary file.                                             *)

Succeed(h) ==
  IF op[h] = "touch"
  THEN Goto(h, "touch.rename") /\ UNCHANGED <<op, locals, tmp>>
  ELSE Finish(h) /\ UNCHANGED tmp

\* Mutant: the error path of RegenerateAndReload keeps the temporary file.
FailKeepsTemp(h) == Finish(h) /\ UNCHANGED tmp

Fail(h) ==
  /\ Finish(h)
  /\ tmp' = IF op[h] = "touch" THEN None ELSE tmp

\* core.LastError = err; db.Save(&core): the whole row as it was read.
SaveError(h) == row' = [snap[h] EXCEPT !.failed = TRUE]

\* API: POST /cores/{name}/start, /stop, /restart.
StartCore(h)   == /\ Begin(h, "start", None, "start.row")
                  /\ UNCHANGED <<world, was, others, cfg, snap>>
StopCore(h)    == /\ Begin(h, "stop", None, "stop.row")
                  /\ UNCHANGED <<world, was, others, cfg, snap>>
RestartCore(h) == /\ Begin(h, "restart", None, "restart.row")
                  /\ UNCHANGED <<world, was, others, cfg, snap>>

\* Each of the three first reads the row of the core.  (Its is_enabled, which
\* the start and the restart check, is true: nothing in the panel clears it.)
ReadRow(h) ==
  /\ \/ pc[h] = "start.row" /\ Goto(h, "start.check")
     \/ pc[h] = "stop.row" /\ Goto(h, "stop.check")
     \/ pc[h] = "restart.row" /\ Goto(h, "restart.stop")
  /\ snap' = [snap EXCEPT ![h] = row]
  /\ UNCHANGED <<world, op, arg, was, others, cfg, ghosts>>

\* StartCore refuses a core that already runs.
StartCheck(h) ==
  /\ pc[h] = "start.check"
  /\ \/ ~Serving /\ Goto(h, "start.call") /\ UNCHANGED <<op, locals, ghosts>>
     \/ Serving /\ Finish(h) /\ UNCHANGED ghosts
     \/ Spoil /\ Finish(h)
  /\ UNCHANGED world

\* supervisor.startProcess, which answers once the process is up: it spawns a
\* stopped process, which reads the file there is, and refuses any other
\* (ALREADY_STARTED).  When an answer is lost the call is repeated (withRetry)
\* and refused, so a failed call may have spawned the process.
StartCall(h) ==
  LET spawned == [state |-> "starting", config |-> file] IN
  /\ pc[h] = "start.call"
  /\ \/ /\ proc.state = "stopped"
        /\ proc' = spawned
        /\ Goto(h, "start.wait")
        /\ UNCHANGED <<row, tmp, op, locals, ghosts>>
     \/ /\ proc.state # "stopped"
        /\ SaveError(h) /\ Fail(h)
        /\ UNCHANGED <<proc, ghosts>>
     \/ /\ Spoil
        /\ proc' \in IF proc.state = "stopped" THEN {proc, spawned} ELSE {proc}
        /\ SaveError(h) /\ Fail(h)
  /\ UNCHANGED <<inbounds, enabled, rev, file>>

\* startProcess answers: the process is up, or it ended while starting.
StartAnswer(h) ==
  /\ pc[h] = "start.wait"
  /\ \/ /\ Serving /\ Goto(h, "start.confirm")
        /\ UNCHANGED <<row, tmp, op, locals>>
     \/ /\ proc.state = "stopped"
        /\ SaveError(h) /\ Fail(h)
  /\ UNCHANGED <<inbounds, enabled, rev, file, proc, ghosts>>

\* waitForProcess and GetProcessInfo: an error leaves the row as it is.
StartConfirm(h) ==
  /\ pc[h] = "start.confirm"
  /\ \/ /\ Serving /\ Goto(h, "start.save")
        /\ UNCHANGED <<op, locals, tmp, ghosts>>
     \/ ~Serving /\ Fail(h) /\ UNCHANGED ghosts
     \/ Spoil /\ Fail(h)
  /\ UNCHANGED <<inbounds, enabled, rev, row, file, proc>>

\* is_running = true, last_error = "".  (The port check after it only logs.)
StartSave(h) ==
  /\ pc[h] = "start.save"
  /\ row' = [snap[h] EXCEPT !.running = TRUE, !.failed = FALSE]
  /\ Succeed(h)
  /\ UNCHANGED <<inbounds, enabled, rev, file, proc, ghosts>>

\* RestartProcess: stop the process, which is no error if it is not running,
\* then start it.
RestartStop(h) ==
  LET stopped == [proc EXCEPT !.state = "stopped"] IN
  /\ pc[h] = "restart.stop"
  /\ \/ /\ proc' = stopped
        /\ Goto(h, "start.call")
        /\ UNCHANGED <<row, tmp, op, locals, ghosts>>
     \/ /\ Spoil
        /\ proc' \in {proc, stopped}
        /\ SaveError(h) /\ Fail(h)
  /\ UNCHANGED <<inbounds, enabled, rev, file>>

\* Mutant: StopCore refuses a core that runs.
StopCheckInverted(h) ==
  /\ pc[h] = "stop.check"
  /\ \/ ~Serving /\ Goto(h, "stop.call") /\ UNCHANGED <<op, locals, ghosts>>
     \/ Serving /\ Finish(h) /\ UNCHANGED ghosts
  /\ UNCHANGED world

\* StopCore: refuses a core that does not run, stops its process group, and
\* saves the row.
StopCheck(h) ==
  /\ pc[h] = "stop.check"
  /\ \/ Serving /\ Goto(h, "stop.call") /\ UNCHANGED <<op, locals, ghosts>>
     \/ ~Serving /\ Finish(h) /\ UNCHANGED ghosts
     \/ Spoil /\ Finish(h)
  /\ UNCHANGED world

StopCall(h) ==
  LET stopped == [proc EXCEPT !.state = "stopped"] IN
  /\ pc[h] = "stop.call"
  /\ \/ /\ proc' = stopped
        /\ Goto(h, "stop.save")
        /\ UNCHANGED <<row, op, locals, ghosts>>
     \/ /\ Spoil
        /\ proc' \in {proc, stopped}
        /\ SaveError(h) /\ Finish(h)
  /\ UNCHANGED <<inbounds, enabled, rev, file, tmp>>

StopSave(h) ==
  /\ pc[h] = "stop.save"
  /\ row' = [snap[h] EXCEPT !.running = FALSE, !.failed = FALSE]
  /\ Finish(h)
  /\ UNCHANGED <<inbounds, enabled, rev, file, tmp, proc, ghosts>>

-----------------------------------------------------------------------------
(* ConfigService.RegenerateAndReload: after a change of an outbound, a     *)
(* route, or the set of users that are over quota.                         *)

TouchData(h) ==
  /\ rev < MaxRev
  /\ Begin(h, "touch", None, "touch.generate")
  /\ rev' = rev + 1
  /\ UNCHANGED <<inbounds, enabled, row, file, tmp, proc, was, others, cfg, snap>>

TouchGenerate(h) ==
  LET generated == /\ Generated(h, "touch.write")
                   /\ snap' = [snap EXCEPT ![h] = InitialRow]
                   /\ UNCHANGED <<op, arg, was, others>>
  IN
  /\ pc[h] = "touch.configure"
  /\ \/ generated /\ row' = PortSaved(h) /\ UNCHANGED ghosts
     \/ /\ Spoil
        /\ row' \in {row, PortSaved(h)}
        /\ generated \/ Finish(h)
  /\ UNCHANGED <<inbounds, enabled, rev, file, tmp, proc>>

TouchWrite(h) ==
  /\ pc[h] = "touch.write"
  /\ \/ /\ tmp' = cfg[h]
        /\ Goto(h, "touch.probe")
        /\ cfg' = [cfg EXCEPT ![h] = EmptyConfig]
        /\ UNCHANGED <<op, arg, was, others, snap, ghosts>>
     \/ Spoil /\ Finish(h) /\ UNCHANGED tmp
  /\ UNCHANGED <<inbounds, enabled, rev, row, file, proc>>

\* A running core is restarted first; the new file is moved into place after.
TouchProbe(h) ==
  /\ pc[h] = "touch.probe"
  /\ \/ /\ Serving /\ Goto(h, "restart.row")
        /\ UNCHANGED <<op, locals, tmp, ghosts>>
     \/ /\ ~Serving /\ Goto(h, "touch.rename")
        /\ UNCHANGED <<op, locals, tmp, ghosts>>
     \/ Spoil /\ Fail(h)
  /\ UNCHANGED <<inbounds, enabled, rev, row, file, proc>>

TouchRename(h) ==
  /\ pc[h] = "touch.rename"
  /\ IF tmp # None THEN file' = tmp /\ tmp' = None ELSE UNCHANGED <<file, tmp>>
  /\ Goto(h, "touch.cleanup")
  /\ UNCHANGED <<inbounds, enabled, rev, row, proc, op, locals, ghosts>>

\* The deferred os.Remove of the path every caller shares.
TouchCleanup(h) ==
  /\ pc[h] = "touch.cleanup"
  /\ Fail(h)
  /\ UNCHANGED <<inbounds, enabled, rev, row, file, proc, ghosts>>

-----------------------------------------------------------------------------
(* Observers that write: GetCoreStatus / ListCores, and the watchdog.      *)

StatusRead(h) ==
  /\ Begin(h, "status", None, "status.check")
  /\ snap' = [snap EXCEPT ![h] = row]
  /\ UNCHANGED <<world, was, others, cfg>>

\* The row is saved whole if is_running differs from supervisord's answer.
StatusCheck(h) ==
  /\ pc[h] = "status.check"
  /\ \/ /\ row' = IF snap[h].running = Serving
                  THEN row
                  ELSE [snap[h] EXCEPT !.running = Serving]
        /\ UNCHANGED ghosts
     \/ Spoil /\ UNCHANGED row
  /\ Finish(h)
  /\ UNCHANGED <<inbounds, enabled, rev, file, tmp, proc>>

WatchdogRead(h) ==
  /\ Begin(h, "watchdog", None, "watchdog.save")
  /\ snap' = [snap EXCEPT ![h] = row]
  /\ UNCHANGED <<world, was, others, cfg>>

\* CheckHealth of the core's API, up to five seconds, then db.Save of the row
\* read before it.  A core that runs may still answer too late.
WatchdogSave(h) ==
  /\ pc[h] = "watchdog.save"
  /\ \/ row' = [snap[h] EXCEPT !.failed = ~Serving] /\ UNCHANGED ghosts
     \/ Spoil /\ row' = [snap[h] EXCEPT !.failed = TRUE]
  /\ Finish(h)
  /\ UNCHANGED <<inbounds, enabled, rev, file, tmp, proc>>

-----------------------------------------------------------------------------
(* supervisord and the panel process.                                      *)

\* startsecs have passed: STARTING becomes RUNNING.
ProcessUp ==
  /\ proc.state = "starting"
  /\ proc' = [proc EXCEPT !.state = "running"]
  /\ UNCHANGED <<inbounds, enabled, rev, row, file, tmp, pc, op, locals, ghosts>>

\* The core dies and supervisord (autorestart) spawns it again with the file
\* there is, or gives up while it starts (startretries).
ProcessDies ==
  /\ Spoil
  /\ \/ /\ proc.state = "running"
        /\ proc' = [state |-> "starting", config |-> file]
     \/ /\ proc.state = "starting"
        /\ proc' = [proc EXCEPT !.state = "stopped"]
  /\ UNCHANGED <<inbounds, enabled, rev, row, file, tmp, pc, op, locals>>

\* The panel dies at any point and comes back; h is its main goroutine, about
\* to run InitializeCores.  The core is a process of its own and survives.
PanelRestart(h) ==
  /\ Faulty
  /\ pc' = [g \in Handler |-> IF g = h THEN "init" ELSE "idle"]
  /\ op' = [g \in Handler |-> IF g = h THEN "init" ELSE "none"]
  /\ arg' = [g \in Handler |-> None]
  /\ was' = [g \in Handler |-> FALSE]
  /\ others' = [g \in Handler |-> FALSE]
  /\ cfg' = [g \in Handler |-> EmptyConfig]
  /\ snap' = [g \in Handler |-> InitialRow]
  /\ solo' = IF proc.state # "starting" THEN h ELSE None
  /\ clean' = FALSE
  /\ UNCHANGED world

\* Mutant: after a restart of the panel, trust is_running instead of asking
\* whether there is an enabled inbound.
InitializeCoreByRow(h) ==
  /\ pc[h] = "init"
  /\ IF row.running
     THEN Goto(h, "start.row") /\ UNCHANGED <<op, locals>>
     ELSE Finish(h)
  /\ UNCHANGED <<world, ghosts>>

\* InitializeCores / shouldCoreBeRunning.
InitializeCore(h) ==
  /\ pc[h] = "init"
  /\ \/ /\ enabled # {} /\ Goto(h, "start.row")
        /\ UNCHANGED <<op, locals, ghosts>>
     \/ enabled = {} /\ Finish(h) /\ UNCHANGED ghosts
     \/ Spoil /\ Finish(h)
  /\ UNCHANGED world

-----------------------------------------------------------------------------

Init ==
  /\ inbounds = [i \in Inbound |-> None]
  /\ enabled = {}
  /\ rev = 0
  /\ row \in {[InitialRow EXCEPT !.drawn = d] : d \in BOOLEAN}
  /\ file = EmptyConfig
  /\ tmp = None
  /\ proc = [state |-> "stopped", config |-> EmptyConfig]
  /\ pc = [h \in Handler |-> "idle"]
  /\ op = [h \in Handler |-> "none"]
  /\ arg = [h \in Handler |-> None]
  /\ was = [h \in Handler |-> FALSE]
  /\ others = [h \in Handler |-> FALSE]
  /\ cfg = [h \in Handler |-> EmptyConfig]
  /\ snap = [h \in Handler |-> InitialRow]
  /\ solo = None
  /\ clean = TRUE

\* A request or a timer starts an operation.
Arrive(h) ==
  \/ \E i \in Inbound : CreateInbound(h, i) \/ UpdateRead(h, i) \/ DeleteRead(h, i)
  \/ StartCore(h) \/ StopCore(h) \/ RestartCore(h) \/ TouchData(h)
  \/ StatusRead(h) \/ WatchdogRead(h)

\* An operation under way takes its next step.
Advance(h) ==
  \/ UpdateApply(h) \/ UpdateDispatch(h) \/ DeleteApply(h)
  \/ CountOthers(h) \/ ReadCore(h) \/ GenerateConfig(h) \/ WriteConfig(h) \/ Probe(h)
  \/ ReadRow(h) \/ StartCheck(h) \/ StartCall(h) \/ StartAnswer(h)
  \/ StartConfirm(h) \/ StartSave(h) \/ RestartStop(h)
  \/ StopCheck(h) \/ StopCall(h) \/ StopSave(h)
  \/ TouchGenerate(h) \/ TouchWrite(h) \/ TouchProbe(h) \/ TouchRename(h)
  \/ TouchCleanup(h) \/ StatusCheck(h) \/ WatchdogSave(h) \/ InitializeCore(h)

Next ==
  \/ \E h \in Handler : Arrive(h) \/ Advance(h) \/ PanelRestart(h)
  \/ ProcessUp \/ ProcessDies

Spec == Init /\ [][Next]_vars

-----------------------------------------------------------------------------
(* Properties.                                                             *)

\* What an administrator wants: these inbounds, with the rest as it is.
Wanted == [on |-> enabled, config |-> Desired]

Nothing(w) == w.on = {}

\* A configuration meets it if every enabled inbound is in it as its row says,
\* and otherwise those that have a row.  (Disabled inbounds are in it too, since
\* the generators take them all; what they were when it was generated may be
\* out of date, since no hook runs for a change of one that stays disabled.)
Meets(c, w) ==
  /\ c.rev = w.config.rev
  /\ \A i \in Inbound :
       IF i \in w.on THEN c.inb[i] = w.config.inb[i]
       ELSE c.inb[i] = None <=> w.config.inb[i] = None

Current(c) == Meets(c, Wanted)

\* What the panel promises of a core (docs/USER_MANUAL.md:413 and :460,
\* docs/MASTER_PLAN.md:166): it runs if and only if an inbound of it is enabled,
\* with a configuration that has these as their rows say; such a one is on disk,
\* and the row of the core says what supervisord says.
Consistent ==
  /\ Serving <=> enabled # {}
  /\ Serving => Current(proc.config)
  /\ Current(file)
  /\ row.running = Serving

\* As long as inbounds are created, updated and deleted one request at a time,
\* with status requests and watchdog passes between them and no failure, every
\* request leaves the core consistent: the hooks of core_lifecycle.go start,
\* restart and stop it exactly when needed and after the new file is written.
CleanConsistent == clean /\ AllIdle => Consistent

\* An operation repairs what earlier races, failures or restarts left behind,
\* provided it meets no other: creating or enabling an inbound brings the core
\* up with everything that is enabled; deleting or disabling one leaves no
\* running core with an old configuration, and none at all after the last;
\* InitializeCores brings the core up if an inbound is enabled; a status
\* request leaves is_running equal to what supervisord says; and
\* RegenerateAndReload leaves the new file in place and no temporary one.
AfterSolo(o) ==
  CASE o = "created" -> Serving' /\ proc'.config = Desired'
    [] o = "deleted" -> /\ Serving' => proc'.config = Desired'
                        /\ enabled' = {} => ~Serving'
    [] o = "init"    -> enabled' # {} => Serving'
    [] o = "status"  -> row'.running = Serving'
    [] o = "touch"   -> file' = Desired' /\ tmp' = None
    [] OTHER         -> TRUE

SoloRepairs ==
  [][\A h \in Handler :
       (solo = h /\ solo' = h /\ pc[h] # "idle" /\ pc'[h] = "idle")
         => AfterSolo(op[h])]_vars

\* With one goroutine, no failure and inbound operations only, this module
\* implements LazyCore: the core never comes up with an older configuration.
Lazy == INSTANCE LazyCore WITH
  Config <- [inb : [Inbound -> Content \cup {None}], rev : 0..MaxRev],
  Wish   <- [on : SUBSET Inbound,
             config : [inb : [Inbound -> Content \cup {None}], rev : 0..MaxRev]],
  Down   <- None,
  wanted <- Wanted,
  served <- IF Serving THEN proc.config ELSE None,
  busy   <- ~AllIdle
LazyStart == Lazy!Spec

\* No operation leaves its temporary file behind, however operations that
\* share the one path overlap; only a panel that dies may.
NoTempLeft == ~Faulty /\ AllIdle => tmp = None

(* Statements of the documentation that the code does not keep.            *)

\* docs/MASTER_PLAN.md:166, lazy start: a core runs only while it has active
\* inbounds.
CoreNeedsInbound == AllIdle /\ Serving => enabled # {}

\* docs/USER_MANUAL.md:413: a core starts when an inbound is created for it.
InboundIsServed == AllIdle /\ enabled # {} => Serving

\* docs/USER_MANUAL.md:460: the panel regenerates the configuration file at any
\* change of an inbound or outbound.
FileIsCurrent == AllIdle => file = Desired

\* services/config_service.go:102, "RegenerateAndReload regenerates config and
\* reloads the core": the running core has loaded the change.
ChangeIsLoaded == AllIdle /\ Serving => proc.config = Desired
=============================================================================
