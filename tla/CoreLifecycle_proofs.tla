----------------------- MODULE CoreLifecycle_proofs -----------------------
(***************************************************************************)
(* Proofs about CoreLifecycle for any set of inbounds, any number of       *)
(* goroutines, any operations, with and without faults: the variables have *)
(* their types; as long as the history is clean every request leaves the   *)
(* core consistent, and the module implements LazyCore; an operation that  *)
(* meets no other repairs whatever it finds; and no temporary file stays.  *)
(*                                                                         *)
(* CleanConsistent speaks of the moments when nothing runs.  CleanInv      *)
(* strengthens it to the moments between: nobody else runs, and for each   *)
(* step a handler may be at, what the steps before it have established and *)
(* the steps after it rely on.  SoloInv does so for an operation that      *)
(* starts from anything, TempInv for all that share the temporary file.    *)
(***************************************************************************)
EXTENDS CoreLifecycle, TLAPS

\* supervisord is not in the middle of spawning the core.
Quiet == proc.state # "starting"

\* The core between two requests.
Settled == Consistent /\ Quiet

\* The row of the core is right and the core is not being spawned.
Truthful == Quiet /\ row.running = Serving

InRegenerate == {"generate", "configure", "write", "probe"}

\* An inbound operation before its hook has touched the configuration file.
UpdateInv(h) ==
  /\ pc[h] = "apply" =>
       Settled /\ op[h] = "updated" /\ arg[h] \in Inbound
       /\ inbounds[arg[h]] # None /\ was[h] = (arg[h] \in enabled)
  /\ pc[h] = "dispatch" =>
       /\ Truthful /\ arg[h] \in Inbound
       /\ inbounds[arg[h]] # None
       /\ was[h] => Serving
       /\ ~was[h] /\ arg[h] \notin enabled => Consistent
       /\ enabled \ {arg[h]} # {} => Serving
       /\ Serving => was[h] \/ enabled \ {arg[h]} # {}
  /\ pc[h] = "erase" =>
       Settled /\ op[h] = "deleted" /\ arg[h] \in Inbound
  /\ pc[h] = "count" =>
       /\ Truthful /\ op[h] = "deleted" /\ arg[h] \in Inbound
       /\ arg[h] \notin enabled
       /\ enabled # {} => Serving

\* A hook that regenerates the file and then looks whether the core runs.
RegenerateInv(h) ==
  /\ pc[h] \in InRegenerate =>
       /\ Truthful /\ op[h] \in InboundOps
       /\ op[h] = "created" => enabled # {}
       /\ op[h] = "updated" => enabled # {} /\ Serving
       /\ op[h] = "deleted" => /\ others[h] <=> enabled # {}
                               /\ others[h] => Serving
  /\ pc[h] = "configure" => snap[h] = row
  /\ pc[h] = "write" => cfg[h] = Desired
  /\ pc[h] = "probe" => file = Desired /\ enabled # {}

\* StartCore, RestartCore and StopCore on behalf of a hook.
ManagerInv(h) ==
  /\ pc[h] \in {"start.row", "start.check", "start.call"} =>
       proc.state = "stopped" /\ file = Desired /\ enabled # {}
  /\ pc[h] \in {"start.wait", "start.confirm", "start.save"} =>
       /\ proc.state \in IF pc[h] = "start.wait" THEN {"starting", "running"}
                                                 ELSE {"running"}
       /\ file = Desired /\ proc.config = Desired /\ enabled # {}
  /\ pc[h] \in {"restart.row", "restart.stop"} =>
       Serving /\ file = Desired /\ enabled # {}
  /\ pc[h] \in {"stop.row", "stop.check"} =>
       Truthful /\ file = Desired /\ enabled = {}
  /\ pc[h] = "stop.call" => Quiet /\ file = Desired /\ enabled = {}
  /\ pc[h] = "stop.save" =>
       proc.state = "stopped" /\ file = Desired /\ enabled = {}

\* GetCoreStatus and the watchdog: the row they write back is the row there is.
ObserverInv(h) ==
  pc[h] \in {"status.check", "watchdog.save"} => Settled /\ snap[h] = row

HandlerInv(h) ==
  /\ pc[h] # "idle" => op[h] \in InboundOps \cup Observers
  /\ pc[h] \notin {"init", "touch.generate", "touch.configure", "touch.write", "touch.probe",
                   "touch.rename", "touch.cleanup"}
  /\ UpdateInv(h)
  /\ RegenerateInv(h)
  /\ ManagerInv(h)
  /\ ObserverInv(h)

CleanInv ==
  /\ \A h \in Handler : pc[h] # "idle" => Alone(h)
  /\ AllIdle => Settled
  /\ \A h \in Handler : HandlerInv(h)

IInv == TypeOK /\ (clean => CleanInv)

-----------------------------------------------------------------------------
(* Types.                                                                  *)

\* What the generators produce is a configuration.
LEMMA DesiredType == TypeOK => Desired \in Config /\ EmptyConfig \in Config /\ InitialRow \in Row
BY DEF TypeOK, Desired, Config, EmptyConfig, InitialRow, Row

\* The locals an operation that ends leaves behind.
LEMMA FinishType ==
  ASSUME TypeOK, NEW h \in Handler, Finish(h)
  PROVE  /\ pc' \in [Handler -> Steps]
         /\ op' \in [Handler -> AllOps \cup {"none"}]
         /\ arg' \in [Handler -> Inbound \cup {None}]
         /\ was' \in [Handler -> BOOLEAN]
         /\ others' \in [Handler -> BOOLEAN]
         /\ cfg' \in [Handler -> Config]
         /\ snap' \in [Handler -> Row]
BY DEF TypeOK, Finish, Steps, EmptyConfig, InitialRow, Config, Row

\* The states supervisord moves the process to.
LEMMA ProcessType ==
  ASSUME TypeOK
  PROVE  /\ [state |-> "starting", config |-> file] \in Process
         /\ \A s \in {"stopped", "running"} : [proc EXCEPT !.state = s] \in Process
BY DEF TypeOK, Process

\* So is what xray's generator saves.
LEMMA PortSavedType ==
  ASSUME TypeOK, NEW h \in Handler
  PROVE  PortSaved(h) \in Row
BY DEF TypeOK, PortSaved, Row

\* db.Save of a row read before is a row.
LEMMA SaveErrorType ==
  ASSUME TypeOK, NEW h \in Handler, SaveError(h)
  PROVE  row' \in Row
BY DEF TypeOK, SaveError, Row

\* No step leaves the types.
LEMMA TypeStep == TypeOK /\ [Next]_vars => TypeOK'
<1> SUFFICES ASSUME TypeOK, [Next]_vars PROVE TypeOK'
  OBVIOUS
<1> USE DesiredType DEF world, locals, ghosts, Goto, Spoil
<1>1. ASSUME NEW h \in Handler, Arrive(h) PROVE TypeOK'
  <2>1. ASSUME NEW i \in Inbound, CreateInbound(h, i) PROVE TypeOK'
    <3>1. inbounds' \in [Inbound -> Content \cup {None}]
      BY <2>1 DEF TypeOK, CreateInbound
    <3>2. enabled' \subseteq Inbound /\ \A j \in enabled' : inbounds'[j] # None
      BY <2>1, LifecycleAssumption DEF TypeOK, CreateInbound, LifecycleAssumption
    <3>3. UNCHANGED <<rev, row, file, tmp, proc, was, others, cfg, snap>>
      BY <2>1 DEF CreateInbound
    <3>4. /\ pc' = [pc EXCEPT ![h] = "generate"] /\ op' = [op EXCEPT ![h] = "created"]
          /\ arg' = [arg EXCEPT ![h] = i] /\ solo' \in {h, None}
          /\ clean' \in BOOLEAN
      BY <2>1 DEF TypeOK, CreateInbound, Begin
    <3> QED BY <3>1, <3>2, <3>3, <3>4 DEF TypeOK, Steps, AllOps, InboundOps, Observers
  <2>2. ASSUME NEW i \in Inbound, UpdateRead(h, i) PROVE TypeOK'
    BY <2>2 DEF TypeOK, UpdateRead, Begin, Steps, AllOps, InboundOps, Observers
  <2>3. ASSUME NEW i \in Inbound, DeleteRead(h, i) PROVE TypeOK'
    BY <2>3 DEF TypeOK, DeleteRead, Begin, Steps, AllOps, InboundOps, Observers
  <2>4. CASE StartCore(h) \/ StopCore(h) \/ RestartCore(h)
    BY <2>4 DEF TypeOK, StartCore, StopCore, RestartCore, Begin, Steps, AllOps, InboundOps, Observers
  <2>5. CASE TouchData(h)
    BY <2>5 DEF TypeOK, TouchData, Begin, Steps, AllOps, InboundOps, Observers
  <2>6. CASE StatusRead(h)
    BY <2>6 DEF TypeOK, StatusRead, Begin, Steps, AllOps, InboundOps, Observers
  <2>7. CASE WatchdogRead(h)
    BY <2>7 DEF TypeOK, WatchdogRead, Begin, Steps, AllOps, InboundOps, Observers
  <2> QED BY <1>1, <2>1, <2>2, <2>3, <2>4, <2>5, <2>6, <2>7 DEF Arrive
<1>2. ASSUME NEW h \in Handler, Advance(h) PROVE TypeOK'
  <2>1. CASE UpdateApply(h)
    <3>1. CASE UNCHANGED <<inbounds, enabled>>
      BY <2>1, <3>1 DEF TypeOK, UpdateApply, Steps
    <3>2. ASSUME NEW i \in Inbound, NEW c \in Content,
                 inbounds' = [inbounds EXCEPT ![i] = c],
                 enabled' \in {enabled \cup {i}, enabled \ {i}}
          PROVE  TypeOK'
      <4>1. inbounds' \in [Inbound -> Content \cup {None}]
        BY <3>2 DEF TypeOK
      <4>2. enabled' \subseteq Inbound /\ \A j \in enabled' : inbounds'[j] # None
        BY <3>2, LifecycleAssumption DEF TypeOK, LifecycleAssumption
      <4> QED BY <2>1, <4>1, <4>2 DEF TypeOK, UpdateApply, Steps
    <3> QED BY <2>1, <3>1, <3>2 DEF UpdateApply
  <2>2. CASE UpdateDispatch(h)
    BY <2>2, FinishType DEF TypeOK, UpdateDispatch, Steps, AllOps, InboundOps
  <2>3. CASE DeleteApply(h) \/ CountOthers(h)
    BY <2>3 DEF TypeOK, DeleteApply, CountOthers, Steps
  <2>22. CASE ReadCore(h)
    BY <2>22 DEF TypeOK, ReadCore, Steps
  <2>4. CASE GenerateConfig(h)
    BY <2>4, PortSavedType DEF TypeOK, GenerateConfig, Generated, AfterRegenerate, Steps
  <2>20. CASE WriteConfig(h)
    BY <2>20 DEF TypeOK, WriteConfig, AfterRegenerate, Steps
  <2>5. CASE Probe(h)
    BY <2>5, FinishType DEF TypeOK, Probe, Steps
  <2>6. CASE ReadRow(h)
    BY <2>6 DEF TypeOK, ReadRow, Steps
  <2>7. CASE StartCheck(h) \/ StopCheck(h)
    BY <2>7, FinishType DEF TypeOK, StartCheck, StopCheck, Steps
  <2>8. CASE StartCall(h)
    BY <2>8, FinishType, ProcessType, SaveErrorType DEF TypeOK, StartCall, Fail, Steps
  <2>9. CASE StartAnswer(h)
    BY <2>9, FinishType DEF TypeOK, StartAnswer, SaveError, Fail, Steps, Row
  <2>10. CASE StartConfirm(h)
    BY <2>10, FinishType DEF TypeOK, StartConfirm, Fail, Steps
  <2>11. CASE StartSave(h)
    BY <2>11, FinishType DEF TypeOK, StartSave, Succeed, Steps, Row
  <2>12. CASE RestartStop(h)
    BY <2>12, FinishType, ProcessType, SaveErrorType DEF TypeOK, RestartStop, Fail, Steps
  <2>13. CASE StopCall(h)
    BY <2>13, FinishType, ProcessType, SaveErrorType DEF TypeOK, StopCall, Steps
  <2>14. CASE StopSave(h)
    BY <2>14, FinishType DEF TypeOK, StopSave, Row
  <2>15. CASE TouchGenerate(h)
    <3>1. row' \in Row
      BY <2>15, PortSavedType DEF TypeOK, TouchGenerate
    <3>2. CASE Finish(h)
      BY <2>15, <3>1, <3>2, FinishType DEF TypeOK, TouchGenerate
    <3>3. CASE ~Finish(h)
      BY <2>15, <3>1, <3>3 DEF TypeOK, TouchGenerate, Generated, Steps
    <3> QED BY <3>2, <3>3
  <2>21. CASE TouchWrite(h)
    <3>1. CASE tmp' = cfg[h] /\ Goto(h, "touch.probe") /\ cfg' = [cfg EXCEPT ![h] = EmptyConfig]
              /\ UNCHANGED <<op, arg, was, others, snap, ghosts>>
      BY <2>21, <3>1 DEF TypeOK, TouchWrite, Steps
    <3>2. CASE Spoil /\ Finish(h) /\ UNCHANGED tmp
      BY <2>21, <3>2, FinishType DEF TypeOK, TouchWrite
    <3> QED BY <2>21, <3>1, <3>2 DEF TouchWrite
  <2>16. CASE TouchProbe(h)
    BY <2>16, FinishType DEF TypeOK, TouchProbe, Fail, Steps
  <2>17. CASE TouchRename(h) \/ TouchCleanup(h)
    BY <2>17, FinishType DEF TypeOK, TouchRename, TouchCleanup, Fail, Steps
  <2>18. CASE StatusCheck(h) \/ WatchdogSave(h)
    BY <2>18, FinishType DEF TypeOK, StatusCheck, WatchdogSave, Serving, Row
  <2>19. CASE InitializeCore(h)
    BY <2>19, FinishType DEF TypeOK, InitializeCore, Steps
  <2> QED BY <1>2, <2>1, <2>2, <2>3, <2>4, <2>5, <2>6, <2>7, <2>8, <2>9, <2>10, <2>11, <2>12, <2>13, <2>14, <2>15, <2>16, <2>17, <2>18, <2>19, <2>20, <2>21, <2>22 DEF Advance
<1>3. ASSUME NEW h \in Handler, PanelRestart(h) PROVE TypeOK'
  BY <1>3 DEF TypeOK, PanelRestart, Steps, AllOps, EmptyConfig, InitialRow, Config, Row
<1>4. CASE ProcessUp \/ ProcessDies
  BY <1>4, ProcessType DEF TypeOK, ProcessUp, ProcessDies
<1>5. CASE UNCHANGED vars
  BY <1>5 DEF TypeOK, vars
<1> QED BY <1>1, <1>2, <1>3, <1>4, <1>5 DEF Next

-----------------------------------------------------------------------------
(* One request at a time.                                                  *)

\* Where only h runs, CleanInv is a matter of h and of the settled state.
LEMMA OneHandler ==
  ASSUME NEW h \in Handler, Alone(h),
         \A g \in Handler \ {h} : pc'[g] = pc[g],
         pc'[h] = "idle" => Settled',
         HandlerInv(h)'
  PROVE  CleanInv'
<1>1. \A g \in Handler \ {h} : pc'[g] = "idle"
  BY DEF Alone
<1>2. ASSUME NEW g \in Handler, g # h PROVE HandlerInv(g)'
  BY <1>1, <1>2 DEF HandlerInv, UpdateInv, RegenerateInv, InRegenerate, ManagerInv, ObserverInv
<1>3. \A g \in Handler : HandlerInv(g)'
  BY <1>2
<1>4. AllIdle' => Settled'
  BY DEF AllIdle
<1>5. \A g \in Handler : pc'[g] # "idle" => Alone(g)'
  BY <1>1 DEF Alone
<1> QED BY <1>3, <1>4, <1>5 DEF CleanInv

\* An operation that ends in a settled state keeps CleanInv.
LEMMA Finished ==
  ASSUME TypeOK, NEW h \in Handler, Alone(h), Finish(h), Settled'
  PROVE  CleanInv'
<1>1. pc'[h] = "idle" /\ \A g \in Handler \ {h} : pc'[g] = pc[g]
  BY DEF TypeOK, Finish
<1>2. HandlerInv(h)'
  BY <1>1 DEF HandlerInv, UpdateInv, RegenerateInv, InRegenerate, ManagerInv, ObserverInv
<1> QED BY <1>1, <1>2, OneHandler

\* What the generators produce is what is wanted.
LEMMA DesiredIsCurrent == Meets(Desired, Wanted)
BY DEF Meets, Wanted, Desired

\* Steps of the locals keep the core settled.
LEMMA SettledKept ==
  ASSUME Settled, UNCHANGED world
  PROVE  Settled'
BY DEF world, Settled, Consistent, Current, Meets, Wanted, Quiet, Serving, Desired

\* A request arrives when nothing runs: otherwise the history is not clean.
LEMMA ArriveClean ==
  ASSUME TypeOK, clean => CleanInv, NEW h \in Handler, Arrive(h), clean'
  PROVE  CleanInv'
<1>1. ASSUME NEW o, NEW i, NEW step, Begin(h, o, i, step)
      PROVE  /\ pc[h] = "idle" /\ Alone(h) /\ Settled
             /\ o \in InboundOps \cup Observers
             /\ pc' = [pc EXCEPT ![h] = step]
             /\ op' = [op EXCEPT ![h] = o]
             /\ arg' = [arg EXCEPT ![h] = i]
  <2>1. clean /\ Alone(h) /\ pc[h] = "idle" /\ o \in InboundOps \cup Observers
    BY <1>1 DEF Begin
  <2>2. AllIdle
    BY <2>1 DEF AllIdle, Alone
  <2> QED BY <1>1, <2>1, <2>2 DEF Begin, CleanInv
<1>2. ASSUME NEW i \in Inbound, CreateInbound(h, i) PROVE CleanInv'
  <2>1. pc[h] = "idle" /\ Alone(h) /\ Settled
    BY <1>1, <1>2 DEF CreateInbound
  <2>2. pc'[h] = "generate" /\ \A g \in Handler \ {h} : pc'[g] = pc[g]
    BY <1>1, <1>2 DEF CreateInbound, TypeOK
  <2>3. op'[h] = "created"
    BY <1>1, <1>2 DEF CreateInbound, TypeOK
  <2>4. i \in enabled'
    BY <1>2 DEF CreateInbound, TypeOK
  <2>5. Truthful'
    BY <1>2, <2>1 DEF CreateInbound, Truthful, Settled, Consistent, Current, Meets, Wanted, Quiet, Serving
  <2>6. HandlerInv(h)'
    BY <2>2, <2>3, <2>4, <2>5 DEF HandlerInv, UpdateInv, RegenerateInv, InRegenerate, ManagerInv, ObserverInv, InboundOps
  <2> QED BY <2>1, <2>2, <2>6, OneHandler
<1>3. ASSUME NEW i \in Inbound, UpdateRead(h, i) PROVE CleanInv'
  <2>1. pc[h] = "idle" /\ Alone(h) /\ Settled
    BY <1>1, <1>3 DEF UpdateRead
  <2>2. pc'[h] = "apply" /\ \A g \in Handler \ {h} : pc'[g] = pc[g]
    BY <1>1, <1>3 DEF UpdateRead, TypeOK
  <2>3. op'[h] = "updated" /\ arg'[h] = i
    BY <1>1, <1>3 DEF UpdateRead, TypeOK
  <2>4. was'[h] = (i \in enabled') /\ inbounds'[i] # None
    BY <1>3 DEF UpdateRead, world, TypeOK
  <2>5. Settled'
    BY <1>3, <2>1, SettledKept DEF UpdateRead
  <2>6. HandlerInv(h)'
    BY <2>2, <2>3, <2>4, <2>5 DEF HandlerInv, UpdateInv, RegenerateInv, InRegenerate, ManagerInv, ObserverInv, InboundOps
  <2> QED BY <2>1, <2>2, <2>6, OneHandler
<1>4. ASSUME NEW i \in Inbound, DeleteRead(h, i) PROVE CleanInv'
  <2>1. pc[h] = "idle" /\ Alone(h) /\ Settled
    BY <1>1, <1>4 DEF DeleteRead
  <2>2. pc'[h] = "erase" /\ \A g \in Handler \ {h} : pc'[g] = pc[g]
    BY <1>1, <1>4 DEF DeleteRead, TypeOK
  <2>3. op'[h] = "deleted" /\ arg'[h] = i
    BY <1>1, <1>4 DEF DeleteRead, TypeOK
  <2>5. Settled'
    BY <1>4, <2>1, SettledKept DEF DeleteRead
  <2>6. HandlerInv(h)'
    BY <2>2, <2>3, <2>5 DEF HandlerInv, UpdateInv, RegenerateInv, InRegenerate, ManagerInv, ObserverInv, InboundOps
  <2> QED BY <2>1, <2>2, <2>6, OneHandler
<1>5. CASE StatusRead(h) \/ WatchdogRead(h)
  <2>1. pc[h] = "idle" /\ Alone(h) /\ Settled
    BY <1>1, <1>5 DEF StatusRead, WatchdogRead
  <2>2. pc'[h] \in {"status.check", "watchdog.save"} /\ \A g \in Handler \ {h} : pc'[g] = pc[g]
    BY <1>1, <1>5 DEF StatusRead, WatchdogRead, TypeOK
  <2>3. op'[h] \in Observers
    BY <1>1, <1>5 DEF StatusRead, WatchdogRead, TypeOK, Observers
  <2>5. Settled'
    BY <1>5, <2>1, SettledKept DEF StatusRead, WatchdogRead
  <2>4. snap'[h] = row'
    BY <1>5 DEF StatusRead, WatchdogRead, world, TypeOK
  <2>6. HandlerInv(h)'
    BY <2>2, <2>3, <2>4, <2>5 DEF HandlerInv, UpdateInv, RegenerateInv, InRegenerate, ManagerInv, ObserverInv
  <2> QED BY <2>1, <2>2, <2>6, OneHandler
<1>6. CASE StartCore(h) \/ StopCore(h) \/ RestartCore(h) \/ TouchData(h)
  BY <1>1, <1>6 DEF StartCore, StopCore, RestartCore, TouchData, InboundOps, Observers
<1> QED BY <1>2, <1>3, <1>4, <1>5, <1>6 DEF Arrive

\* InboundService up to the hook's regeneration of the file.
LEMMA InboundStepsClean ==
  ASSUME TypeOK, NEW h \in Handler, Alone(h), HandlerInv(h),
         UpdateApply(h) \/ UpdateDispatch(h) \/ DeleteApply(h) \/ CountOthers(h),
         TypeOK'
  PROVE  CleanInv'
<1> USE DEF HandlerInv, UpdateInv, RegenerateInv, InRegenerate, ManagerInv, ObserverInv
<1>1. CASE UpdateApply(h)
  <2>1. /\ Settled /\ op[h] = "updated" /\ arg[h] \in Inbound
        /\ inbounds[arg[h]] # None /\ was[h] = (arg[h] \in enabled)
    BY <1>1 DEF UpdateApply
  <2>2. pc' = [pc EXCEPT ![h] = "dispatch"]
    BY <1>1 DEF UpdateApply, Goto
  <2>3. UNCHANGED <<row, file, proc, op, arg, was>>
    BY <1>1 DEF UpdateApply, locals
  <2>4. Truthful'
    BY <2>1, <2>3 DEF Truthful, Settled, Consistent, Current, Meets, Wanted, Quiet, Serving
  <2>10. PICK c \in Content : inbounds' = [inbounds EXCEPT ![arg[h]] = c]
    BY <1>1, <2>1 DEF UpdateApply
  <2>11. enabled' = enabled \cup {arg[h]} \/ enabled' = enabled \ {arg[h]}
    BY <1>1, <2>1 DEF UpdateApply
  <2>5. inbounds'[arg[h]] # None /\ enabled' \ {arg[h]} = enabled \ {arg[h]}
    <3>1. c # None
      BY LifecycleAssumption DEF LifecycleAssumption
    <3> QED BY <2>1, <2>10, <2>11, <3>1 DEF TypeOK
  <2>6. was[h] <=> arg[h] \in enabled
    BY <2>1
  <2>7. Serving' <=> enabled # {}
    BY <2>1, <2>3 DEF Settled, Consistent, Serving
  <2>8. ASSUME ~was[h], arg[h] \notin enabled' PROVE Consistent'
    <3>1. enabled' = enabled
      BY <2>6, <2>8, <2>11
    <3>2. rev' = rev
      BY <1>1 DEF UpdateApply
    <3>3. \A i \in Inbound : /\ i \in enabled => inbounds'[i] = inbounds[i]
                             /\ inbounds'[i] = None <=> inbounds[i] = None
      BY <2>1, <2>5, <2>6, <2>8, <2>10 DEF TypeOK
    <3>4. ASSUME NEW k, Meets(k, Wanted) PROVE Meets(k, Wanted')
      BY <3>1, <3>2, <3>3, <3>4 DEF Meets, Wanted, Desired
    <3> QED BY <2>1, <2>3, <3>1, <3>4 DEF Settled, Consistent, Current, Serving
  <2>9. HandlerInv(h)'
    BY <2>1, <2>2, <2>3, <2>4, <2>5, <2>6, <2>7, <2>8 DEF TypeOK, InboundOps
  <2> QED BY <2>2, <2>9, OneHandler DEF TypeOK
<1>2. CASE UpdateDispatch(h)
  <2>1. /\ Truthful /\ arg[h] \in Inbound
        /\ inbounds[arg[h]] # None
        /\ was[h] => Serving
        /\ ~was[h] /\ arg[h] \notin enabled => Consistent
        /\ enabled \ {arg[h]} # {} => Serving
        /\ Serving => was[h] \/ enabled \ {arg[h]} # {}
    BY <1>2 DEF UpdateDispatch
  <2>2. arg[h] \in enabled <=> arg[h] \in enabled
    BY <2>1
  <2>3. CASE arg[h] \notin enabled /\ ~was[h]
    <3>1. Finish(h) /\ UNCHANGED world
      BY <1>2, <2>3 DEF UpdateDispatch
    <3>2. Settled
      BY <2>1, <2>3 DEF Settled, Truthful
    <3> QED BY <3>1, <3>2, SettledKept, Finished
  <2>4. CASE arg[h] \in enabled
    <3>1. /\ op' = [op EXCEPT ![h] = IF was[h] THEN "updated" ELSE "created"]
          /\ pc' = [pc EXCEPT ![h] = "generate"]
          /\ UNCHANGED world
      BY <1>2, <2>4 DEF UpdateDispatch, Goto
    <3>2. Truthful' /\ enabled' = enabled /\ Serving' = Serving
      BY <2>1, <3>1 DEF Truthful, Quiet, Serving, world
    <3>3. op'[h] = "created" \/ (op'[h] = "updated" /\ Serving)
      BY <2>1, <3>1 DEF TypeOK
    <3>4. HandlerInv(h)'
      BY <2>2, <2>4, <3>1, <3>2, <3>3 DEF TypeOK, InboundOps
    <3> QED BY <3>1, <3>4, OneHandler DEF TypeOK
  <2>5. CASE arg[h] \notin enabled /\ was[h]
    <3>1. /\ op' = [op EXCEPT ![h] = "deleted"]
          /\ pc' = [pc EXCEPT ![h] = "count"]
          /\ UNCHANGED world /\ UNCHANGED arg
      BY <1>2, <2>5 DEF UpdateDispatch, Goto, locals
    <3>2. Truthful' /\ enabled' = enabled /\ Serving' = Serving
      BY <2>1, <3>1 DEF Truthful, Quiet, Serving, world
    <3>3. HandlerInv(h)'
      BY <2>1, <2>2, <2>5, <3>1, <3>2 DEF TypeOK, InboundOps
    <3> QED BY <3>1, <3>3, OneHandler DEF TypeOK
  <2> QED BY <2>1, <2>3, <2>4, <2>5 DEF TypeOK
<1>3. CASE DeleteApply(h)
  <2>1. Settled /\ op[h] = "deleted" /\ arg[h] \in Inbound
    BY <1>3 DEF DeleteApply
  <2>2. /\ pc' = [pc EXCEPT ![h] = "count"]
        /\ UNCHANGED <<row, proc, op, arg>>
    BY <1>3 DEF DeleteApply, Goto, locals
  <2>3. enabled' = enabled \ {arg[h]}
    BY <1>3, <2>1 DEF DeleteApply, TypeOK
  <2>4. Truthful' /\ (Serving' <=> enabled # {})
    BY <2>1, <2>2 DEF Truthful, Settled, Consistent, Current, Meets, Wanted, Quiet, Serving
  <2>5. HandlerInv(h)'
    BY <2>1, <2>2, <2>3, <2>4 DEF TypeOK, InboundOps
  <2> QED BY <2>2, <2>5, OneHandler DEF TypeOK
<1>4. CASE CountOthers(h)
  <2>1. /\ Truthful /\ op[h] = "deleted" /\ arg[h] \in Inbound
        /\ arg[h] \notin enabled
        /\ enabled # {} => Serving
    BY <1>4 DEF CountOthers
  <2>2. /\ pc' = [pc EXCEPT ![h] = "generate"]
        /\ UNCHANGED world /\ UNCHANGED op
    BY <1>4 DEF CountOthers, Goto
  <2>3. others'[h] <=> enabled # {}
    <3>1. enabled \ {arg[h]} = enabled
      BY <2>1
    <3> QED BY <1>4, <3>1 DEF CountOthers, TypeOK
  <2>4. Truthful' /\ enabled' = enabled /\ Serving' = Serving
    BY <2>1, <2>2 DEF Truthful, Quiet, Serving, world
  <2>5. HandlerInv(h)'
    BY <2>1, <2>2, <2>3, <2>4 DEF TypeOK, InboundOps
  <2> QED BY <2>2, <2>5, OneHandler DEF TypeOK
<1> QED BY <1>1, <1>2, <1>3, <1>4

\* RegenerateConfig of a hook, and what the hook does next.
LEMMA RegenerateStepsClean ==
  ASSUME TypeOK, NEW h \in Handler, Alone(h), HandlerInv(h), clean',
         ReadCore(h) \/ GenerateConfig(h) \/ WriteConfig(h) \/ Probe(h), TypeOK'
  PROVE  CleanInv'
<1> USE DEF HandlerInv, UpdateInv, RegenerateInv, InRegenerate, ManagerInv, ObserverInv
<1> DEFINE Aim == /\ Truthful /\ op[h] \in InboundOps
                  /\ op[h] = "created" => enabled # {}
                  /\ op[h] = "updated" => enabled # {} /\ Serving
                  /\ op[h] = "deleted" => /\ others[h] <=> enabled # {}
                                          /\ others[h] => Serving
<1>1. Aim /\ pc[h] \in InRegenerate
  BY DEF ReadCore, GenerateConfig, WriteConfig, Probe
<1>2. CASE GenerateConfig(h)
  <2>0. snap[h] = row
    BY <1>2 DEF GenerateConfig
  <2>1. /\ pc' = [pc EXCEPT ![h] = "write"] /\ cfg' = [cfg EXCEPT ![h] = Desired]
        /\ row' = PortSaved(h)
        /\ UNCHANGED <<inbounds, enabled, rev, file, proc, op, others>>
    BY <1>2 DEF GenerateConfig, Generated, Goto, Spoil
  <2>4. row'.running = row.running
    BY <2>0, <2>1 DEF PortSaved, TypeOK, Row
  <2>2. Aim' /\ Desired' = Desired
    <3> HIDE DEF HandlerInv, UpdateInv, RegenerateInv, ManagerInv, ObserverInv
    <3> QED BY <1>1, <2>1, <2>4 DEF Truthful, Quiet, Serving, Desired
  <2>3. HandlerInv(h)'
    BY <1>1, <2>1, <2>2 DEF TypeOK
  <2> QED BY <2>1, <2>3, OneHandler DEF TypeOK
<1>5. CASE ReadCore(h)
  <2>1. pc[h] = "generate" /\ pc' = [pc EXCEPT ![h] = "configure"]
    BY <1>5 DEF ReadCore, Goto
  <2>2. snap'[h] = row' /\ UNCHANGED <<inbounds, enabled, rev, row, file, proc, op, others>>
    BY <1>5 DEF ReadCore, world, TypeOK
  <2>3. Aim'
    <3> HIDE DEF HandlerInv, UpdateInv, RegenerateInv, ManagerInv, ObserverInv
    <3> QED BY <1>1, <2>2 DEF Truthful, Quiet, Serving
  <2>4. HandlerInv(h)'
    BY <1>1, <2>1, <2>2, <2>3 DEF TypeOK
  <2> QED BY <2>1, <2>4, OneHandler DEF TypeOK
<1>3. CASE WriteConfig(h)
  <2>1. /\ pc' = [pc EXCEPT ![h] = AfterRegenerate(h)]
        /\ file' = cfg[h]
        /\ UNCHANGED <<inbounds, enabled, rev, row, proc, op, others>>
    BY <1>3 DEF WriteConfig, Goto, Spoil, locals
  <2>2. cfg[h] = Desired /\ op[h] \in InboundOps \cup Observers
    BY <1>3 DEF WriteConfig
  <2>3. file' = Desired' /\ enabled' = enabled
    BY <2>1, <2>2 DEF Desired
  <2>4. Aim'
    <3> HIDE DEF HandlerInv, UpdateInv, RegenerateInv, ManagerInv, ObserverInv
    <3> QED BY <1>1, <2>1, <2>3 DEF Truthful, Quiet, Serving
  <2>5. CASE op[h] = "deleted" /\ ~others[h]
    <3>1. pc'[h] = "stop.row" /\ enabled = {}
      BY <1>1, <2>1, <2>5 DEF AfterRegenerate, TypeOK
    <3>2. HandlerInv(h)'
      BY <2>1, <2>2, <2>3, <2>4, <3>1
    <3> QED BY <2>1, <3>1, <3>2, OneHandler DEF TypeOK
  <2>6. CASE ~(op[h] = "deleted" /\ ~others[h])
    <3>1. pc'[h] = "probe"
      BY <2>1, <2>6 DEF AfterRegenerate, TypeOK
    <3>2. enabled # {}
      BY <1>1, <2>6 DEF InboundOps
    <3>3. HandlerInv(h)'
      BY <2>1, <2>2, <2>3, <2>4, <3>1, <3>2
    <3> QED BY <2>1, <3>1, <3>3, OneHandler DEF TypeOK
  <2> QED BY <2>5, <2>6
<1>4. CASE Probe(h)
  <2>1. file = Desired /\ enabled # {} /\ op[h] \in InboundOps \cup Observers
    BY <1>4 DEF Probe
  <2>2. ~Spoil
    BY DEF Spoil
  <2>3. CASE Serving
    <3>1. pc' = [pc EXCEPT ![h] = "restart.row"] /\ UNCHANGED world /\ UNCHANGED op
      BY <1>4, <2>2, <2>3 DEF Probe, Goto
    <3>2. Serving' /\ file' = Desired' /\ enabled' = enabled
      BY <2>1, <2>3, <3>1 DEF Serving, Desired, world
    <3>3. HandlerInv(h)'
      BY <2>1, <3>1, <3>2 DEF TypeOK
    <3> QED BY <3>1, <3>3, OneHandler DEF TypeOK
  <2>4. CASE ~Serving
    <3>1. op[h] = "created"
      BY <1>1, <2>1, <2>4 DEF InboundOps
    <3>2. pc' = [pc EXCEPT ![h] = "start.row"] /\ UNCHANGED world /\ UNCHANGED op
      BY <1>4, <2>2, <2>4, <3>1 DEF Probe, Goto
    <3>3. proc'.state = "stopped" /\ file' = Desired' /\ enabled' = enabled
      BY <1>1, <2>1, <2>4, <3>2 DEF Serving, Truthful, Quiet, Desired, world, TypeOK, Process
    <3>4. HandlerInv(h)'
      BY <2>1, <3>2, <3>3 DEF TypeOK
    <3> QED BY <3>2, <3>4, OneHandler DEF TypeOK
  <2> QED BY <2>3, <2>4
<1> QED BY <1>2, <1>3, <1>4, <1>5

\* StartCore, RestartCore and StopCore.
LEMMA StartStepsClean ==
  ASSUME TypeOK, NEW h \in Handler, Alone(h), HandlerInv(h), clean',
         \/ ReadRow(h) \/ StartCheck(h) \/ StartCall(h) \/ StartAnswer(h)
         \/ StartConfirm(h) \/ StartSave(h) \/ RestartStop(h),
         TypeOK'
  PROVE  CleanInv'
<1> USE DEF HandlerInv, UpdateInv, RegenerateInv, InRegenerate, ManagerInv, ObserverInv
<1>0. ~Spoil
  BY DEF Spoil
<1>1. CASE ReadRow(h)
  <2>1. CASE pc[h] \in {"start.row", "restart.row"}
    <3>1. /\ pc' = [pc EXCEPT ![h] = IF pc[h] = "start.row" THEN "start.check" ELSE "restart.stop"]
          /\ UNCHANGED world /\ UNCHANGED op
      BY <1>1, <2>1 DEF ReadRow, Goto
    <3>2. file' = Desired' /\ enabled' = enabled /\ Serving' = Serving /\ proc' = proc
      BY <2>1, <3>1 DEF Serving, Desired, world
    <3>3. HandlerInv(h)'
      BY <2>1, <3>1, <3>2 DEF TypeOK
    <3> QED BY <3>1, <3>3, OneHandler DEF TypeOK
  <2>2. CASE pc[h] = "stop.row"
    <3>1. pc' = [pc EXCEPT ![h] = "stop.check"] /\ UNCHANGED world /\ UNCHANGED op
      BY <1>1, <2>2 DEF ReadRow, Goto
    <3>2. file' = Desired' /\ enabled' = enabled /\ Truthful'
      BY <2>2, <3>1 DEF Serving, Desired, world, Truthful, Quiet
    <3>3. HandlerInv(h)'
      BY <2>2, <3>1, <3>2 DEF TypeOK
    <3> QED BY <3>1, <3>3, OneHandler DEF TypeOK
  <2> QED BY <1>1, <2>1, <2>2 DEF ReadRow
<1>2. CASE StartCheck(h)
  <2>1. proc.state = "stopped" /\ file = Desired /\ enabled # {}
    BY <1>2 DEF StartCheck
  <2>2. pc' = [pc EXCEPT ![h] = "start.call"] /\ UNCHANGED world /\ UNCHANGED op
    BY <1>0, <1>2, <2>1 DEF StartCheck, Goto, Serving
  <2>3. file' = Desired' /\ enabled' = enabled /\ proc' = proc
    BY <2>1, <2>2 DEF Desired, world
  <2>4. HandlerInv(h)'
    BY <1>2, <2>1, <2>2, <2>3 DEF TypeOK, StartCheck
  <2> QED BY <2>2, <2>4, OneHandler DEF TypeOK
<1>3. CASE StartCall(h)
  <2>1. proc.state = "stopped" /\ file = Desired /\ enabled # {}
    BY <1>3 DEF StartCall
  <2>2. /\ pc' = [pc EXCEPT ![h] = "start.wait"]
        /\ proc' = [state |-> "starting", config |-> file]
        /\ UNCHANGED <<inbounds, enabled, rev, file, op>>
    BY <1>0, <1>3, <2>1 DEF StartCall, Goto
  <2>3. file' = Desired' /\ Desired' = Desired /\ enabled' = enabled
    BY <2>1, <2>2 DEF Desired
  <2>4. HandlerInv(h)'
    BY <1>3, <2>1, <2>2, <2>3 DEF TypeOK, StartCall
  <2> QED BY <2>2, <2>4, OneHandler DEF TypeOK
<1>4. CASE StartAnswer(h)
  <2>1. /\ proc.state \in {"starting", "running"}
        /\ file = Desired /\ proc.config = Desired /\ enabled # {}
    BY <1>4 DEF StartAnswer
  <2>2. /\ Serving /\ pc' = [pc EXCEPT ![h] = "start.confirm"]
        /\ UNCHANGED <<inbounds, enabled, rev, file, proc, op>>
    BY <1>4, <2>1 DEF StartAnswer, Goto
  <2>3. /\ proc'.state = "running" /\ file' = Desired' /\ proc'.config = Desired'
        /\ enabled' = enabled
    BY <2>1, <2>2 DEF Desired, Serving
  <2>4. HandlerInv(h)'
    BY <1>4, <2>1, <2>2, <2>3 DEF TypeOK, StartAnswer
  <2> QED BY <2>2, <2>4, OneHandler DEF TypeOK
<1>5. CASE StartConfirm(h)
  <2>1. /\ proc.state = "running"
        /\ file = Desired /\ proc.config = Desired /\ enabled # {}
    BY <1>5 DEF StartConfirm
  <2>2. /\ pc' = [pc EXCEPT ![h] = "start.save"]
        /\ UNCHANGED <<inbounds, enabled, rev, file, proc, op>>
    BY <1>0, <1>5, <2>1 DEF StartConfirm, Goto, Serving
  <2>3. /\ proc'.state = "running" /\ file' = Desired' /\ proc'.config = Desired'
        /\ enabled' = enabled
    BY <2>1, <2>2 DEF Desired
  <2>4. HandlerInv(h)'
    BY <1>5, <2>1, <2>2, <2>3 DEF TypeOK, StartConfirm
  <2> QED BY <2>2, <2>4, OneHandler DEF TypeOK
<1>6. CASE StartSave(h)
  <2>1. /\ proc.state = "running" /\ op[h] \in InboundOps \cup Observers
        /\ file = Desired /\ proc.config = Desired /\ enabled # {}
    BY <1>6 DEF StartSave
  <2>2. /\ Finish(h) /\ row' = [snap[h] EXCEPT !.running = TRUE, !.failed = FALSE]
        /\ UNCHANGED <<inbounds, enabled, rev, file, proc>>
    BY <1>6, <2>1 DEF StartSave, Succeed, InboundOps, Observers
  <2>3. Settled'
    <3>1. enabled' = enabled /\ Desired' = Desired
      BY <2>2 DEF Desired
    <3>2. Wanted' = Wanted /\ row'.running = TRUE
      BY <2>1, <2>2, <3>1 DEF Wanted, TypeOK, Row
    <3> QED BY <2>1, <2>2, <3>1, <3>2, DesiredIsCurrent DEF Settled, Consistent, Current, Serving, Quiet
  <2> QED BY <2>2, <2>3, Finished
<1>7. CASE RestartStop(h)
  <2>1. Serving /\ file = Desired /\ enabled # {}
    BY <1>7 DEF RestartStop
  <2>2. /\ pc' = [pc EXCEPT ![h] = "start.call"]
        /\ proc' = [proc EXCEPT !.state = "stopped"]
        /\ UNCHANGED <<inbounds, enabled, rev, file, op>>
    BY <1>0, <1>7 DEF RestartStop, Goto
  <2>3. proc'.state = "stopped" /\ file' = Desired' /\ enabled' = enabled
    BY <2>1, <2>2 DEF Desired, TypeOK, Process
  <2>4. HandlerInv(h)'
    BY <1>7, <2>1, <2>2, <2>3 DEF TypeOK, RestartStop
  <2> QED BY <2>2, <2>4, OneHandler DEF TypeOK
<1> QED BY <1>1, <1>2, <1>3, <1>4, <1>5, <1>6, <1>7

\* StopCore after the last inbound is gone.
LEMMA StopStepsClean ==
  ASSUME TypeOK, NEW h \in Handler, Alone(h), HandlerInv(h), clean',
         StopCheck(h) \/ StopCall(h) \/ StopSave(h), TypeOK'
  PROVE  CleanInv'
<1> USE DEF HandlerInv, UpdateInv, RegenerateInv, InRegenerate, ManagerInv, ObserverInv
<1>0. ~Spoil
  BY DEF Spoil
<1>1. CASE StopCheck(h)
  <2>1. Truthful /\ file = Desired /\ enabled = {}
    BY <1>1 DEF StopCheck
  <2>2. CASE Serving
    <3>1. pc' = [pc EXCEPT ![h] = "stop.call"] /\ UNCHANGED world /\ UNCHANGED op
      BY <1>0, <1>1, <2>2 DEF StopCheck, Goto
    <3>2. Quiet' /\ file' = Desired' /\ enabled' = {}
      BY <2>1, <3>1 DEF Truthful, Quiet, Desired, world
    <3>3. HandlerInv(h)'
      BY <1>1, <3>1, <3>2 DEF TypeOK, StopCheck
    <3> QED BY <3>1, <3>3, OneHandler DEF TypeOK
  <2>3. CASE ~Serving
    <3>1. Finish(h) /\ UNCHANGED world
      BY <1>0, <1>1, <2>3 DEF StopCheck
    <3>2. Settled
      BY <2>1, <2>3, DesiredIsCurrent DEF Settled, Truthful, Consistent, Current
    <3> QED BY <3>1, <3>2, SettledKept, Finished
  <2> QED BY <2>2, <2>3
<1>2. CASE StopCall(h)
  <2>1. file = Desired /\ enabled = {}
    BY <1>2 DEF StopCall
  <2>2. /\ pc' = [pc EXCEPT ![h] = "stop.save"]
        /\ proc' = [proc EXCEPT !.state = "stopped"]
        /\ UNCHANGED <<inbounds, enabled, rev, file, op>>
    BY <1>0, <1>2 DEF StopCall, Goto
  <2>3. proc'.state = "stopped" /\ file' = Desired' /\ enabled' = {}
    BY <2>1, <2>2 DEF Desired, TypeOK, Process
  <2>4. HandlerInv(h)'
    BY <1>2, <2>2, <2>3 DEF TypeOK, StopCall
  <2> QED BY <2>2, <2>4, OneHandler DEF TypeOK
<1>3. CASE StopSave(h)
  <2>1. proc.state = "stopped" /\ file = Desired /\ enabled = {}
    BY <1>3 DEF StopSave
  <2>2. /\ Finish(h) /\ row' = [snap[h] EXCEPT !.running = FALSE, !.failed = FALSE]
        /\ UNCHANGED <<inbounds, enabled, rev, file, proc>>
    BY <1>3 DEF StopSave
  <2>3. Settled'
    <3>1. enabled' = enabled /\ Desired' = Desired
      BY <2>2 DEF Desired
    <3>2. Wanted' = Wanted /\ row'.running = FALSE
      BY <2>1, <2>2, <3>1 DEF Wanted, TypeOK, Row
    <3> QED BY <2>1, <2>2, <3>1, <3>2, DesiredIsCurrent DEF Settled, Consistent, Current, Serving, Quiet
  <2> QED BY <2>2, <2>3, Finished
<1> QED BY <1>1, <1>2, <1>3

\* Observers write back what they read; the rest cannot happen.
LEMMA OtherStepsClean ==
  ASSUME TypeOK, NEW h \in Handler, Alone(h), HandlerInv(h), clean',
         \/ TouchGenerate(h) \/ TouchWrite(h) \/ TouchProbe(h) \/ TouchRename(h)
         \/ TouchCleanup(h) \/ StatusCheck(h) \/ WatchdogSave(h)
         \/ InitializeCore(h)
  PROVE  CleanInv'
<1>0. ~Spoil
  BY DEF Spoil
<1>1. CASE \/ TouchGenerate(h) \/ TouchWrite(h) \/ TouchProbe(h)
           \/ TouchRename(h) \/ TouchCleanup(h) \/ InitializeCore(h)
  BY <1>1 DEF HandlerInv, TouchGenerate, TouchWrite, TouchProbe, TouchRename,
              TouchCleanup, InitializeCore
<1>2. CASE StatusCheck(h)
  <2>1. Settled /\ snap[h] = row
    BY <1>2 DEF StatusCheck, HandlerInv, ObserverInv
  <2>2. row' = row /\ Finish(h) /\ UNCHANGED <<inbounds, enabled, rev, file, tmp, proc>>
    BY <1>0, <1>2, <2>1 DEF StatusCheck, Settled, Consistent
  <2> QED BY <2>1, <2>2, SettledKept, Finished DEF world
<1>3. CASE WatchdogSave(h)
  <2>1. Settled /\ snap[h] = row
    BY <1>3 DEF WatchdogSave, HandlerInv, ObserverInv
  <2>2. /\ row' = [row EXCEPT !.failed = ~Serving]
        /\ Finish(h) /\ UNCHANGED <<inbounds, enabled, rev, file, tmp, proc>>
    BY <1>0, <1>3, <2>1 DEF WatchdogSave
  <2>3. row'.running = row.running
    BY <2>2 DEF TypeOK, Row
  <2>4. Settled'
    <3>1. enabled' = enabled /\ Desired' = Desired
      BY <2>2 DEF Desired
    <3> QED BY <2>1, <2>2, <2>3, <3>1 DEF Settled, Consistent, Current, Meets, Wanted, Serving, Quiet
  <2> QED BY <2>2, <2>4, Finished
<1> QED BY <1>1, <1>2, <1>3

\* The core comes up while the handler that started it waits.
LEMMA ProcessUpClean ==
  ASSUME TypeOK, CleanInv, ProcessUp
  PROVE  CleanInv'
<1>1. /\ proc.state = "starting"
      /\ proc' = [proc EXCEPT !.state = "running"]
      /\ UNCHANGED <<inbounds, enabled, rev, row, file, tmp, pc, op, locals, ghosts>>
  BY DEF ProcessUp
<1>2. ~AllIdle
  BY <1>1 DEF CleanInv, Settled, Quiet
<1>3. PICK h \in Handler : pc[h] # "idle"
  BY <1>2 DEF AllIdle
<1>4. Alone(h) /\ HandlerInv(h)
  BY <1>3 DEF CleanInv
<1>5. /\ pc[h] = "start.wait"
      /\ file = Desired /\ proc.config = Desired /\ enabled # {}
  BY <1>1, <1>3, <1>4 DEF TypeOK, Steps, HandlerInv, UpdateInv, RegenerateInv,
       InRegenerate, ManagerInv, ObserverInv, Settled, Truthful, Quiet, Serving
<1>6. /\ proc'.state = "running" /\ proc'.config = proc.config
      /\ Desired' = Desired /\ enabled' = enabled
  BY <1>1 DEF Desired, TypeOK, Process
<1>7. HandlerInv(h)'
  BY <1>1, <1>4, <1>5, <1>6 DEF HandlerInv, UpdateInv, RegenerateInv,
       InRegenerate, ManagerInv, ObserverInv
<1> QED BY <1>1, <1>3, <1>4, <1>7, OneHandler

\* Every step keeps the inductive invariant.
LEMMA CleanStep == IInv /\ TypeOK' /\ [Next]_vars => IInv'
<1> SUFFICES ASSUME IInv, TypeOK', [Next]_vars, clean' PROVE CleanInv'
  BY DEF IInv
<1>1. ASSUME NEW h \in Handler, Arrive(h) PROVE CleanInv'
  BY <1>1, ArriveClean DEF IInv
<1>2. ASSUME NEW h \in Handler, Advance(h) PROVE CleanInv'
  <2>1. pc[h] # "idle"
    BY <1>2 DEF Advance, UpdateApply, UpdateDispatch, DeleteApply, CountOthers,
         ReadCore, GenerateConfig, WriteConfig, Probe, ReadRow, StartCheck, StartCall,
         StartAnswer, StartConfirm, StartSave, RestartStop, StopCheck, StopCall,
         StopSave, TouchGenerate, TouchWrite, TouchProbe, TouchRename,
         TouchCleanup, StatusCheck, WatchdogSave, InitializeCore
  <2>2. clean
    BY <1>2 DEF Advance, UpdateApply, UpdateDispatch, DeleteApply, CountOthers,
         ReadCore, GenerateConfig, WriteConfig, Probe, ReadRow, StartCheck, StartCall,
         StartAnswer, StartConfirm, StartSave, RestartStop, StopCheck, StopCall,
         StopSave, TouchGenerate, TouchWrite, TouchProbe, TouchRename,
         TouchCleanup, StatusCheck, WatchdogSave, InitializeCore, Spoil, ghosts
  <2>3. TypeOK /\ Alone(h) /\ HandlerInv(h)
    BY <2>1, <2>2 DEF IInv, CleanInv
  <2> QED BY <1>2, <2>3, InboundStepsClean, RegenerateStepsClean, StartStepsClean,
            StopStepsClean, OtherStepsClean DEF Advance
<1>3. ASSUME NEW h \in Handler, PanelRestart(h) PROVE CleanInv'
  BY <1>3 DEF PanelRestart
<1>4. CASE ProcessUp
  BY <1>4, ProcessUpClean DEF IInv, ProcessUp, ghosts
<1>5. CASE ProcessDies
  BY <1>5 DEF ProcessDies, Spoil
<1>6. CASE UNCHANGED vars
  BY <1>6 DEF vars, IInv, CleanInv, HandlerInv, UpdateInv, RegenerateInv,
    InRegenerate, ManagerInv, ObserverInv, Settled, Consistent, Current, Meets, Wanted, Truthful, Quiet,
    Serving, Desired, AllIdle, Alone
<1> QED BY <1>1, <1>2, <1>3, <1>4, <1>5, <1>6 DEF Next

\* The panel starts with nothing configured and nothing running.
LEMMA InitIInv == Init => IInv
<1> SUFFICES ASSUME Init PROVE IInv
  OBVIOUS
<1>1. TypeOK
  BY DEF Init, TypeOK, EmptyConfig, InitialRow, Config, Row, Process, Steps, AllOps
<1>2. Settled
  BY DEF Init, Settled, Consistent, Current, Meets, Wanted, Quiet, Serving, Desired, EmptyConfig, InitialRow
<1>3. \A h \in Handler : HandlerInv(h)
  BY DEF Init, HandlerInv, UpdateInv, RegenerateInv, InRegenerate, ManagerInv, ObserverInv
<1> QED BY <1>1, <1>2, <1>3 DEF Init, IInv, CleanInv

-----------------------------------------------------------------------------

\* Type correctness: every row, file, process state and handler variable of the
\* core stays a value of its type, whatever overlaps and whatever fails.
THEOREM TypeCorrect == Spec => []TypeOK
<1>1. Init => TypeOK
  BY InitIInv DEF IInv
<1> QED BY <1>1, TypeStep, PTL DEF Spec

\* Whatever the number of inbounds and goroutines: as long as inbound requests
\* and observers come one at a time and nothing fails, the core is consistent
\* whenever no request runs (core_lifecycle.go, the three hooks).
THEOREM CleanIsConsistent == Spec => []CleanConsistent
<1>1. IInv /\ [Next]_vars => IInv'
  BY TypeStep, CleanStep DEF IInv
<1>2. IInv => CleanConsistent
  BY DEF IInv, CleanInv, CleanConsistent, Settled
<1> QED BY InitIInv, <1>1, <1>2, PTL DEF Spec

-----------------------------------------------------------------------------
(***************************************************************************)
(* Lazy start.  With one goroutine the history stays clean, so that the    *)
(* invariant above holds at every step, and says where the step is one of  *)
(* LazyCore: a request ends settled, and the process comes up with what is *)
(* wanted.                                                                 *)
(***************************************************************************)

\* One goroutine, no failure, and only the operations LazyCore is about.
Serial == /\ \E h : Handler = {h}
          /\ ~Faulty
          /\ Ops \subseteq InboundOps \cup Observers

RInv == TypeOK /\ clean /\ CleanInv /\ rev \in 0..MaxRev

served == IF Serving THEN proc.config ELSE None

\* The history of one goroutine is clean.
LEMMA SerialStaysClean ==
  ASSUME Serial, RInv, [Next]_vars
  PROVE  clean' /\ rev' \in 0..MaxRev
<1>1. ASSUME NEW h \in Handler, Arrive(h) PROVE clean' /\ rev' = rev
  <2>1. ASSUME NEW o, NEW i, NEW step, Begin(h, o, i, step) PROVE clean' /\ o \in InboundOps \cup Observers
    <3>1. AllIdle
      BY <2>1 DEF Serial, Begin, AllIdle
    <3> QED BY <2>1, <3>1 DEF Serial, RInv, CleanInv, Settled, Quiet, Begin, AllIdle, Alone
  <2>2. ~TouchData(h)
    BY <2>1 DEF TouchData, InboundOps, Observers
  <2> QED BY <1>1, <2>1, <2>2 DEF Arrive, CreateInbound, UpdateRead, DeleteRead, StartCore, StopCore,
            RestartCore, StatusRead, WatchdogRead, world
<1>2. ASSUME NEW h \in Handler, Advance(h) PROVE clean' /\ rev' \in 0..MaxRev
  <2>1. CASE UpdateApply(h)
    BY <2>1, LifecycleAssumption DEF UpdateApply, RInv, ghosts, LifecycleAssumption
  <2>2. CASE UpdateDispatch(h) \/ DeleteApply(h)
             \/ CountOthers(h) \/ ReadCore(h) \/ GenerateConfig(h) \/ WriteConfig(h) \/ Probe(h)
             \/ ReadRow(h) \/ StartCheck(h) \/ StartCall(h) \/ StartAnswer(h)
             \/ StartConfirm(h) \/ StartSave(h) \/ RestartStop(h)
             \/ StopCheck(h) \/ StopCall(h) \/ StopSave(h)
             \/ TouchGenerate(h) \/ TouchWrite(h) \/ TouchProbe(h) \/ TouchRename(h)
             \/ TouchCleanup(h) \/ StatusCheck(h) \/ WatchdogSave(h) \/ InitializeCore(h)
    BY <2>2 DEF Serial, RInv, Spoil, world, ghosts, UpdateDispatch, DeleteApply, CountOthers,
         ReadCore, GenerateConfig, WriteConfig, Probe, ReadRow, StartCheck, StartCall,
         StartAnswer, StartConfirm, StartSave, RestartStop, StopCheck, StopCall,
         StopSave, TouchGenerate, TouchWrite, TouchProbe, TouchRename,
         TouchCleanup, StatusCheck, WatchdogSave, InitializeCore
  <2> QED BY <1>2, <2>1, <2>2 DEF Advance
<1>3. CASE ProcessUp \/ UNCHANGED vars
  BY <1>3 DEF ProcessUp, ghosts, vars, RInv
<1>4. ~ProcessDies /\ \A h \in Handler : ~PanelRestart(h)
  BY DEF ProcessDies, PanelRestart, Spoil, Serial
<1> QED BY <1>1, <1>2, <1>3, <1>4 DEF Next, RInv

\* What the administrator sees of a step that leaves the process, the inbounds
\* and the other data alone.
LEMMA OutsideKept ==
  ASSUME UNCHANGED <<inbounds, enabled, rev, proc>>
  PROVE  Wanted' = Wanted /\ served' = served
BY DEF Wanted, Desired, served, Serving

\* Configurations and wishes as LazyCore is instantiated.
Known == [inb : [Inbound -> Content \cup {None}], rev : 0..MaxRev]
Wishes == [on : SUBSET Inbound, config : Known]

\* What is wanted is a wish LazyCore knows.
LEMMA WantedType ==
  ASSUME RInv'
  PROVE  Wanted' \in Wishes
BY DEF RInv, TypeOK, Wanted, Wishes, Known, Desired

\* A request ends only when the core is settled.
LEMMA EndIsDone ==
  ASSUME RInv', Serial, NEW h \in Handler, pc[h] # "idle", pc'[h] = "idle",
         UNCHANGED <<inbounds, enabled, rev, proc>>
  PROVE  Lazy!Done
<1>1. ~AllIdle /\ AllIdle'
  BY DEF AllIdle, Serial
<1>2. Consistent'
  BY <1>1 DEF RInv, CleanInv, Settled
<1>3. IF Nothing(Wanted') THEN served' = None
      ELSE served' # None /\ Meets(served', Wanted')
  <2>1. Nothing(Wanted') <=> enabled' = {}
    BY DEF Nothing, Wanted
  <2>2. Serving' => proc'.config # None
    BY LifecycleAssumption DEF RInv, TypeOK, Process, LifecycleAssumption
  <2> QED BY <1>2, <2>1, <2>2 DEF Consistent, Current, served
<1> QED BY <1>1, <1>3, OutsideKept DEF Lazy!Done, Lazy!Settled, served

\* A step that leaves process, inbounds and other data alone ends the request,
\* or is not seen.
LEMMA InnerStep ==
  ASSUME RInv', Serial, NEW h \in Handler, pc[h] # "idle", UNCHANGED <<inbounds, enabled, rev, proc>>
  PROVE  Lazy!Done \/ UNCHANGED Lazy!vars
<1>1. CASE pc'[h] = "idle"
  BY <1>1, EndIsDone
<1>2. CASE pc'[h] # "idle"
  <2>1. ~AllIdle /\ ~AllIdle'
    BY <1>2 DEF AllIdle
  <2> QED BY <2>1, OutsideKept DEF Lazy!vars, served
<1> QED BY <1>1, <1>2

\* Every step of the hooks, the manager and the observers is one of LazyCore's,
\* or is not seen.
LEMMA RefineStep ==
  ASSUME Serial, RInv, RInv', [Next]_vars
  PROVE  Lazy!Next \/ UNCHANGED Lazy!vars
<1>1. ASSUME NEW h \in Handler, Arrive(h) PROVE Lazy!Request
  <2>1. ASSUME NEW o, NEW i, NEW step, step # "idle", Begin(h, o, i, step) PROVE AllIdle /\ ~AllIdle'
    BY <2>1 DEF Serial, RInv, TypeOK, Begin, AllIdle
  <2>2. AllIdle /\ ~AllIdle' /\ proc' = proc
    BY <1>1, <2>1 DEF Arrive, CreateInbound, UpdateRead, DeleteRead, StartCore, StopCore,
         RestartCore, TouchData, StatusRead, WatchdogRead, world
  <2> QED BY <2>2, WantedType DEF Lazy!Request, Serving, Wishes, Known
<1>2. ASSUME NEW h \in Handler, Advance(h) PROVE Lazy!Next \/ UNCHANGED Lazy!vars
  <2>1. CASE UpdateApply(h) \/ DeleteApply(h)
    <3>1. ~AllIdle /\ ~AllIdle' /\ proc' = proc
      BY <2>1 DEF UpdateApply, DeleteApply, Goto, AllIdle, RInv, TypeOK
    <3> QED BY <3>1, WantedType DEF Lazy!Next, Lazy!Change, Serving, Wishes, Known
  <2>2. CASE RestartStop(h) \/ StopCall(h)
    <3>1. /\ ~AllIdle /\ ~AllIdle' /\ UNCHANGED <<inbounds, enabled, rev>>
          /\ proc' = [proc EXCEPT !.state = "stopped"]
      BY <2>2 DEF RestartStop, StopCall, Goto, AllIdle, RInv, TypeOK, Serial, Spoil
    <3>2. ~Serving' /\ Wanted' = Wanted
      BY <3>1 DEF Serving, Wanted, Desired, RInv, TypeOK, Process
    <3> QED BY <3>1, <3>2 DEF Lazy!Next, Lazy!TakeDown
  <2>3. CASE StartCall(h)
    <3>1. proc.state = "stopped" /\ pc[h] # "idle"
      BY <2>3 DEF StartCall, RInv, CleanInv, HandlerInv, ManagerInv
    <3>2. /\ ~AllIdle /\ ~AllIdle' /\ UNCHANGED <<inbounds, enabled, rev>>
          /\ proc' = [state |-> "starting", config |-> file]
      BY <2>3, <3>1 DEF StartCall, Goto, AllIdle, RInv, TypeOK, Serial, Spoil
    <3>3. ~Serving /\ ~Serving' /\ Wanted' = Wanted
      BY <3>1, <3>2 DEF Serving, Wanted, Desired
    <3> QED BY <3>2, <3>3 DEF Lazy!vars
  <2>4. ASSUME \/ UpdateDispatch(h) \/ CountOthers(h) \/ ReadCore(h) \/ GenerateConfig(h) \/ WriteConfig(h)
               \/ Probe(h) \/ ReadRow(h) \/ StartCheck(h) \/ StartAnswer(h) \/ StartConfirm(h)
               \/ StartSave(h) \/ StopCheck(h) \/ StopSave(h) \/ TouchGenerate(h)
               \/ TouchWrite(h) \/ TouchProbe(h) \/ TouchRename(h) \/ TouchCleanup(h)
               \/ StatusCheck(h) \/ WatchdogSave(h) \/ InitializeCore(h)
        PROVE  pc[h] # "idle" /\ UNCHANGED <<inbounds, enabled, rev, proc>>
    BY <2>4 DEF UpdateDispatch, CountOthers, ReadCore, GenerateConfig, WriteConfig, Probe, ReadRow,
         StartCheck, StartAnswer, StartConfirm, StartSave, StopCheck, StopSave, TouchGenerate,
         TouchWrite, TouchProbe, TouchRename, TouchCleanup, StatusCheck, WatchdogSave,
         InitializeCore, world
  <2> QED BY <1>2, <2>1, <2>2, <2>3, <2>4, InnerStep DEF Advance, Lazy!Next
<1>3. CASE ProcessUp
  <2>1. /\ proc.state = "starting" /\ proc' = [proc EXCEPT !.state = "running"]
        /\ UNCHANGED <<inbounds, enabled, rev, pc>>
    BY <1>3 DEF ProcessUp
  <2>2. ~AllIdle /\ ~AllIdle'
    BY <2>1 DEF RInv, CleanInv, Settled, Quiet, AllIdle
  <2>3. PICK h \in Handler : pc[h] # "idle"
    BY <2>2 DEF AllIdle
  <2>4. HandlerInv(h)
    BY DEF RInv, CleanInv
  <2>5. proc.config = Desired /\ enabled # {}
    BY <2>1, <2>3, <2>4 DEF RInv, TypeOK, Steps, HandlerInv, UpdateInv, RegenerateInv,
         InRegenerate, ManagerInv, ObserverInv, Settled, Truthful, Quiet, Serving
  <2>6. ~Serving /\ Serving' /\ proc'.config = Desired /\ Wanted' = Wanted
    BY <2>1, <2>5 DEF Serving, Wanted, Desired, RInv, TypeOK, Process
  <2>7. ~Nothing(Wanted) /\ Meets(Desired, Wanted)
    BY <2>5 DEF Nothing, Meets, Wanted, Desired
  <2>8. Desired \in Known /\ Desired # None
    BY LifecycleAssumption, DesiredType DEF RInv, TypeOK, Desired, Known, LifecycleAssumption
  <2> QED BY <2>2, <2>6, <2>7, <2>8 DEF Lazy!Next, Lazy!BringUp, Known
<1>4. CASE UNCHANGED vars
  BY <1>4 DEF vars, Lazy!vars, Serving, Wanted, Desired, AllIdle
<1>5. ~ProcessDies /\ \A h \in Handler : ~PanelRestart(h)
  BY DEF ProcessDies, PanelRestart, Spoil, Serial
<1> QED BY <1>1, <1>2, <1>3, <1>4, <1>5 DEF Next, Lazy!Next

\* Lazy start (docs/MASTER_PLAN.md:166): for any inbounds and any number of
\* changes, the hooks, the manager and supervisord implement LazyCore for an
\* administrator who sends one request at a time, while no call fails.
THEOREM ImplementsLazyStart ==
  ASSUME Serial
  PROVE  Spec => LazyStart
<1>1. Init => RInv
  BY InitIInv, LifecycleAssumption DEF Init, IInv, RInv, LifecycleAssumption
<1>2. RInv /\ [Next]_vars => RInv'
  BY SerialStaysClean, TypeStep, CleanStep DEF RInv, IInv
<1>3. Init => Lazy!Init
  <2> SUFFICES ASSUME Init PROVE Lazy!Init
    OBVIOUS
  <2>1. enabled = {} /\ ~Serving /\ AllIdle
    BY DEF Init, Serving, AllIdle
  <2>2. Wanted \in Wishes /\ Nothing(Wanted)
    BY <2>1, LifecycleAssumption DEF Wanted, Wishes, Known, Desired, Init, LifecycleAssumption, Nothing
  <2> QED BY <2>1, <2>2 DEF Lazy!Init, Lazy!Settled, Wishes, Known
<1>4. RInv /\ RInv' /\ [Next]_vars => [Lazy!Next]_(Lazy!vars)
  BY RefineStep
<1> QED BY <1>1, <1>2, <1>3, <1>4, PTL DEF Spec, LazyStart, Lazy!Spec

-----------------------------------------------------------------------------
(***************************************************************************)
(* An operation that meets no other.  What it finds may be anything; so    *)
(* SoloInv says only what its own steps have established, by operation and *)
(* step.                                                                   *)
(***************************************************************************)
Starting   == {"start.call", "start.wait", "start.confirm", "start.save"}
Restarting == {"restart.row", "restart.stop"}
Stopping   == {"stop.row", "stop.check", "stop.call", "stop.save"}

\* What is known of the process.
SoloProcess(h) ==
  /\ pc[h] # "start.wait" => Quiet
  /\ pc[h] = "start.call" => proc.state = "stopped"
  /\ pc[h] = "start.wait" => proc.state \in {"starting", "running"}
  /\ pc[h] \in {"start.confirm", "start.save"} => Serving
  /\ pc[h] = "stop.save" => proc.state = "stopped"

\* Whatever file there was, it is the new one before the core is touched.
SoloFile(h) ==
  /\ pc[h] = "write" => cfg[h] = Desired
  /\ pc[h] \in {"probe", "start.row", "start.check", "start.call"} \cup Restarting => file = Desired
  /\ pc[h] \in {"start.wait", "start.confirm", "start.save"} => proc.config = Desired

SoloUpdated(h) ==
  pc[h] \in {"apply", "dispatch"} => arg[h] \in Inbound

SoloCreated(h) ==
  /\ pc[h] \in {"generate", "configure", "write", "probe", "start.row", "start.check"} \cup Restarting \cup Starting
  /\ pc[h] \in {"start.row", "start.check"} => proc.state = "stopped"
  /\ SoloFile(h)

SoloDeleted(h) ==
  /\ pc[h] \in {"erase", "count", "generate", "configure", "write", "probe"} \cup Restarting \cup Starting \cup Stopping
  /\ pc[h] \in {"erase", "count"} => arg[h] \in Inbound
  /\ pc[h] = "count" => arg[h] \notin enabled
  /\ pc[h] \in {"generate", "configure", "write"} => (others[h] <=> enabled # {})
  /\ pc[h] \in {"probe"} \cup Restarting \cup Starting => enabled # {}
  /\ pc[h] \in Stopping => enabled = {}
  /\ SoloFile(h)

SoloTouch(h) ==
  /\ pc[h] \in {"touch.generate", "touch.configure", "touch.write", "touch.probe", "touch.rename",
                "touch.cleanup"} \cup Restarting \cup Starting
  /\ pc[h] = "touch.write" => cfg[h] = Desired
  /\ pc[h] \in {"touch.probe", "touch.rename"} \cup Restarting \cup Starting => tmp = Desired
  /\ pc[h] = "touch.cleanup" => file = Desired

SoloInv(h) ==
  /\ Alone(h)
  /\ SoloProcess(h)
  /\ op[h] \in AllOps
  /\ op[h] = "updated" => SoloUpdated(h)
  /\ pc[h] \in {"apply", "dispatch"} => op[h] = "updated"
  /\ op[h] = "created" => SoloCreated(h)
  /\ op[h] = "deleted" => SoloDeleted(h)
  /\ op[h] = "touch"   => SoloTouch(h)
  /\ op[h] = "init"    => pc[h] \in {"init", "start.row", "start.check"} \cup Starting
  /\ op[h] = "status"  => pc[h] = "status.check" /\ snap[h] = row

\* The next moment: it goes on, or is over and has repaired.
SoloNext(h) ==
  IF pc'[h] = "idle" THEN AfterSolo(op[h]) ELSE SoloInv(h)'

\* The others stay idle.
LEMMA OthersWait ==
  ASSUME NEW h \in Handler, Alone(h), \A g \in Handler \ {h} : pc'[g] = pc[g]
  PROVE  Alone(h)'
BY DEF Alone

\* What each operation has to leave, one by one.
LEMMA AfterSoloBy ==
  ASSUME NEW o \in AllOps,
         o = "created" => Serving' /\ proc'.config = Desired',
         o = "deleted" => (Serving' => proc'.config = Desired') /\ (enabled' = {} => ~Serving'),
         o = "init"    => (enabled' # {} => Serving'),
         o = "status"  => row'.running = Serving',
         o = "touch"   => file' = Desired' /\ tmp' = None
  PROVE  AfterSolo(o)
BY DEF AfterSolo

\* InboundService up to the hook's regeneration of the file.
LEMMA SoloInboundSteps ==
  ASSUME TypeOK, NEW h \in Handler, SoloInv(h), solo' = h,
         \/ UpdateApply(h) \/ UpdateDispatch(h) \/ DeleteApply(h) \/ CountOthers(h)
  PROVE  SoloNext(h)
<1> USE DEF TypeOK
<1>1. Alone(h)'
  BY OthersWait DEF SoloInv, UpdateApply, UpdateDispatch, DeleteApply, CountOthers, Goto, Finish
<1>2. CASE UpdateApply(h)
  <2>1. pc'[h] = "dispatch" /\ op'[h] = "updated" /\ arg'[h] \in Inbound /\ Quiet'
    BY <1>2 DEF UpdateApply, Goto, locals, SoloInv, SoloUpdated, SoloProcess, Quiet
  <2> QED BY <1>1, <2>1 DEF SoloNext, SoloInv, SoloProcess, SoloUpdated, AllOps, InboundOps
<1>3. CASE UpdateDispatch(h)
  <2>1. op[h] = "updated" /\ arg[h] \in Inbound /\ proc' = proc /\ inbounds' = inbounds /\ Quiet
    BY <1>3 DEF UpdateDispatch, SoloInv, SoloUpdated, SoloProcess, world
  <2>2. CASE Finish(h)
    BY <2>1, <2>2, AfterSoloBy DEF Finish, SoloNext, SoloInv
  <2>3. CASE pc' = [pc EXCEPT ![h] = "generate"] /\ op' = [op EXCEPT ![h] = IF was[h] THEN "updated" ELSE "created"]
    <3>1. pc'[h] = "generate" /\ op'[h] \in {"updated", "created"} /\ Quiet'
      BY <2>1, <2>3 DEF Quiet
    <3> QED BY <1>1, <3>1 DEF SoloNext, SoloInv, SoloProcess, SoloUpdated, SoloCreated, SoloFile, Restarting, AllOps, InboundOps
  <2>4. CASE arg[h] \notin enabled /\ pc' = [pc EXCEPT ![h] = "count"] /\ op' = [op EXCEPT ![h] = "deleted"] /\ arg' = arg
    <3>1. pc'[h] = "count" /\ op'[h] = "deleted" /\ Quiet' /\ arg'[h] \in Inbound /\ arg'[h] \notin enabled'
      BY <2>1, <2>4, <1>3 DEF Quiet, UpdateDispatch, world
    <3> QED BY <1>1, <3>1 DEF SoloNext, SoloInv, SoloProcess, SoloDeleted, SoloFile, Restarting, Starting, Stopping, AllOps, InboundOps
  <2> QED BY <1>3, <2>2, <2>3, <2>4 DEF UpdateDispatch, Goto, locals
<1>4. CASE DeleteApply(h)
  <2>1. pc[h] = "erase" /\ pc'[h] = "count" /\ op' = op /\ arg' = arg /\ proc' = proc /\ Quiet'
    BY <1>4 DEF DeleteApply, Goto, locals, SoloInv, SoloProcess, Quiet
  <2>2. op[h] = "deleted" => arg'[h] \in Inbound /\ arg'[h] \notin enabled'
    BY <1>4, <2>1 DEF DeleteApply, SoloInv, SoloDeleted
  <2> QED BY <1>1, <2>1, <2>2 DEF SoloNext, SoloInv, SoloProcess, SoloUpdated, SoloCreated, SoloDeleted,
            SoloTouch, SoloFile, Restarting, Starting, Stopping
<1>5. CASE CountOthers(h)
  <2>1. pc[h] = "count" /\ pc'[h] = "generate" /\ op' = op /\ arg' = arg /\ proc' = proc /\ Quiet'
    BY <1>5 DEF CountOthers, Goto, world, SoloInv, SoloProcess, Quiet
  <2>2. ASSUME op[h] = "deleted" PROVE others'[h] <=> enabled' # {}
    <3>1. enabled \ {arg[h]} = enabled
      BY <2>1, <2>2 DEF SoloInv, SoloDeleted
    <3> QED BY <1>5, <3>1 DEF CountOthers, world
  <2> QED BY <1>1, <2>1, <2>2 DEF SoloNext, SoloInv, SoloProcess, SoloUpdated, SoloCreated, SoloDeleted,
            SoloTouch, SoloFile, Restarting, Starting, Stopping
<1> QED BY <1>2, <1>3, <1>4, <1>5

\* RegenerateConfig, and the hook that looks whether the core runs.
LEMMA SoloRegenerateSteps ==
  ASSUME TypeOK, NEW h \in Handler, SoloInv(h), solo' = h,
         ReadCore(h) \/ GenerateConfig(h) \/ WriteConfig(h) \/ Probe(h)
  PROVE  SoloNext(h)
<1> USE DEF TypeOK
<1>1. Alone(h)'
  BY OthersWait DEF SoloInv, ReadCore, GenerateConfig, Generated, WriteConfig, Probe, Goto, Finish
<1>2. ~Spoil
  BY LifecycleAssumption DEF Spoil, LifecycleAssumption
<1>3. UNCHANGED <<inbounds, enabled, rev, proc>>
  BY DEF ReadCore, GenerateConfig, WriteConfig, Probe, world
<1>4. Desired' = Desired /\ enabled' = enabled /\ Serving' = Serving /\ Quiet' = Quiet /\ proc' = proc
  BY <1>3 DEF Desired, Serving, Quiet
<1>5. CASE GenerateConfig(h)
  <2>1. pc[h] = "configure" /\ pc'[h] = "write" /\ cfg'[h] = Desired /\ UNCHANGED <<op, others>> /\ Quiet'
    BY <1>2, <1>4, <1>5 DEF GenerateConfig, Generated, Goto, SoloInv, SoloProcess
  <2> QED BY <1>1, <1>4, <2>1 DEF SoloNext, SoloInv, SoloProcess, SoloUpdated, SoloCreated, SoloDeleted,
            SoloTouch, SoloFile, Restarting, Starting, Stopping
<1>8. CASE ReadCore(h)
  <2>1. /\ \/ pc[h] = "generate" /\ pc'[h] = "configure"
           \/ pc[h] = "touch.generate" /\ pc'[h] = "touch.configure"
        /\ UNCHANGED <<op, others, file, tmp>> /\ Quiet'
    BY <1>4, <1>8 DEF ReadCore, Goto, world, SoloInv, SoloProcess
  <2> QED BY <1>1, <1>4, <2>1 DEF SoloNext, SoloInv, SoloProcess, SoloUpdated, SoloCreated, SoloDeleted,
            SoloTouch, SoloFile, Restarting, Starting, Stopping
<1>6. CASE WriteConfig(h)
  <2>1. pc[h] = "write" /\ pc'[h] = AfterRegenerate(h) /\ file' = cfg[h] /\ UNCHANGED <<op, others>> /\ Quiet'
    BY <1>2, <1>4, <1>6 DEF WriteConfig, Goto, locals, SoloInv, SoloProcess
  <2>2. op[h] \in {"created", "deleted"} => file' = Desired'
    BY <1>4, <2>1 DEF SoloInv, SoloCreated, SoloDeleted, SoloFile
  <2>3. pc'[h] \in {"probe", "stop.row"} /\ (pc'[h] = "probe" <=> ~(op[h] = "deleted" /\ ~others[h]))
    BY <2>1 DEF AfterRegenerate
  <2> QED BY <1>1, <1>4, <2>1, <2>2, <2>3 DEF SoloNext, SoloInv, SoloProcess, SoloUpdated, SoloCreated, SoloDeleted,
            SoloTouch, SoloFile, Restarting, Starting, Stopping
<1>7. CASE Probe(h)
  <2>1. pc[h] = "probe" /\ file' = file /\ Quiet
    BY <1>7, <1>2 DEF Probe, world, SoloInv, SoloProcess
  <2>2. CASE pc'[h] = "idle"
    <3>1. ~Serving' /\ op[h] # "created"
      BY <1>2, <1>4, <1>7, <2>2 DEF Probe, Goto
    <3> QED BY <2>1, <2>2, <3>1, AfterSoloBy DEF SoloNext, SoloInv, SoloTouch, Restarting, Starting
  <2>3. CASE pc'[h] # "idle"
    <3>1. /\ UNCHANGED op
          /\ \/ pc'[h] = "restart.row" /\ Serving
             \/ pc'[h] = "start.row" /\ ~Serving /\ op[h] = "created"
      BY <1>2, <1>7, <2>3 DEF Probe, Goto, Finish
    <3>2. ~Serving => proc.state = "stopped"
      BY <2>1 DEF Quiet, Serving, Process
    <3> QED BY <1>1, <1>4, <2>1, <2>3, <3>1, <3>2 DEF SoloNext, SoloInv, SoloProcess, SoloUpdated, SoloCreated,
              SoloDeleted, SoloTouch, SoloFile, Restarting, Starting, Stopping
  <2> QED BY <2>2, <2>3
<1> QED BY <1>5, <1>6, <1>7, <1>8
\* StartCore and RestartCore.
LEMMA SoloStartSteps ==
  ASSUME TypeOK, NEW h \in Handler, SoloInv(h), solo' = h,
         ReadRow(h) \/ StartCheck(h) \/ StartCall(h) \/ StartAnswer(h) \/ StartConfirm(h)
         \/ StartSave(h) \/ RestartStop(h)
  PROVE  SoloNext(h)
<1> USE DEF TypeOK
<1>1. Alone(h)'
  BY OthersWait DEF SoloInv, ReadRow, StartCheck, StartCall, StartAnswer, StartConfirm, StartSave,
       RestartStop, Succeed, Fail, Goto, Finish
<1>2. ~Spoil
  BY LifecycleAssumption DEF Spoil, LifecycleAssumption
<1>3. UNCHANGED <<inbounds, enabled, rev, file>>
  BY DEF ReadRow, StartCheck, StartCall, StartAnswer, StartConfirm, StartSave, RestartStop, world
<1>4. Desired' = Desired /\ enabled' = enabled
  BY <1>3 DEF Desired
<1>5. proc.state \in {"stopped", "starting", "running"}
  BY DEF Process
<1>6. CASE ReadRow(h)
  <2>1. /\ UNCHANGED <<proc, op, tmp>> /\ Quiet
        /\ \/ pc[h] = "start.row" /\ pc'[h] = "start.check"
           \/ pc[h] = "stop.row" /\ pc'[h] = "stop.check"
           \/ pc[h] = "restart.row" /\ pc'[h] = "restart.stop"
    BY <1>6 DEF ReadRow, Goto, world, SoloInv, SoloProcess
  <2> QED BY <1>1, <1>3, <1>4, <2>1 DEF SoloNext, SoloInv, SoloProcess, Quiet, SoloUpdated, SoloCreated,
            SoloDeleted, SoloTouch, SoloFile, Restarting, Starting, Stopping
<1>7. CASE StartCheck(h)
  <2>1. pc[h] = "start.check" /\ UNCHANGED <<proc, tmp>> /\ Quiet
    BY <1>7 DEF StartCheck, world, SoloInv, SoloProcess
  <2>2. CASE ~Serving /\ pc'[h] = "start.call" /\ UNCHANGED op
    <3>1. proc.state = "stopped"
      BY <1>5, <2>1, <2>2 DEF Serving, Quiet
    <3> QED BY <1>1, <1>3, <1>4, <2>1, <2>2, <3>1 DEF SoloNext, SoloInv, SoloProcess, Quiet, SoloUpdated, SoloCreated,
            SoloDeleted, SoloTouch, SoloFile, Restarting, Starting, Stopping
  <2>3. CASE Serving /\ Finish(h)
    <3>1. Serving' /\ pc'[h] = "idle"
      BY <2>1, <2>3 DEF Serving, Finish
    <3>2. op[h] \notin {"created", "deleted", "touch", "status"}
      BY <2>1, <2>3 DEF SoloInv, SoloCreated, SoloDeleted, SoloTouch, Restarting, Starting, Stopping, Serving
    <3> QED BY <3>1, <3>2, AfterSoloBy DEF SoloNext, SoloInv
  <2> QED BY <1>2, <1>7, <2>2, <2>3 DEF StartCheck, Goto
<1>8. CASE StartCall(h)
  <2>1. pc[h] = "start.call" /\ proc.state = "stopped"
    BY <1>8 DEF StartCall, SoloInv, SoloProcess
  <2>2. /\ pc'[h] = "start.wait" /\ UNCHANGED <<op, tmp>>
        /\ proc' = [state |-> "starting", config |-> file]
    BY <1>2, <1>8, <2>1 DEF StartCall, Goto
  <2> QED BY <1>1, <1>3, <1>4, <2>1, <2>2 DEF SoloNext, SoloInv, SoloProcess, SoloUpdated, SoloCreated,
            SoloDeleted, SoloTouch, SoloFile, Restarting, Starting, Stopping
<1>9. CASE StartAnswer(h)
  <2>1. pc[h] = "start.wait" /\ proc.state # "stopped" /\ proc' = proc
    BY <1>9 DEF StartAnswer, SoloInv, SoloProcess
  <2>2. Serving /\ pc'[h] = "start.confirm" /\ UNCHANGED <<op, tmp>>
    BY <1>9, <2>1 DEF StartAnswer, Goto
  <2> QED BY <1>1, <1>3, <1>4, <2>1, <2>2 DEF SoloNext, SoloInv, SoloProcess, Quiet, Serving, SoloUpdated, SoloCreated,
            SoloDeleted, SoloTouch, SoloFile, Restarting, Starting, Stopping
<1>10. CASE StartConfirm(h)
  <2>1. pc[h] = "start.confirm" /\ Serving /\ proc' = proc
    BY <1>10 DEF StartConfirm, SoloInv, SoloProcess
  <2>2. pc'[h] = "start.save" /\ UNCHANGED <<op, tmp>>
    BY <1>2, <1>10, <2>1 DEF StartConfirm, Goto
  <2> QED BY <1>1, <1>3, <1>4, <2>1, <2>2 DEF SoloNext, SoloInv, SoloProcess, Quiet, Serving, SoloUpdated, SoloCreated,
            SoloDeleted, SoloTouch, SoloFile, Restarting, Starting, Stopping
<1>11. CASE StartSave(h)
  <2>1. pc[h] = "start.save" /\ Serving /\ proc' = proc /\ tmp' = tmp
    BY <1>11 DEF StartSave, Succeed, SoloInv, SoloProcess
  <2>2. CASE op[h] = "touch"
    <3>1. pc'[h] = "touch.rename" /\ UNCHANGED op
      BY <1>11, <2>2 DEF StartSave, Succeed, Goto
    <3> QED BY <1>1, <1>4, <2>1, <2>2, <3>1 DEF SoloNext, SoloInv, SoloProcess, Quiet, Serving, SoloTouch, Restarting, Starting
  <2>3. CASE op[h] # "touch"
    <3>1. pc'[h] = "idle"
      BY <1>11, <2>3 DEF StartSave, Succeed, Finish
    <3>2. op[h] \in {"created", "deleted"} => proc.config = Desired
      BY <2>1 DEF SoloInv, SoloCreated, SoloDeleted, SoloFile
    <3>3. Serving' /\ op[h] # "status" /\ (op[h] = "deleted" => enabled # {})
      BY <2>1 DEF SoloInv, SoloDeleted, Starting, Serving
    <3> QED BY <1>4, <2>1, <2>3, <3>1, <3>2, <3>3, AfterSoloBy DEF SoloNext, SoloInv
  <2> QED BY <2>2, <2>3
<1>12. CASE RestartStop(h)
  <2>1. pc[h] = "restart.stop" /\ pc'[h] = "start.call" /\ UNCHANGED <<op, tmp>>
    BY <1>2, <1>12 DEF RestartStop, Goto
  <2>2. proc'.state = "stopped"
    BY <1>2, <1>12 DEF RestartStop, Process
  <2> QED BY <1>1, <1>3, <1>4, <2>1, <2>2 DEF SoloNext, SoloInv, SoloProcess, Quiet, SoloUpdated, SoloCreated,
            SoloDeleted, SoloTouch, SoloFile, Restarting, Starting, Stopping
<1> QED BY <1>6, <1>7, <1>8, <1>9, <1>10, <1>11, <1>12

\* StopCore.
LEMMA SoloStopSteps ==
  ASSUME TypeOK, NEW h \in Handler, SoloInv(h), solo' = h,
         StopCheck(h) \/ StopCall(h) \/ StopSave(h)
  PROVE  SoloNext(h)
<1> USE DEF TypeOK
<1>1. Alone(h)'
  BY OthersWait DEF SoloInv, StopCheck, StopCall, StopSave, Goto, Finish
<1>2. ~Spoil
  BY LifecycleAssumption DEF Spoil, LifecycleAssumption
<1>3. UNCHANGED <<inbounds, enabled, rev, file, tmp>>
  BY DEF StopCheck, StopCall, StopSave, world
<1>4. Desired' = Desired /\ enabled' = enabled
  BY <1>3 DEF Desired
<1>5. op[h] \notin {"created", "touch", "init", "status"} /\ (op[h] = "deleted" => enabled = {})
  BY DEF StopCheck, StopCall, StopSave, SoloInv, SoloCreated, SoloDeleted, SoloTouch, Restarting, Starting, Stopping
<1>6. ASSUME pc'[h] = "idle", ~Serving' PROVE SoloNext(h)
  BY <1>5, <1>6, AfterSoloBy DEF SoloNext, SoloInv
<1>7. CASE StopCheck(h)
  <2>1. pc[h] = "stop.check" /\ proc' = proc /\ Quiet
    BY <1>7 DEF StopCheck, world, SoloInv, SoloProcess
  <2>2. CASE Serving /\ pc'[h] = "stop.call" /\ UNCHANGED op
    BY <1>1, <1>4, <1>5, <2>1, <2>2 DEF SoloNext, SoloInv, SoloProcess, Quiet, SoloUpdated, SoloDeleted, SoloFile,
       Restarting, Starting, Stopping
  <2>3. CASE ~Serving /\ Finish(h)
    BY <1>6, <2>1, <2>3 DEF Finish, Serving
  <2> QED BY <1>2, <1>7, <2>2, <2>3 DEF StopCheck, Goto
<1>8. CASE StopCall(h)
  <2>1. pc[h] = "stop.call" /\ pc'[h] = "stop.save" /\ UNCHANGED op
    BY <1>2, <1>8 DEF StopCall, Goto
  <2>2. proc'.state = "stopped"
    BY <1>2, <1>8 DEF StopCall, Process
  <2> QED BY <1>1, <1>4, <1>5, <2>1, <2>2 DEF SoloNext, SoloInv, SoloProcess, Quiet, SoloUpdated, SoloDeleted, SoloFile,
       Restarting, Starting, Stopping
<1>9. CASE StopSave(h)
  BY <1>6, <1>9 DEF StopSave, Finish, Serving, SoloInv, SoloProcess
<1> QED BY <1>7, <1>8, <1>9

\* RegenerateAndReload, the observers and InitializeCores.
LEMMA SoloOtherSteps ==
  ASSUME TypeOK, NEW h \in Handler, SoloInv(h), solo' = h,
         \/ TouchGenerate(h) \/ TouchWrite(h) \/ TouchProbe(h) \/ TouchRename(h) \/ TouchCleanup(h)
         \/ StatusCheck(h) \/ WatchdogSave(h) \/ InitializeCore(h)
  PROVE  SoloNext(h)
<1> USE DEF TypeOK
<1>1. Alone(h)'
  BY OthersWait DEF SoloInv, TouchGenerate, Generated, TouchWrite, TouchProbe, TouchRename, TouchCleanup,
       StatusCheck, WatchdogSave, InitializeCore, Fail, Goto, Finish
<1>2. ~Spoil
  BY LifecycleAssumption DEF Spoil, LifecycleAssumption
<1>3. UNCHANGED <<inbounds, enabled, rev, proc>>
  BY DEF TouchGenerate, TouchWrite, TouchProbe, TouchRename, TouchCleanup,
       StatusCheck, WatchdogSave, InitializeCore, world
<1>4. Desired' = Desired /\ enabled' = enabled /\ Serving' = Serving /\ Quiet' = Quiet
  BY <1>3 DEF Desired, Serving, Quiet
<1>5. Quiet
  BY DEF TouchGenerate, TouchWrite, TouchProbe, TouchRename, TouchCleanup,
       StatusCheck, WatchdogSave, InitializeCore, SoloInv, SoloProcess
<1>6. Desired # None
  BY DesiredType, LifecycleAssumption DEF LifecycleAssumption
<1>7. CASE TouchGenerate(h) \/ TouchWrite(h) \/ TouchProbe(h) \/ TouchRename(h)
  <2>1. op[h] \notin {"created", "deleted", "init", "status"} /\ UNCHANGED op
    BY <1>2, <1>7 DEF TouchGenerate, TouchWrite, TouchProbe, TouchRename, SoloInv, SoloCreated, SoloDeleted,
       Restarting, Starting, Stopping
  <2>2. CASE TouchGenerate(h)
    <3>1. pc'[h] = "touch.write" /\ cfg'[h] = Desired
      BY <1>2, <2>2 DEF TouchGenerate, Generated, Goto
    <3> QED BY <1>1, <1>4, <1>5, <2>1, <3>1 DEF SoloNext, SoloInv, SoloProcess, SoloUpdated, SoloTouch, Restarting, Starting
  <2>3. CASE TouchWrite(h)
    <3>1. pc[h] = "touch.write" /\ pc'[h] = "touch.probe" /\ tmp' = cfg[h]
      BY <1>2, <2>3 DEF TouchWrite, Goto
    <3> QED BY <1>1, <1>4, <1>5, <2>1, <3>1 DEF SoloNext, SoloInv, SoloProcess, SoloUpdated, SoloTouch, Restarting, Starting
  <2>4. CASE TouchProbe(h)
    <3>1. pc[h] = "touch.probe" /\ pc'[h] \in {"restart.row", "touch.rename"} /\ tmp' = tmp
      BY <1>2, <2>4 DEF TouchProbe, Goto
    <3> QED BY <1>1, <1>4, <1>5, <2>1, <3>1 DEF SoloNext, SoloInv, SoloProcess, SoloUpdated, SoloTouch, Restarting, Starting
  <2>5. CASE TouchRename(h)
    <3>1. pc[h] = "touch.rename" /\ pc'[h] = "touch.cleanup" /\ (tmp # None => file' = tmp)
      BY <2>5 DEF TouchRename, Goto
    <3> QED BY <1>1, <1>4, <1>5, <1>6, <2>1, <3>1 DEF SoloNext, SoloInv, SoloProcess, SoloUpdated, SoloTouch, Restarting, Starting
  <2> QED BY <1>7, <2>2, <2>3, <2>4, <2>5
<1>8. CASE TouchCleanup(h)
  <2>1. pc[h] = "touch.cleanup" /\ pc'[h] = "idle" /\ file' = file
    BY <1>8 DEF TouchCleanup, Fail, Finish
  <2>2. op[h] \notin {"created", "deleted", "init", "status"}
    BY <2>1 DEF SoloInv, SoloCreated, SoloDeleted, Restarting, Starting, Stopping
  <2>3. op[h] = "touch" => file' = Desired' /\ tmp' = None
    BY <1>4, <1>8, <2>1 DEF TouchCleanup, Fail, SoloInv, SoloTouch
  <2> QED BY <2>1, <2>2, <2>3, AfterSoloBy DEF SoloNext, SoloInv
<1>9. CASE StatusCheck(h) \/ WatchdogSave(h)
  <2>1. pc[h] \in {"status.check", "watchdog.save"} /\ pc'[h] = "idle"
    BY <1>9 DEF StatusCheck, WatchdogSave, Finish
  <2>2. op[h] \notin {"created", "deleted", "init", "touch"}
    BY <2>1 DEF SoloInv, SoloCreated, SoloDeleted, SoloTouch, Restarting, Starting, Stopping
  <2>3. op[h] = "status" => row'.running = Serving'
    BY <1>2, <1>4, <1>9 DEF StatusCheck, WatchdogSave, SoloInv, Row, Serving
  <2> QED BY <2>1, <2>2, <2>3, AfterSoloBy DEF SoloNext, SoloInv
<1>10. CASE InitializeCore(h)
  <2>1. pc[h] = "init" /\ op[h] \notin {"created", "deleted", "status", "touch"}
    BY <1>10 DEF InitializeCore, SoloInv, SoloCreated, SoloDeleted, SoloTouch, Restarting, Starting, Stopping
  <2>2. CASE pc'[h] = "start.row" /\ UNCHANGED op
    BY <1>1, <1>4, <1>5, <2>1, <2>2 DEF SoloNext, SoloInv, SoloProcess, SoloUpdated, Starting
  <2>3. CASE enabled = {} /\ Finish(h)
    BY <1>4, <2>1, <2>3, AfterSoloBy DEF SoloNext, SoloInv, Finish
  <2> QED BY <1>2, <1>10, <2>2, <2>3 DEF InitializeCore, Goto
<1> QED BY <1>7, <1>8, <1>9, <1>10

\* A request that arrives alone, whatever the state is.
LEMMA SoloArrives ==
  ASSUME TypeOK, NEW h \in Handler, Arrive(h), solo' = h
  PROVE  pc[h] = "idle" /\ SoloInv(h)'
<1> USE DEF TypeOK
<1>1. ASSUME NEW o, NEW i, NEW step, Begin(h, o, i, step)
      PROVE  /\ pc[h] = "idle" /\ Alone(h)' /\ Quiet
             /\ pc'[h] = step /\ op'[h] = o /\ arg'[h] = i /\ o \in AllOps
  <2>1. Alone(h) /\ Quiet /\ pc[h] = "idle"
    BY <1>1, LifecycleAssumption DEF Begin, Quiet, LifecycleAssumption
  <2>2. pc' = [pc EXCEPT ![h] = step] /\ op' = [op EXCEPT ![h] = o] /\ arg' = [arg EXCEPT ![h] = i]
    BY <1>1 DEF Begin
  <2>3. o \in AllOps
    BY <1>1, LifecycleAssumption DEF Begin, LifecycleAssumption
  <2> QED BY <2>1, <2>2, <2>3, OthersWait
<1>2. proc' = proc
  BY DEF Arrive, CreateInbound, UpdateRead, DeleteRead, StartCore, StopCore, RestartCore, TouchData,
       StatusRead, WatchdogRead, world
<1>3. ASSUME NEW i \in Inbound, CreateInbound(h, i) \/ UpdateRead(h, i) \/ DeleteRead(h, i)
      PROVE  pc[h] = "idle" /\ SoloInv(h)'
  <2>1. PICK o \in InboundOps, step \in {"generate", "apply", "erase"} :
          /\ Begin(h, o, i, step)
          /\ step = "generate" <=> o = "created"
          /\ step = "apply" <=> o = "updated"
    BY <1>3 DEF CreateInbound, UpdateRead, DeleteRead, InboundOps
  <2> QED BY <1>1, <1>2, <2>1 DEF SoloInv, SoloProcess, Quiet, SoloUpdated, SoloCreated, SoloDeleted, SoloTouch,
            SoloFile, Restarting, Starting, Stopping, InboundOps
<1>4. CASE StartCore(h) \/ StopCore(h) \/ RestartCore(h) \/ TouchData(h) \/ WatchdogRead(h)
  <2>1. PICK o \in {"start", "stop", "restart", "touch", "watchdog"},
             step \in {"start.row", "stop.row", "restart.row", "touch.generate", "watchdog.save"} :
          /\ Begin(h, o, None, step)
          /\ step = "touch.generate" <=> o = "touch"
    BY <1>4 DEF StartCore, StopCore, RestartCore, TouchData, WatchdogRead
  <2> QED BY <1>1, <1>2, <2>1 DEF SoloInv, SoloProcess, Quiet, SoloUpdated, SoloTouch, Restarting, Starting
<1>5. CASE StatusRead(h)
  <2>1. Begin(h, "status", None, "status.check") /\ snap'[h] = row'
    BY <1>5 DEF StatusRead, world
  <2> QED BY <1>1, <1>2, <2>1 DEF SoloInv, SoloProcess, Quiet
<1> QED BY <1>3, <1>4, <1>5 DEF Arrive

SoloIInv == \A h \in Handler : solo = h /\ pc[h] # "idle" => SoloInv(h)

\* Every step of whoever keeps what is known of the handler that met nobody.
LEMMA SoloStep ==
  ASSUME TypeOK, SoloIInv, [Next]_vars, NEW h \in Handler, solo' = h
  PROVE  /\ pc'[h] # "idle" => SoloInv(h)'
         /\ solo = h /\ pc[h] # "idle" /\ pc'[h] = "idle" => AfterSolo(op[h])
<1> USE DEF TypeOK
<1>1. ~Spoil
  BY LifecycleAssumption DEF Spoil, LifecycleAssumption
<1>2. CASE Arrive(h)
  BY <1>2, SoloArrives
<1>3. CASE Advance(h)
  <2>1. pc[h] # "idle"
    BY <1>3 DEF Advance, UpdateApply, UpdateDispatch, DeleteApply, CountOthers,
         ReadCore, GenerateConfig, WriteConfig, Probe, ReadRow, StartCheck, StartCall,
         StartAnswer, StartConfirm, StartSave, RestartStop, StopCheck, StopCall,
         StopSave, TouchGenerate, TouchWrite, TouchProbe, TouchRename,
         TouchCleanup, StatusCheck, WatchdogSave, InitializeCore
  <2>2. solo = h
    BY <1>1, <1>3 DEF Advance, UpdateApply, UpdateDispatch, DeleteApply, CountOthers,
         ReadCore, GenerateConfig, WriteConfig, Probe, ReadRow, StartCheck, StartCall,
         StartAnswer, StartConfirm, StartSave, RestartStop, StopCheck, StopCall,
         StopSave, TouchGenerate, TouchWrite, TouchProbe, TouchRename,
         TouchCleanup, StatusCheck, WatchdogSave, InitializeCore, ghosts
  <2>3. SoloNext(h)
    BY <1>3, <2>1, <2>2, SoloInboundSteps, SoloRegenerateSteps, SoloStartSteps, SoloStopSteps, SoloOtherSteps
       DEF SoloIInv, Advance
  <2> QED BY <2>3 DEF SoloNext
<1>4. ASSUME NEW g \in Handler, g # h, Arrive(g) PROVE FALSE
  BY <1>4, LifecycleAssumption DEF Arrive, CreateInbound, UpdateRead, DeleteRead, StartCore, StopCore, RestartCore,
     TouchData, StatusRead, WatchdogRead, Begin, LifecycleAssumption
<1>5. ASSUME NEW g \in Handler, g # h, Advance(g)
      PROVE  pc[g] # "idle" /\ solo = h /\ pc'[h] = pc[h]
  BY <1>1, <1>5 DEF Advance, UpdateApply, UpdateDispatch, DeleteApply, CountOthers,
         ReadCore, GenerateConfig, WriteConfig, Probe, ReadRow, StartCheck, StartCall,
         StartAnswer, StartConfirm, StartSave, RestartStop, StopCheck, StopCall,
         StopSave, TouchGenerate, TouchWrite, TouchProbe, TouchRename,
         TouchCleanup, StatusCheck, WatchdogSave, InitializeCore, ghosts, Goto, Finish, Fail, Succeed, Generated
<1>6. ASSUME NEW g \in Handler, g # h, Advance(g), pc[h] # "idle" PROVE FALSE
  BY <1>5, <1>6 DEF SoloIInv, SoloInv, Alone
<1>7. ASSUME NEW g \in Handler, PanelRestart(g)
      PROVE  (pc'[h] # "idle" => SoloInv(h)') /\ ~(solo = h /\ pc[h] # "idle" /\ pc'[h] = "idle")
  <2>1. g = h /\ Quiet
    BY <1>7, LifecycleAssumption DEF PanelRestart, Quiet, LifecycleAssumption
  <2>2. /\ pc'[h] = "init" /\ op'[h] = "init" /\ Alone(h)' /\ Quiet'
    BY <1>7, <2>1 DEF PanelRestart, Alone, world, Quiet
  <2> QED BY <2>2 DEF SoloInv, SoloProcess, AllOps
<1>8. CASE ProcessUp
  <2>1. /\ proc.state = "starting" /\ proc'.state = "running" /\ proc'.config = proc.config
        /\ UNCHANGED <<inbounds, enabled, rev, row, file, tmp, pc, op, arg, others, cfg, snap, solo>>
    BY <1>8 DEF ProcessUp, locals, ghosts, Process
  <2>2. CASE pc[h] # "idle"
    <3>1. SoloInv(h) /\ pc[h] = "start.wait"
      BY <2>1, <2>2 DEF SoloIInv, SoloInv, SoloProcess, Quiet
    <3> QED BY <2>1, <3>1 DEF SoloInv, Alone, SoloProcess, SoloUpdated, SoloCreated, SoloDeleted, SoloTouch,
              SoloFile, Restarting, Starting, Stopping, Desired
  <2> QED BY <2>1, <2>2
<1>9. CASE UNCHANGED vars
  BY <1>9 DEF vars, SoloIInv, SoloInv, Alone, SoloProcess, Quiet, Serving, SoloUpdated, SoloCreated, SoloDeleted,
     SoloTouch, SoloFile, Restarting, Starting, Stopping, Desired
<1>10. ~ProcessDies
  BY <1>1 DEF ProcessDies
<1> QED BY <1>2, <1>3, <1>4, <1>5, <1>6, <1>7, <1>8, <1>9, <1>10 DEF Next

\* Whatever races, failures and restarts have left behind, and however many
\* goroutines there are: an operation that meets no other leaves what it is for
\* (core_lifecycle.go, config_service.go, GetCoreStatus).
THEOREM AloneRepairs == Spec => SoloRepairs
<1> DEFINE Repaired == \A h \in Handler :
             (solo = h /\ solo' = h /\ pc[h] # "idle" /\ pc'[h] = "idle") => AfterSolo(op[h])
<1>1. Init => TypeOK /\ SoloIInv
  BY InitIInv DEF IInv, Init, SoloIInv
<1>2. TypeOK /\ SoloIInv /\ [Next]_vars => (TypeOK /\ SoloIInv)' /\ [Repaired]_vars
  <2> SUFFICES ASSUME TypeOK, SoloIInv, [Next]_vars PROVE (TypeOK /\ SoloIInv)' /\ Repaired
    OBVIOUS
  <2> QED BY TypeStep, SoloStep DEF SoloIInv
<1> QED BY <1>1, <1>2, PTL DEF Spec, SoloRepairs

-----------------------------------------------------------------------------
(***************************************************************************)
(* The temporary file.  Whoever has written it is a RegenerateAndReload    *)
(* on its way to the cleanup, whatever the others do with the same path.   *)
(***************************************************************************)
TouchOwn  == {"touch.generate", "touch.configure", "touch.write", "touch.probe", "touch.rename", "touch.cleanup"}
TouchPath == TouchOwn \cup {"restart.row", "restart.stop", "start.call", "start.wait",
                            "start.confirm", "start.save"}
TempPath  == TouchPath \ {"touch.generate", "touch.configure", "touch.write"}

Cleans(h) == op[h] = "touch" /\ pc[h] \in TempPath

TempInv ==
  /\ \A h \in Handler : op[h] = "touch" => pc[h] \in TouchPath
  /\ \A h \in Handler : pc[h] \in TouchOwn => op[h] = "touch"
  /\ tmp # None => \E h \in Handler : Cleans(h)

\* A step of h that clears the file, or leaves h to clear it, or neither
\* writes it nor takes h away, keeps the invariant.
LEMMA TempKept ==
  ASSUME TempInv, NEW h \in Handler,
         \A g \in Handler \ {h} : op'[g] = op[g] /\ pc'[g] = pc[g],
         op'[h] = "touch" => pc'[h] \in TouchPath,
         pc'[h] \in TouchOwn => op'[h] = "touch",
         tmp' = None \/ Cleans(h)' \/ (tmp' = tmp /\ ~Cleans(h))
  PROVE  TempInv'
<1>1. /\ \A g \in Handler : op'[g] = "touch" => pc'[g] \in TouchPath
      /\ \A g \in Handler : pc'[g] \in TouchOwn => op'[g] = "touch"
  BY DEF TempInv
<1>2. ASSUME tmp' # None PROVE \E g \in Handler : Cleans(g)'
  <2>1. CASE Cleans(h)'
    BY <2>1
  <2>2. CASE tmp' = tmp /\ ~Cleans(h)
    <3>1. PICK g \in Handler : Cleans(g)
      BY <1>2, <2>2 DEF TempInv
    <3> QED BY <2>2, <3>1 DEF Cleans
  <2> QED BY <1>2, <2>1, <2>2
<1> QED BY <1>1, <1>2 DEF TempInv

\* Every step of an operation that meets no fault keeps the invariant.
LEMMA TempStep ==
  ASSUME ~Faulty, TypeOK, TempInv, [Next]_vars
  PROVE  TempInv'
<1> USE DEF TypeOK
<1>1. ASSUME NEW h \in Handler, Arrive(h) PROVE TempInv'
  <2>1. ASSUME NEW o, NEW i, NEW step, Begin(h, o, i, step), tmp' = tmp,
               o = "touch" <=> step \in TouchOwn, o = "touch" => step \in TouchPath
        PROVE  TempInv'
    <3>1. /\ pc' = [pc EXCEPT ![h] = step] /\ op' = [op EXCEPT ![h] = o] /\ pc[h] = "idle"
      BY <2>1 DEF Begin
    <3>2. ~Cleans(h)
      BY <3>1 DEF Cleans, TempPath, TouchPath, TouchOwn
    <3> QED BY <2>1, <3>1, <3>2, TempKept
  <2>2. ASSUME NEW i \in Inbound, CreateInbound(h, i) \/ UpdateRead(h, i) \/ DeleteRead(h, i) PROVE TempInv'
    BY <2>1, <2>2 DEF CreateInbound, UpdateRead, DeleteRead, TouchOwn, world
  <2>3. CASE StartCore(h) \/ StopCore(h) \/ RestartCore(h)
    BY <2>1, <2>3 DEF StartCore, StopCore, RestartCore, TouchOwn, world
  <2>4. CASE TouchData(h) \/ StatusRead(h) \/ WatchdogRead(h)
    BY <2>1, <2>4 DEF TouchData, StatusRead, WatchdogRead, TouchOwn, TouchPath, world
  <2> QED BY <1>1, <2>2, <2>3, <2>4 DEF Arrive
<1>2. ASSUME NEW h \in Handler, Advance(h) PROVE TempInv'
  <2>0. /\ op[h] = "touch" => pc[h] \in TouchPath
        /\ pc[h] \in TouchOwn => op[h] = "touch"
    BY DEF TempInv
  <2>1. CASE UpdateApply(h) \/ UpdateDispatch(h) \/ DeleteApply(h) \/ CountOthers(h)
             \/ ReadCore(h) \/ GenerateConfig(h) \/ WriteConfig(h)
    BY <2>0, <2>1, TempKept DEF UpdateApply, UpdateDispatch, DeleteApply, CountOthers, ReadCore, GenerateConfig, Generated, WriteConfig,
       AfterRegenerate, Goto, Finish, Spoil, world, locals, Cleans, TempPath, TouchPath, TouchOwn
  <2>2. CASE Probe(h) \/ ReadRow(h) \/ StartCheck(h)
    BY <2>0, <2>2, TempKept DEF Probe, ReadRow, StartCheck, Goto, Finish, Spoil, world, locals, Cleans, TempPath, TouchPath, TouchOwn
  <2>3. CASE StartCall(h) \/ StartAnswer(h)
    BY <2>0, <2>3, TempKept DEF StartCall, StartAnswer, Fail, Goto, Finish, Spoil, world, locals, Cleans, TempPath, TouchPath, TouchOwn
  <2>4. CASE StartConfirm(h) \/ StartSave(h)
    BY <2>0, <2>4, TempKept DEF StartConfirm, StartSave, Succeed, Fail, Goto, Finish, Spoil, world, locals, Cleans, TempPath, TouchPath, TouchOwn
  <2>5. CASE RestartStop(h) \/ StopCheck(h) \/ StopCall(h) \/ StopSave(h)
    BY <2>0, <2>5, TempKept DEF RestartStop, StopCheck, StopCall, StopSave, Fail, Goto, Finish, Spoil, world, locals, Cleans, TempPath, TouchPath, TouchOwn
  <2>6. CASE TouchGenerate(h) \/ TouchWrite(h) \/ TouchProbe(h) \/ TouchRename(h) \/ TouchCleanup(h)
    BY <2>0, <2>6, TempKept DEF TouchGenerate, Generated, TouchWrite, TouchProbe, TouchRename, TouchCleanup, Fail, Goto, Finish, Spoil, world, locals, Cleans, TempPath, TouchPath, TouchOwn
  <2>7. CASE StatusCheck(h) \/ WatchdogSave(h) \/ InitializeCore(h)
    BY <2>0, <2>7, TempKept DEF StatusCheck, WatchdogSave, InitializeCore, Goto, Finish, Spoil, world, locals, Cleans, TempPath, TouchPath, TouchOwn
  <2> QED BY <1>2, <2>1, <2>2, <2>3, <2>4, <2>5, <2>6, <2>7 DEF Advance
<1>3. CASE ProcessUp \/ UNCHANGED vars
  BY <1>3 DEF ProcessUp, vars, TempInv, Cleans
<1>4. ~ProcessDies /\ \A h \in Handler : ~PanelRestart(h)
  BY DEF ProcessDies, PanelRestart, Spoil
<1> QED BY <1>1, <1>2, <1>3, <1>4 DEF Next

\* However many operations overlap on the one temporary path, none is left when
\* they are done and nothing failed (config_service.go, RegenerateAndReload).
THEOREM NoTempStays == Spec => []NoTempLeft
<1> DEFINE Inv == TypeOK /\ (~Faulty => TempInv)
<1>1. Init => Inv
  BY InitIInv DEF IInv, Init, TempInv, TouchOwn, Cleans
<1>2. Inv /\ [Next]_vars => Inv'
  BY TypeStep, TempStep
<1>3. Inv => NoTempLeft
  BY DEF NoTempLeft, AllIdle, TempInv, Cleans, TempPath, TouchPath, TouchOwn
<1> QED BY <1>1, <1>2, <1>3, PTL DEF Spec
=============================================================================
