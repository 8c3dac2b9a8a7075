-------------------------- MODULE PlayResult_proofs --------------------------
(***************************************************************************)
(* What the result of a shot says of its play: a shot saved as Success has  *)
(* been played, by this engine and by its owned devices.                    *)
(***************************************************************************)
EXTENDS PlayEngine_proofs

-----------------------------------------------------------------------------
(* One call of play(jobID) and one play thread for each job. *)

\* The job thread before the PlayReady message, and from there up to its result.
Preparing   == {"waitReady", "readyBlocked", "readyQuery", "setReady"}
BeforeReady == Preparing \cup {"makeTrigger", "sendReady"}
InJob       == Labels \ ({"idle", "prepare"} \cup (ReportLabels \ {"save"}))

\* The call of play(jobID) before its play thread: before the events are loaded, and after.
Beginning  == {"clearMessages", "checkReady", "load"}
Arming     == {"spawn", "join"}
Loading    == {"loadFailed", "loaded", "playAll", "armOwned", "armOwnedWait", "armedOwned"}
ToJoin     == pc[Caller] \in StopLabels /\ ret[Caller] = "join"
CallArming == pc[Caller] \in Arming \/ ToJoin
CallLoaded == pc[Caller] \in Loading \/ CallArming
Unjoined   == pc[Caller] \in Beginning \/ CallLoaded

\* The job before its call has begun: what was recorded of it since is no error of a play.
NotCalled  == pc["job"] \in BeforeReady \/ invited \/ pc[Caller] = "clearMessages"
\* The job that is in progress began when no play thread was left over.
Alone      == pc["job"] \in InJob /\ shot \notin overlapped

Measuring  == {"nextEvent", "sleep", "fire", "eventsDone", "joinMeasure"}

\* The server calls once for each invitation, which is for this job, and not for an owner.
OneCall == /\ pc["job"] \in BeforeReady \cup {"prepare"} => pc["server"] = "idle" /\ ~invited
           /\ invited => pc["server"] = "idle" /\ ~Owner
\* The play thread of a job begins once, where its call joins the earlier one.
OneThread == /\ playThread <= shot
             /\ pc["job"] = "prepare" \/ NotCalled \/ Unjoined => playThread # shot
MeasureInPlay == pc["measure"] # "idle" => pc["play"] \in Measuring
NothingLeft   == Alone /\ playThread # shot => pc["play"] \in {"idle", "notify"}
NoPlayError   == Alone /\ NotCalled => "Play" \notin errs

CallInv == OneCall /\ OneThread /\ MeasureInPlay /\ NothingLeft /\ NoPlayError

\* What most steps do: they begin no job, no call and no thread, and find no error of a play.
OrdinaryPc ==
    /\ pc'["job"] \in BeforeReady \cup {"prepare"} =>
          pc["job"] = pc'["job"] \/ pc["job"] \in BeforeReady
    /\ pc'["job"] \in InJob => pc["job"] \in InJob
    /\ pc'["server"] # "idle" => pc["server"] # "idle"
    /\ pc'[Caller] = "clearMessages" => pc[Caller] = "clearMessages"
    /\ Unjoined' => Unjoined
    /\ pc["play"] \in {"idle", "notify"} => pc'["play"] \in {"idle", "notify"}
    /\ pc'["measure"] # "idle" =>
          pc'["play"] \in Measuring \/ (pc["measure"] # "idle" /\ pc["play"] \notin Measuring)
OrdinaryJob  == UNCHANGED <<shot, playThread, overlapped>> /\ (invited' => invited)
OrdinaryErrs == "Play" \in errs' => "Play" \in errs
Ordinary == OrdinaryPc /\ OrdinaryJob

\* Shots are numbered.
LEMMA CallNumbers == TInv => shot \in Nat /\ playThread \in Nat
BY BoundsAssumption DEF TInv, JobType, LoopType, Shots

\* An ordinary step keeps the invariant, as long as it finds no error of a play too early.
LEMMA OrdinaryKeeps ==
    ASSUME TInv, CallInv, Ordinary
    PROVE  /\ OneCall' /\ OneThread' /\ MeasureInPlay' /\ NothingLeft'
           /\ OrdinaryErrs \/ ~(Alone /\ NotCalled) => NoPlayError'
<1> USE DEF CallInv, Ordinary, OrdinaryPc, OrdinaryJob, BeforeReady, Preparing
<1>1. OneCall'
  BY DEF OneCall
<1>2. OneThread'
  BY CallNumbers DEF OneThread, NotCalled
<1>3. MeasureInPlay' /\ NothingLeft'
  BY DEF MeasureInPlay, NothingLeft, Alone
<1>4. OrdinaryErrs \/ ~(Alone /\ NotCalled) => NoPlayError'
  <2>1. NotCalled' => NotCalled \/ pc'["job"] = "prepare"
    BY DEF NotCalled
  <2>2. pc'["job"] = "prepare" => ~Alone'
    BY DEF Alone, InJob
  <2> QED BY <2>1, <2>2 DEF OrdinaryErrs, NoPlayError, Alone
<1> QED BY <1>1, <1>2, <1>3, <1>4

\* What leaves a group of variables alone is ordinary about it.
LEMMA OrdinaryUnchanged ==
    /\ UNCHANGED <<pc, ret>> => OrdinaryPc
    /\ UNCHANGED <<pc, stopVars>> => OrdinaryPc
    /\ UNCHANGED <<jobVars, loopVars, invited>> => OrdinaryJob
    /\ UNCHANGED engineVars => OrdinaryErrs
    /\ UNCHANGED errs => OrdinaryErrs
BY DEF jobVars, loopVars, stopVars, engineVars, OrdinaryPc, OrdinaryJob, OrdinaryErrs, Unjoined,
       CallLoaded, CallArming, ToJoin, BeforeReady, Preparing

\* A thread goes on within its part of the job.
LEMMA OrdinaryMove ==
    ASSUME TInv, UNCHANGED ret, NEW th \in Threads, NEW from, NEW to, Move(th, from, to),
           th = "job" => /\ to \in BeforeReady \cup {"prepare"} => from \in BeforeReady
                         /\ to \in InJob => from \in InJob,
           th = "server" => from # "idle",
           th = Caller => /\ to # "clearMessages"
                          /\ to \in Beginning \cup Loading \cup Arming
                                => from \in Beginning \cup Loading \cup Arming
                                   \/ (from \in StopLabels /\ ret[th] = "join")
                          /\ to \in StopLabels => from \in StopLabels,
           th = "play" => /\ from \in {"idle", "notify"} => to \in {"idle", "notify"}
                          /\ from \in Measuring => to \in Measuring \/ pc["measure"] = "idle",
           th = "measure" => from # "idle"
    PROVE  OrdinaryPc
<1>1. pc[th] = from /\ pc'[th] = to /\ \A u \in Threads \ {th} : pc'[u] = pc[u]
  BY DEF TInv, PcInv, PcType, Move, At, Goto
<1>2. Caller \in Threads
  BY DEF Caller, Threads
<1>3. Unjoined' => Unjoined
  <2>1. CASE th = Caller
    BY <1>1, <2>1 DEF Unjoined, CallLoaded, CallArming, ToJoin
  <2>2. CASE th # Caller
    BY <1>1, <1>2, <2>2 DEF Unjoined, CallLoaded, CallArming, ToJoin
  <2> QED BY <2>1, <2>2
<1> QED BY <1>1, <1>2, <1>3, ThreadsFacts DEF OrdinaryPc

\* A thread calls stop(): the call of play(jobID) returns from it to join an earlier play
\* thread only where it was about to.
LEMMA OrdinaryStopCall ==
    ASSUME TInv, NEW th \in Threads, NEW from, NEW back, StopCall(th, from, back),
           th = "job" => from \in InJob,
           th = "server" => from # "idle",
           th = Caller => back # "join" \/ from = "spawn",
           th = "play" => from \notin Measuring \cup {"idle", "notify"},
           th # "measure"
    PROVE  OrdinaryPc
<1>1. pc[th] = from /\ pc'[th] = "stopRead" /\ \A u \in Threads \ {th} : pc'[u] = pc[u]
  BY DEF TInv, PcInv, PcType, StopCall, Move, At, Goto
<1>2. ret'[th] = back /\ \A u \in Threads \ {th} : ret'[u] = ret[u]
  BY DEF TInv, StopType, StopCall
<1>3. Caller \in Threads
  BY DEF Caller, Threads
<1>4. Unjoined' => Unjoined
  <2>1. CASE th = Caller
    BY <1>1, <1>2, <2>1 DEF Unjoined, CallLoaded, CallArming, ToJoin, Beginning, Loading, Arming
  <2>2. CASE th # Caller
    BY <1>1, <1>2, <1>3, <2>2 DEF Unjoined, CallLoaded, CallArming, ToJoin
  <2> QED BY <2>1, <2>2
<1> QED BY <1>1, <1>3, <1>4, ThreadsFacts DEF OrdinaryPc, BeforeReady, Preparing, Measuring

\* Where an error of a play can be found, the call has begun.
LEMMA CallHasBegun ==
    ASSUME TInv, CallInv
    PROVE  /\ pc[Caller] \in CallLabels \ {"clearMessages"} => ~NotCalled
           /\ pc["play"] \notin {"idle", "notify"} => ~(Alone /\ NotCalled)
           /\ pc["measure"] # "idle" => ~(Alone /\ NotCalled)
<1>1. pc[Caller] \in CallLabels \ {"clearMessages"} => ~NotCalled
  BY DEF CallInv, OneCall, NotCalled, Caller, CallLabels, BeforeReady, Preparing
<1>2. pc["play"] \notin {"idle", "notify"} => ~(Alone /\ NotCalled)
  BY DEF CallInv, OneThread, NothingLeft
<1>3. pc["measure"] # "idle" => pc["play"] \notin {"idle", "notify"}
  BY DEF CallInv, MeasureInPlay, Measuring
<1> QED BY <1>1, <1>2, <1>3

\* The steps of the call are ordinary up to where it joins the earlier play thread.
LEMMA OrdinaryCall ==
    ASSUME TInv, CallInv, CallStep(Caller), ~Join(Caller)
    PROVE  CallInv'
<1> DEFINE c == Caller
<1> USE ThreadsFacts
<1>1. /\ c \in {"job", "server"} /\ c \in Threads /\ c = Caller
      /\ c = "job" => CallOver = "complete"
      /\ CallOver \in {"complete", "idle"}
  BY DEF Caller, CallOver
<1> HIDE DEF c
<1>2. \A label \in CallLabels \cup {"complete", "crashed"} :
         /\ label \notin BeforeReady \cup {"idle", "prepare"} \cup StopLabels
         /\ label \in InJob
  BY DEF CallLabels, BeforeReady, Preparing, StopLabels, InJob, ReportLabels, Labels, JobLabels,
         PlayLabels
<1>3. {"serverTrigger", "idle"} \cap (StopLabels \cup Beginning \cup Loading \cup Arming) = {}
      /\ "serverTrigger" \in InJob \ (BeforeReady \cup {"idle", "prepare"})
  BY DEF StopLabels, Beginning, Loading, Arming, InJob, BeforeReady, Preparing, ReportLabels, Labels
<1> USE DEF CallLabels, Beginning, Loading, Arming
<1>4. CASE ClearMessages(c) \/ LoadFailed(c) \/ Loaded(c) \/ PlayAll(c)
  <2>1. OrdinaryPc /\ OrdinaryJob
    BY <1>1, <1>2, <1>4, OrdinaryUnchanged, OrdinaryMove
       DEF ClearMessages, LoadFailed, Loaded, PlayAll, notPc, notEngine, targetVars, stopVars
  <2>2. OrdinaryErrs
    BY <1>4 DEF ClearMessages, LoadFailed, Loaded, PlayAll, notPc, engineVars, OrdinaryErrs
  <2> QED BY <2>1, <2>2, OrdinaryKeeps DEF CallInv, Ordinary
<1>5. CASE CheckReady(c) \/ Load(c) \/ ArmLate(c)
  <2>1. OrdinaryPc /\ OrdinaryJob
    BY <1>1, <1>2, <1>5, OrdinaryUnchanged, OrdinaryMove
       DEF CheckReady, Load, ArmLate, notEngine, targetVars, stopVars
  <2>2. ~NotCalled
    BY <1>1, <1>5, CallHasBegun DEF CheckReady, Load, ArmLate, Move, At
  <2> QED BY <2>1, <2>2, OrdinaryKeeps DEF CallInv, Ordinary
<1>6. CASE CallCancel(c)
  <2>1. OrdinaryPc /\ OrdinaryJob
    BY <1>1, <1>2, <1>6, OrdinaryUnchanged, OrdinaryStopCall DEF CallCancel, targetVars
  <2> QED BY <1>6, <2>1, OrdinaryKeeps, OrdinaryUnchanged DEF CallInv, Ordinary, CallCancel
<1>7. CASE ArmOwned(c) \/ ArmOwnedWait(c) \/ ArmLocal(c) \/ ArmLocalWait(c)
  <2>1. OrdinaryPc /\ OrdinaryJob /\ OrdinaryErrs
    BY <1>1, <1>2, <1>7, OrdinaryUnchanged, OrdinaryMove
       DEF ArmOwned, ArmOwnedWait, ArmLocal, ArmLocalWait, ArmWaitEnter, ArmWaitDone, notPc, notMt,
           targetVars, stopVars
  <2> QED BY <2>1, OrdinaryKeeps DEF CallInv, Ordinary
<1>8. CASE ArmStopped(c) \/ ArmedOwned(c) \/ RequestTrigger(c) \/ ServerTrigger(c)
  <2>1. OrdinaryPc /\ OrdinaryJob /\ OrdinaryErrs
    BY <1>1, <1>2, <1>3, <1>8, OrdinaryUnchanged, OrdinaryMove
       DEF ArmStopped, ArmedOwned, RequestTrigger, ServerTrigger, notPc, notMt, targetVars, stopVars
  <2> QED BY <2>1, OrdinaryKeeps DEF CallInv, Ordinary
<1>9. CASE Spawn(c)
  <2>1. OrdinaryPc
    BY <1>1, <1>2, <1>9, OrdinaryMove, OrdinaryStopCall DEF Spawn, stopVars
  <2>2. OrdinaryJob /\ OrdinaryErrs
    BY <1>9, OrdinaryUnchanged DEF Spawn, targetVars
  <2> QED BY <2>1, <2>2, OrdinaryKeeps DEF CallInv, Ordinary
<1>10. CASE Trigger(c) \/ NotifyTrigger(c)
  <2>1. OrdinaryPc /\ OrdinaryJob
    BY <1>1, <1>2, <1>3, <1>10, OrdinaryUnchanged, OrdinaryMove
       DEF Trigger, NotifyTrigger, notEngine, targetVars, stopVars
  <2>2. OrdinaryErrs
    BY <1>10, OrdinaryUnchanged DEF Trigger, NotifyTrigger
  <2> QED BY <2>1, <2>2, OrdinaryKeeps DEF CallInv, Ordinary
<1> QED BY <1>4, <1>5, <1>6, <1>7, <1>8, <1>9, <1>10 DEF CallStep, c

\* So are those of the play thread and of the measurement thread.
LEMMA OrdinaryPlay == ASSUME TInv, CallInv, PlayStep \/ MeasureStep PROVE CallInv'
<1> USE ThreadsFacts DEF StopLabels, Measuring
<1>0. "play" # Caller /\ "measure" # Caller
  BY DEF Caller
<1>1. OrdinaryPc
  <2>1. CASE Arm \/ ArmStop \/ Ready \/ Fired \/ Final
    BY <1>0, <2>1, OrdinaryMove DEF Arm, ArmStop, Ready, Fired, Final, notEngine, notMt, stopVars
  <2>2. CASE ArmError
    BY <1>0, <2>2, OrdinaryStopCall DEF ArmError
  <2>3. CASE After
    BY <1>0, <2>3, OrdinaryMove, OrdinaryStopCall DEF After, stopVars
  <2>4. CASE TrigLock \/ TrigCheck \/ TrigSleep \/ TrigWoken \/ NextEvent \/ JoinMeasure
             \/ AllLock \/ AllWoken \/ AllTimeout \/ NotifyComplete
    BY <1>0, <2>4, OrdinaryMove
       DEF TrigLock, TrigCheck, TrigSleep, TrigWoken, NextEvent, JoinMeasure, AllLock, AllWoken,
           AllTimeout, NotifyComplete, notLocks, stopVars, At
  <2>5. CASE PlayLock
    <3>1. /\ pc["play"] = "playLock"
          /\ pc'["play"] = "nextEvent" \/ (pc'["play"] = "allLock" /\ pc'["measure"] = "idle")
          /\ \A u \in Threads \ {"play", "measure"} : pc'[u] = pc[u]
          /\ UNCHANGED ret
      BY <2>5 DEF PlayLock, At, TInv, PcInv, PcType, stopVars
    <3> QED BY <1>0, <3>1
            DEF OrdinaryPc, Unjoined, CallLoaded, CallArming, ToJoin, Caller
  <2>6. CASE Sleep \/ Fire \/ EventsDone \/ AllCheck \/ AllGrace \/ AllGiveUp
    BY <1>0, <2>6, OrdinaryMove
       DEF Sleep, Fire, EventsDone, AllCheck, AllGrace, AllGiveUp, notPc, stopVars
  <2>7. CASE Collect \/ Collected
    BY <1>0, <2>7, OrdinaryMove DEF Collect, Collected, notPc, stopVars
  <2> QED BY <2>1, <2>2, <2>3, <2>4, <2>5, <2>6, <2>7 DEF PlayStep, MeasureStep
<1>2. OrdinaryJob
  BY DEF PlayStep, MeasureStep, Arm, ArmError, ArmStop, Ready, TrigLock, TrigCheck, TrigSleep,
     TrigWoken, Fired, PlayLock, NextEvent, Sleep, Fire, EventsDone, JoinMeasure, AllLock,
     AllCheck, AllWoken, AllTimeout, AllGrace, AllGiveUp, After, Final, NotifyComplete, Collect,
     Collected, notPc, notEngine, notLocks, notMt, targetVars, loopVars, jobVars, OrdinaryJob
<1>3. \/ ~(Alone /\ NotCalled)
      \/ NotifyComplete
  <2>1. PlayStep => pc["play"] \notin {"idle", "notify"} \/ NotifyComplete
    BY DEF PlayStep, Arm, ArmError, ArmStop, Ready, TrigLock, TrigCheck, TrigSleep,
     TrigWoken, Fired, PlayLock, NextEvent, Sleep, Fire, EventsDone, JoinMeasure, AllLock,
     AllCheck, AllWoken, AllTimeout, AllGrace, AllGiveUp, After, Final, StopCall, Move, At
  <2>2. MeasureStep => pc["measure"] # "idle"
    BY DEF MeasureStep, Collect, Collected, Move, At
  <2> QED BY <2>1, <2>2, CallHasBegun
<1>4. NotifyComplete => OrdinaryErrs
  BY OrdinaryUnchanged DEF NotifyComplete, notLocks
<1> QED BY <1>1, <1>2, <1>3, <1>4, OrdinaryKeeps DEF CallInv, Ordinary

\* So are those of the job thread that neither begin the play nor invite the server.
LEMMA OrdinaryJobStep ==
    ASSUME TInv, CallInv, JobStep, ~Prepare, ~SendReady
    PROVE  CallInv'
<1> USE ThreadsFacts DEF Beginning, Loading, Arming, StopLabels
<1>0. /\ {"readyBlocked", "readyQuery", "waitReady", "setReady", "makeTrigger", "sendReady"}
             = BeforeReady
      /\ {"complete", "completeCheck", "completeSleep", "completeBlocked", "save", "cancelJob"}
             \cup BeforeReady \subseteq InJob
      /\ {"sendComplete", "cancelLate", "finish", "end", "idle"} \cap InJob = {}
      /\ {"complete", "completeCheck", "completeSleep", "completeBlocked", "save", "cancelJob",
          "sendComplete", "cancelLate", "finish", "end", "idle"}
             \cap (BeforeReady \cup {"prepare"}) = {}
  BY DEF BeforeReady, Preparing, InJob, ReportLabels, Labels, JobLabels
<1>1. OrdinaryPc
  <2>1. CASE RefuseAbstract \/ WaitReady \/ ReadyWoken \/ ReadyTimeout \/ ReadyQueried
    BY <1>0, <2>1, OrdinaryMove
       DEF RefuseAbstract, WaitReady, ReadyWoken, ReadyTimeout, ReadyQueried, notLocks, stopVars
  <2>2. CASE SetReady \/ MakeTrigger
    BY <1>0, <2>2, OrdinaryMove DEF SetReady, MakeTrigger, notEngine, notMt, stopVars
  <2>3. CASE CancelJob
    BY <1>0, <2>3, OrdinaryStopCall DEF CancelJob
  <2>4. CASE Complete \/ CompleteCheck \/ CompleteSleep \/ CompleteWoken
    BY <1>0, <2>4, OrdinaryMove
       DEF Complete, CompleteCheck, CompleteSleep, CompleteWoken, notLocks, stopVars
  <2>5. CASE Save \/ SendComplete \/ CancelLate \/ Finish \/ EndJob
    BY <1>0, <2>5, OrdinaryMove
       DEF Save, SendComplete, CancelLate, Finish, EndJob, notPc, notEngine, stopVars
  <2> QED BY <2>1, <2>2, <2>3, <2>4, <2>5 DEF JobStep
<1>2. OrdinaryJob /\ OrdinaryErrs
  BY DEF JobStep, RefuseAbstract, WaitReady, ReadyWoken, ReadyTimeout, ReadyQueried, SetReady,
     MakeTrigger, CancelJob, Complete, CompleteCheck, CompleteSleep, CompleteWoken, Save,
     SendComplete, CancelLate, Finish, EndJob, AddErrorIf, notPc, notEngine, notLocks, notMt,
     engineVars, targetVars, loopVars, jobVars, OrdinaryJob, OrdinaryErrs
<1> QED BY <1>1, <1>2, OrdinaryKeeps DEF CallInv, Ordinary

\* So are those of the devices, of the messages and of every stop().
LEMMA OrdinaryOthers ==
    ASSUME TInv, LockInv, CallInv,
           \/ TargetStep \/ HandlerDone \/ UserStop
           \/ \E th \in Threads \ {"measure"} : Stop(th)
           \/ UNCHANGED vars
    PROVE  CallInv'
<1> USE ThreadsFacts DEF Beginning, Loading, Arming, StopLabels
<1>0. /\ "handler" # Caller /\ "user" # Caller
      /\ \A label \in StopLabels \cup {"complete", "join"} :
             label \in InJob \ (BeforeReady \cup {"prepare"})
  BY DEF Caller, BeforeReady, Preparing, InJob, ReportLabels, Labels, JobLabels, CallLabels
<1>1. CASE HandlerDone \/ UserStop \/ UNCHANGED vars
  <2>1. CASE HandlerDone
    BY <1>0, <2>1, OrdinaryMove, OrdinaryUnchanged, OrdinaryKeeps
       DEF HandlerDone, notLocks, targetVars, stopVars, CallInv, Ordinary
  <2>2. CASE UserStop
    <3>1. /\ pc'["user"] = "stopRead" /\ \A u \in Threads \ {"user"} : pc'[u] = pc[u]
          /\ \A u \in Threads \ {"user"} : ret'[u] = ret[u]
      BY <2>2 DEF UserStop, TInv, PcInv, PcType, StopType, Move, Goto
    <3>2. OrdinaryPc
      BY <1>0, <3>1 DEF OrdinaryPc, Unjoined, CallLoaded, CallArming, ToJoin, Caller
    <3> QED BY <2>2, <3>2, OrdinaryUnchanged, OrdinaryKeeps
            DEF UserStop, targetVars, CallInv, Ordinary
  <2>3. CASE UNCHANGED vars
    BY <2>3, OrdinaryUnchanged, OrdinaryKeeps DEF vars, targetVars, CallInv, Ordinary
  <2> QED BY <1>1, <2>1, <2>2, <2>3
<1>2. CASE \E t \in Targets : TargetReady(t) \/ TargetArm(t) \/ TargetComplete(t)
  BY <1>2, OrdinaryUnchanged, OrdinaryKeeps
     DEF TargetReady, TargetArm, TargetComplete, CallInv, Ordinary
<1>3. CASE \E m \in inbox : DeliverReady(m)
  BY <1>3, OrdinaryUnchanged, OrdinaryKeeps DEF DeliverReady, CallInv, Ordinary
<1>4. ASSUME NEW m \in inbox, DeliverComplete(m) PROVE CallInv'
  <2>1. OrdinaryPc
    BY <1>0, <1>4, OrdinaryUnchanged, OrdinaryStopCall DEF DeliverComplete
  <2> QED BY <1>4, <2>1, OrdinaryUnchanged, OrdinaryKeeps DEF DeliverComplete, CallInv, Ordinary
<1>5. ASSUME NEW th \in Threads \ {"measure"}, Stop(th) PROVE CallInv'
  <2>1. PICK from \in StopLabels, to \in StopLabels \cup {ret[th]} : Move(th, from, to)
    BY <1>5, StopSteps
  <2>2. ret[th] \in Back(th) /\ UNCHANGED <<ret, targetVars, loopVars, jobVars>>
    BY <1>5, StopSteps DEF LockInv, Backs
  <2>3. /\ th = "job" => ret[th] \in {"complete", "join"}
        /\ th = "server" => ret[th] \in {"idle", "join"}
        /\ th = "play" => ret[th] \in {"armStop", "final"}
    BY <2>2 DEF Back
  <2>4. OrdinaryPc
    BY <1>0, <2>1, <2>2, <2>3, OrdinaryMove DEF Measuring, Caller
  <2>5. OrdinaryErrs
    BY <1>5, StopSteps DEF StopRead, AddErrorIf, OrdinaryErrs
  <2> QED BY <2>2, <2>4, <2>5, OrdinaryUnchanged, OrdinaryKeeps DEF targetVars, CallInv, Ordinary
<1> QED BY <1>1, <1>2, <1>3, <1>4, <1>5 DEF TargetStep

\* A job begins, its server is invited and calls, and its play thread begins.
Begins == StartJob \/ Prepare \/ SendReady \/ ServerCall \/ Join(Caller)

\* The steps that begin a job, a call or a play thread keep the invariant too.
LEMMA CallBegins == ASSUME TInv, CallInv, Begins PROVE CallInv'
<1> USE ThreadsFacts DEF CallInv, NotCalled, Unjoined, CallLoaded, CallArming, ToJoin, Beginning,
                         Loading, Arming, StopLabels
<1>0. Caller \in {"job", "server"} /\ (Caller = "job" <=> Owner)
  BY DEF Caller
<1>1. CASE StartJob
  <2>1. /\ pc'["job"] = "prepare" /\ pc["server"] = "idle" /\ ~invited' /\ shot' = shot + 1
        /\ \A u \in Threads \ {"job"} : pc'[u] = pc[u]
        /\ UNCHANGED <<playThread, ret>>
    BY <1>1 DEF StartJob, Move, At, Goto, TInv, PcInv, PcType, loopVars, stopVars
  <2>2. ~Alone'
    BY <2>1 DEF Alone, InJob
  <2> QED BY <1>0, <2>1, <2>2, CallNumbers
          DEF OneCall, OneThread, MeasureInPlay, NothingLeft, NoPlayError, BeforeReady, Preparing
<1>2. CASE Prepare
  <2>1. /\ pc["job"] = "prepare" /\ pc'["job"] = "waitReady"
        /\ \A u \in Threads \ {"job"} : pc'[u] = pc[u]
        /\ UNCHANGED <<shot, playThread, ret, invited>>
        /\ "Play" \notin errs' /\ (shot \notin overlapped' => pc["play"] \in {"idle", "notify"})
    BY <1>2 DEF Prepare, Move, At, Goto, TInv, PcInv, PcType, loopVars, stopVars
  <2> QED BY <1>0, <2>1
          DEF OneCall, OneThread, MeasureInPlay, NothingLeft, NoPlayError, BeforeReady, Preparing,
              Alone
<1>3. CASE SendReady
  <2>1. /\ pc["job"] = "sendReady" /\ pc'["job"] \in {"cancelJob", "clearMessages", "complete"}
        /\ \A u \in Threads \ {"job"} : pc'[u] = pc[u]
        /\ UNCHANGED <<shot, playThread, ret, overlapped>>
        /\ (invited' => ~Owner) /\ ("Play" \in errs' => "Play" \in errs)
    BY <1>3 DEF SendReady, AddErrorIf, Move, At, Goto, TInv, PcInv, PcType, loopVars, stopVars,
                jobVars
  <2>2. Alone' => Alone
    BY <2>1 DEF Alone, InJob, ReportLabels, Labels, JobLabels
  <2> QED BY <1>0, <2>1, <2>2
          DEF OneCall, OneThread, MeasureInPlay, NothingLeft, NoPlayError, BeforeReady, Preparing
<1>4. CASE ServerCall
  <2>1. /\ pc["server"] = "idle" /\ pc'["server"] = "clearMessages" /\ invited /\ ~invited'
        /\ \A u \in Threads \ {"server"} : pc'[u] = pc[u]
        /\ UNCHANGED <<shot, playThread, ret, overlapped, errs>>
    BY <1>4 DEF ServerCall, Move, At, Goto, TInv, PcInv, PcType, loopVars, stopVars, jobVars,
                engineVars
  <2> QED BY <1>0, <2>1
          DEF OneCall, OneThread, MeasureInPlay, NothingLeft, NoPlayError, BeforeReady, Preparing,
              Alone
<1>5. CASE Join(Caller)
  <2>1. /\ pc[Caller] = "join" /\ pc'[Caller] \in {"armLocal", "serverTrigger"}
        /\ pc["play"] = "idle" /\ pc'["play"] = "arm"
        /\ \A u \in Threads \ {Caller, "play"} : pc'[u] = pc[u]
        /\ UNCHANGED <<shot, ret, overlapped, errs, invited>> /\ playThread' = shot
    BY <1>0, <1>5 DEF Join, At, TInv, PcInv, PcType, stopVars, jobVars, engineVars, targetVars
  <2>2. ~NotCalled' /\ ~Unjoined' /\ pc'["job"] # "prepare"
    BY <1>0, <2>1 DEF OneCall, BeforeReady, Preparing
  <2>3. OneCall' /\ MeasureInPlay'
    BY <1>0, <2>1 DEF OneCall, MeasureInPlay, BeforeReady, Preparing, Measuring
  <2> QED BY <2>1, <2>2, <2>3, CallNumbers DEF OneThread, NothingLeft, NoPlayError
<1> QED BY <1>1, <1>2, <1>3, <1>4, <1>5 DEF Begins

\* Every step keeps the invariant.
LEMMA CallNext == ASSUME TInv, LockInv, CallInv, [Next]_vars PROVE CallInv'
BY OrdinaryJobStep, OrdinaryCall, OrdinaryPlay, OrdinaryOthers, CallBegins DEF Next, Begins

-----------------------------------------------------------------------------
(* A shot in which nothing has gone wrong so far.                              *)

Failed  == errs \cap {"Ready", "Play"} # {}
Clean   == Running /\ Alone /\ ~BeingStopped /\ ~Failed /\ shot \notin strayed

\* A stop() under way stays so until it has cancelled the job, and a stray one is not forgotten.
LEMMA StoppedStays ==
    ASSUME TInv, [Next]_vars, ~Prepare
    PROVE  (BeingStopped => BeingStopped') /\ strayed \subseteq strayed'
<1> USE DEF BeingStopped, Halting, Aborts
<1>1. Calm => (BeingStopped => BeingStopped') /\ strayed' = strayed
  BY DEF Calm, CalmEngine, CalmStop, CalmPc
<1>2. ASSUME NEW th \in Threads, Stop(th)
      PROVE  (BeingStopped => BeingStopped') /\ strayed \subseteq strayed'
  <2>1. strayed \subseteq strayed'
    BY <1>2, StopSteps DEF StopEvents
  <2> QED BY <1>2, <2>1, StopKeepsHalting
<1>3. CASE ReportStep \/ StartJob
  BY <1>3 DEF ReportStep, RefuseAbstract, CompleteCheck, Save, SendComplete, CancelLate, Finish,
              EndJob, StartJob, notPc, notEngine, notLocks, engineVars, stopVars, HalfDone, Move,
              At, Goto, TInv, PcInv, PcType
<1>4. CASE JobStep /\ ~ReportStep
  BY <1>1, <1>4, CalmJob
<1>5. CASE CallStep(Caller)
  BY <1>1, <1>5, CalmCall DEF Caller
<1>6. CASE PlayStep
  BY <1>1, <1>6, CalmPlay
<1>7. CASE MeasureStep \/ TargetStep \/ HandlerDone \/ UserStop \/ ServerCall \/ UNCHANGED vars
  BY <1>1, <1>7, CalmOthers
<1> QED BY <1>2, <1>3, <1>4, <1>5, <1>6, <1>7 DEF Next

\* An error stays until the next job; what the call forgets is of an earlier one.
LEMMA ErrorStays ==
    ASSUME TInv, CallInv, [Next]_vars, ~Prepare, Alone, Failed
    PROVE  Failed'
<1> USE DEF Failed
<1>1. CASE JobStep
  BY <1>1 DEF JobStep, RefuseAbstract, WaitReady, ReadyWoken, ReadyTimeout, ReadyQueried, SetReady,
     MakeTrigger, SendReady, CancelJob, Complete, CompleteCheck, CompleteSleep, CompleteWoken, Save,
     SendComplete, CancelLate, Finish, EndJob, AddErrorIf, notPc, notEngine, notLocks, notMt,
     engineVars
<1>2. CASE CallStep(Caller) /\ ~ClearMessages(Caller)
  BY <1>2 DEF CallStep, CheckReady, Load, LoadFailed, Loaded, CallCancel, PlayAll,
     ArmOwned, ArmOwnedWait, ArmLocal, ArmLocalWait, ArmWaitEnter, ArmWaitDone, ArmStopped,
     ArmLate, ArmedOwned, Spawn, Join, RequestTrigger, ServerTrigger, Trigger, NotifyTrigger,
     AddErrorIf, notPc, notEngine, notMt, engineVars
<1>3. CASE ClearMessages(Caller)
  <2>1. NotCalled
    BY <1>3 DEF ClearMessages, Move, At, NotCalled
  <2> QED BY <1>3, <2>1 DEF ClearMessages, CallInv, NoPlayError
<1>4. CASE PlayStep \/ MeasureStep
  BY <1>4 DEF PlayStep, MeasureStep, Arm, ArmError, ArmStop, Ready, TrigLock, TrigCheck,
     TrigSleep, TrigWoken, Fired, PlayLock, NextEvent, Sleep, Fire, EventsDone, JoinMeasure,
     AllLock, AllCheck, AllWoken, AllTimeout, AllGrace, AllGiveUp, After, Final, NotifyComplete,
     Collect, Collected, AddErrorIf, notPc, notEngine, notLocks, notMt, engineVars
<1>5. CASE \E th \in Threads \ {"measure"} : Stop(th)
  BY <1>5, StopSteps DEF StopRead, AddErrorIf
<1>6. CASE StartJob \/ ServerCall \/ TargetStep \/ HandlerDone \/ UserStop \/ UNCHANGED vars
  BY <1>6 DEF StartJob, ServerCall, TargetStep, TargetReady, TargetArm, TargetComplete,
     DeliverReady, DeliverComplete, HandlerDone, UserStop, vars, notLocks, engineVars
<1> QED BY <1>1, <1>2, <1>3, <1>4, <1>5, <1>6 DEF Next

\* The job thread enters its job only by Prepare.
LEMMA AloneStays == ASSUME TInv, [Next]_vars, ~Prepare, Alone' PROVE Alone /\ shot' = shot
<1> DEFINE Outside(label) == label \notin InJob
<1> USE ThreadsFacts DEF TInv, PcInv, PcType
<1>1. /\ \A label \in Labels : Outside(label) <=>
            label \in {"idle", "prepare", "sendComplete", "cancelLate", "finish", "end"}
      /\ \A label \in CallLabels \cup StopLabels \cup {"serverTrigger"} : ~Outside(label)
  BY DEF InJob, ReportLabels, Labels, JobLabels, CallLabels, PlayLabels, StopLabels
<1> HIDE DEF Outside
<1>2. \A th \in Threads : \A from, to : Move(th, from, to) =>
            pc[th] = from /\ pc'[th] = to /\ \A u \in Threads \ {th} : pc'[u] = pc[u]
  BY DEF Move, At, Goto
<1>3. UNCHANGED pc => pc'["job"] = pc["job"]
  OBVIOUS
<1>4. /\ ~StartJob => UNCHANGED <<shot, overlapped>>
      /\ Outside(pc["job"]) => Outside(pc'["job"])
  <2>1. CASE JobStep
    <3>1. UNCHANGED <<shot, overlapped>>
      BY <2>1 DEF JobStep, RefuseAbstract, WaitReady, ReadyWoken, ReadyTimeout, ReadyQueried,
         SetReady, MakeTrigger, SendReady, CancelJob, Complete, CompleteCheck, CompleteSleep,
         CompleteWoken, Save, SendComplete, CancelLate, Finish, EndJob, notPc, notEngine, notLocks,
         notMt, jobVars
    <3>2. CASE RefuseAbstract \/ SendComplete \/ CancelLate \/ Finish \/ EndJob
      BY <1>1, <1>2, <3>1, <3>2
         DEF RefuseAbstract, SendComplete, CancelLate, Finish, EndJob, Labels, JobLabels
    <3>3. CASE ~(RefuseAbstract \/ SendComplete \/ CancelLate \/ Finish \/ EndJob)
      <4>1. ~Outside(pc["job"])
        BY <1>1, <2>1, <3>3 DEF JobStep, WaitReady, ReadyWoken, ReadyTimeout, ReadyQueried,
           SetReady, MakeTrigger, SendReady, CancelJob, Complete, CompleteCheck, CompleteSleep,
           CompleteWoken, Save, StopCall, Move, At, Labels, JobLabels
      <4> QED BY <3>1, <4>1
    <3> QED BY <3>2, <3>3
  <2>2. CASE CallStep(Caller)
    <3>1. UNCHANGED <<shot, overlapped>>
      BY <2>2 DEF CallStep, ClearMessages, CheckReady, Load, LoadFailed, Loaded, CallCancel,
         PlayAll, ArmOwned, ArmOwnedWait, ArmLocal, ArmLocalWait, ArmWaitEnter, ArmWaitDone,
         ArmStopped, ArmLate, ArmedOwned, Spawn, Join, RequestTrigger, ServerTrigger, Trigger,
         NotifyTrigger, notPc, notEngine, notMt, jobVars
    <3>2. /\ pc[Caller] \in CallLabels \cup {"serverTrigger"}
          /\ \A u \in Threads \ {Caller, "play"} : pc'[u] = pc[u]
      BY <2>2 DEF CallStep, ClearMessages, CheckReady, Load, LoadFailed, Loaded, CallCancel,
         PlayAll, ArmOwned, ArmOwnedWait, ArmLocal, ArmLocalWait, ArmWaitEnter, ArmWaitDone,
         ArmStopped, ArmLate, ArmedOwned, Spawn, Join, RequestTrigger, ServerTrigger, Trigger,
         NotifyTrigger, StopCall, Move, At, Goto, CallLabels
    <3> QED BY <1>1, <3>1, <3>2
  <2>3. CASE PlayStep \/ MeasureStep
    <3>1. UNCHANGED <<shot, overlapped>>
      BY <2>3 DEF PlayStep, MeasureStep, Arm, ArmError, ArmStop, Ready, TrigLock, TrigCheck,
         TrigSleep, TrigWoken, Fired, PlayLock, NextEvent, Sleep, Fire, EventsDone, JoinMeasure,
         AllLock, AllCheck, AllWoken, AllTimeout, AllGrace, AllGiveUp, After, Final, NotifyComplete,
         Collect, Collected, notPc, notEngine, notLocks, notMt, jobVars
    <3>2. pc'["job"] = pc["job"]
      BY <2>3 DEF PlayStep, MeasureStep, Arm, ArmError, ArmStop, Ready, TrigLock, TrigCheck,
         TrigSleep, TrigWoken, Fired, PlayLock, NextEvent, Sleep, Fire, EventsDone, JoinMeasure,
         AllLock, AllCheck, AllWoken, AllTimeout, AllGrace, AllGiveUp, After, Final, NotifyComplete,
         Collect, Collected, StopCall, Move, Goto
    <3> QED BY <3>1, <3>2
  <2>4. CASE \E th \in Threads \ {"measure"} : Stop(th)
    <3>1. UNCHANGED <<shot, overlapped>>
      BY <2>4, StopSteps DEF jobVars
    <3>2. pc["job"] \in StopLabels \/ pc'["job"] = pc["job"]
      BY <2>4, StopSteps
    <3> QED BY <1>1, <3>1, <3>2
  <2>5. CASE TargetStep \/ HandlerDone \/ UserStop \/ ServerCall \/ UNCHANGED vars
    <3>1. UNCHANGED <<shot, overlapped>>
      BY <2>5 DEF ServerCall, TargetStep, TargetReady, TargetArm, TargetComplete,
         DeliverReady, DeliverComplete, HandlerDone, UserStop, vars, notLocks, jobVars
    <3>2. pc'["job"] = pc["job"]
      BY <2>5 DEF ServerCall, TargetStep, TargetReady, TargetArm, TargetComplete,
         DeliverReady, DeliverComplete, HandlerDone, UserStop, vars, StopCall, Move, Goto
    <3> QED BY <3>1, <3>2
  <2>6. CASE StartJob
    BY <1>1, <1>2, <2>6 DEF StartJob, Labels, JobLabels
  <2> QED BY <2>1, <2>2, <2>3, <2>4, <2>5, <2>6 DEF Next
<1>5. StartJob => ~Alone'
  BY <1>1, <1>2 DEF StartJob, Alone, Labels, JobLabels, Outside
<1> QED BY <1>4, <1>5 DEF Alone, Outside

\* A shot in which something has gone wrong stays one: nothing takes back a stop or an error.
LEMMA CleanBefore == ASSUME TInv, CallInv, Next, ~Prepare, Clean' PROVE Clean
BY StoppedStays, ErrorStays, AloneStays DEF Clean, Next

-----------------------------------------------------------------------------
(* How far the play of such a shot has come.                                   *)

\* The play thread while it waits for the trigger, plays the events, and waits for the devices.
WaitLabels    == {"ready", "trigLock", "trigCheck", "trigSleep", "trigBlocked"}
LoopLabels    == {"nextEvent", "sleep", "fire"}
DoneLabels    == {"eventsDone", "joinMeasure", "allLock", "allCheck", "allBlocked", "allQuery",
                  "graceBlocked", "after", "final"}
PlayingLabels == {"fired", "playLock"} \cup LoopLabels \cup DoneLabels

EventsPlayed == \A e \in Events : evts[e] = "played"

\* The trigger object is this shot's.
HasTrigger == pc["job"] \notin Preparing \cup {"makeTrigger"} => mt.shot = shot
\* Without the play thread of the shot the engine comes to PlayReady and no further.
NotYet     == playThread # shot => state \in {"PreparingPlay", "PlayReady"}
Prepares   == state = "PreparingPlay" => pc["job"] \in Preparing
\* The engine's state follows the play thread.
ByPlay     == playThread = shot =>
                 /\ pc["play"] = "arm" => state = "PlayReady"
                 /\ pc["play"] \in WaitLabels => state \in {"WaitingForTrigger", "Playing"}
                 /\ pc["play"] \in PlayingLabels => state = "Playing"
                 /\ pc["play"] \notin {"armError", "armStop"} \cup StopLabels
\* No event was stopped since they were loaded.
NotStopped == playThread = shot \/ CallLoaded => \A e \in Events : evts[e] # "stopped"
\* The loop has played every event it has passed, and the wait ends with every device done.
SoFar      == playThread = shot =>
                 /\ pc["play"] \in LoopLabels \cup DoneLabels => playedOk
                 /\ pc["play"] \in LoopLabels => \A e \in Events : e < ei => evts[e] = "played"
                 /\ pc["play"] \in DoneLabels => EventsPlayed
                 /\ pc["play"] \in {"after", "final"} => played = Targets
\* What the engine has done when it is out of the play states.
Over       == state \notin PlayStates => played = Targets /\ EventsPlayed
\* The call triggers the engine only once its play thread waits for that.
Triggers   == /\ CallArming => mt.status[Self] = "Arming"
              /\ pc[Caller] \in Joined =>
                    /\ pc["play"] \in {"arm"} \cup WaitLabels
                    /\ pc["play"] # "arm" => state = "WaitingForTrigger"
                    /\ mt.status[Self] = "Waiting" => pc["play"] \notin {"arm", "ready"}
                    /\ mt.status[Self] # "None"
              /\ pc[Caller] \in TriggerLabels => mt.status[Self] = "Waiting"

Good == /\ HasTrigger /\ NotYet /\ Prepares /\ ByPlay /\ NotStopped /\ SoFar /\ Over /\ Triggers
CleanInv == Clean => Good

\* What most steps of a clean shot do: they leave the engine's state, the events and the play
\* thread where they are, and bring the call no nearer to the trigger.
MinorPlay == /\ UNCHANGED <<state, shot, playThread, evts, playedOk, ei>>
             /\ played = Targets => played' = Targets
MinorTrigger == mt'.shot = mt.shot /\ mt'.status[Self] = mt.status[Self]
MinorPc   == /\ pc["job"] \in Preparing => pc'["job"] \in Preparing
             /\ pc["job"] = "makeTrigger" => pc'["job"] = "makeTrigger"
             /\ (CallArming' => CallArming) /\ (CallLoaded' => CallLoaded)
             /\ pc'[Caller] \in Joined => pc[Caller] \in Joined
             /\ pc'[Caller] \in TriggerLabels => pc[Caller] \in TriggerLabels
             /\ pc'["play"] = pc["play"]
Minor == MinorPlay /\ MinorTrigger /\ MinorPc

\* A minor step keeps what is said of the play.
LEMMA GoodMinor == ASSUME TInv, CallInv, Good, Minor PROVE Good'
<1> USE DEF Good, Minor, MinorPlay, MinorTrigger, MinorPc
<1>1. HasTrigger' /\ NotYet' /\ Prepares' /\ ByPlay'
  BY DEF HasTrigger, NotYet, Prepares, ByPlay
<1>2. NotStopped' /\ SoFar' /\ Over'
  BY DEF NotStopped, SoFar, Over, EventsPlayed
<1>3. Triggers'
  BY DEF Triggers
<1> QED BY <1>1, <1>2, <1>3

\* What leaves a group of variables alone is minor about it.
LEMMA MinorUnchanged ==
    /\ UNCHANGED <<pc, ret>> => MinorPc
    /\ UNCHANGED mt => MinorTrigger
    /\ UNCHANGED <<state, jobVars, loopVars, played, evts>> => MinorPlay
BY DEF jobVars, loopVars, MinorPlay, MinorTrigger, MinorPc, CallLoaded, CallArming, ToJoin

\* A thread other than the play thread goes on within its part of the call and of the job.
LEMMA MinorMove ==
    ASSUME TInv, UNCHANGED ret, NEW th \in Threads \ {"play"}, NEW from, NEW to,
           Move(th, from, to),
           th = "job" => /\ from \in Preparing => to \in Preparing
                         /\ from # "makeTrigger",
           th = Caller => /\ to \in Arming =>
                                from \in Arming \/ (from \in StopLabels /\ ret[th] = "join")
                          /\ to \in Loading => from \in Loading
                          /\ to \in StopLabels => from \in StopLabels
                          /\ to \in Joined => from \in Joined
                          /\ to \in TriggerLabels => from \in TriggerLabels
    PROVE  MinorPc
<1>1. pc[th] = from /\ pc'[th] = to /\ \A u \in Threads \ {th} : pc'[u] = pc[u]
  BY DEF TInv, PcInv, PcType, Move, At, Goto
<1>2. Caller \in Threads
  BY DEF Caller, Threads
<1>3. CASE th = Caller
  BY <1>1, <1>3, ThreadsFacts DEF MinorPc, CallLoaded, CallArming, ToJoin, Caller
<1>4. CASE th # Caller
  BY <1>1, <1>2, <1>4, ThreadsFacts DEF MinorPc, CallLoaded, CallArming, ToJoin
<1> QED BY <1>3, <1>4

\* A thread other than the play thread calls stop().
LEMMA MinorStopCall ==
    ASSUME TInv, NEW th \in Threads \ {"play"}, NEW from, NEW back, StopCall(th, from, back),
           th = "job" => from \notin Preparing \cup {"makeTrigger"},
           th = Caller /\ back = "join" => from = "spawn"
    PROVE  MinorPc
<1>1. pc[th] = from /\ pc'[th] = "stopRead" /\ \A u \in Threads \ {th} : pc'[u] = pc[u]
  BY DEF TInv, PcInv, PcType, StopCall, Move, At, Goto
<1>2. ret'[th] = back /\ \A u \in Threads \ {th} : ret'[u] = ret[u]
  BY DEF TInv, StopType, StopCall
<1>3. Caller \in Threads
  BY DEF Caller, Threads
<1> USE DEF MinorPc, CallLoaded, CallArming, ToJoin, Loading, Arming, StopLabels, Joined,
            TriggerLabels, Preparing
<1>4. CASE th = Caller
  BY <1>1, <1>2, <1>4, ThreadsFacts DEF Caller
<1>5. CASE th # Caller
  BY <1>1, <1>2, <1>3, <1>5, ThreadsFacts
<1> QED BY <1>4, <1>5

-----------------------------------------------------------------------------
(* Every step of such a shot keeps that.                                       *)

\* Nothing is cancelled and there is no error; with its stop recorded, there is none at all.
LEMMA CleanFacts ==
    ASSUME TInv, CallInv, Clean
    PROVE  /\ ~cancelled /\ "Ready" \notin errs /\ "Play" \notin errs
           /\ \A th \in Threads : pc[th] \in HalfDone => ~Aborts(th)
           /\ pc["job"] \in InJob /\ pc["job"] \notin {"idle", "prepare"} /\ shot # 0
           /\ StopRecorded => errs = {}
BY DEF Clean, Failed, BeingStopped, Halting, Alone, InJob, TInv, PcInv, EngineType, StopRecorded

\* The same of the shot after a step that it survives.
LEMMA CleanAfter ==
    ASSUME Clean'
    PROVE  /\ ~cancelled' /\ "Ready" \notin errs' /\ "Play" \notin errs'
           /\ \A th \in Threads : pc'[th] \in HalfDone => ~Aborts(th)'
           /\ pc'["job"] \in InJob /\ shot' \notin strayed'
           /\ \A th \in Threads : pc'[th] # "crashed"
BY DEF Clean, Failed, BeingStopped, Halting, Alone, Running, At

\* The engine prepares.
LEMMA GoodEarly ==
    ASSUME CallInv', pc'["job"] \in BeforeReady, state' \in {"PreparingPlay", "PlayReady"},
           HasTrigger', Prepares'
    PROVE  Good'
<1>1. /\ ~CallLoaded' /\ ~CallArming'
      /\ pc'[Caller] \notin Joined /\ pc'[Caller] \notin TriggerLabels
  BY DEF CallInv, OneCall, Caller, BeforeReady, Preparing, CallLoaded, CallArming, ToJoin, Loading,
       Arming, Joined, TriggerLabels, StopLabels
<1>2. playThread' # shot'
  BY DEF CallInv, OneThread, NotCalled
<1> QED BY <1>1, <1>2 DEF Good, NotYet, ByPlay, NotStopped, SoFar, Over, Triggers, PlayStates

\* The play begins.
LEMMA GoodPrepare == ASSUME TInv, CallInv', Prepare, Clean' PROVE Good'
<1>1. pc'["job"] = "waitReady"
  BY ThreadsFacts DEF Prepare, Move, Goto, TInv, PcInv, PcType
<1>2. state' = "PreparingPlay"
  <2>1. SetState("Parsed", "PreparingPlay") = "PreparingPlay"
    BY DEF SetState, IsAllowedTransition, Edges
  <2> QED BY <2>1, CleanAfter DEF Prepare
<1> QED BY <1>1, <1>2, GoodEarly DEF HasTrigger, Prepares, BeforeReady, Preparing

\* The job thread keeps it: it prepares the play, and then it waits for it.
LEMMA GoodJob ==
    ASSUME TInv, CallInv, CallInv', Clean, Good, Clean', JobStep, ~Prepare
    PROVE  Good'
<1> USE ThreadsFacts
<1>0. /\ {"readyBlocked", "readyQuery", "waitReady", "setReady"} = Preparing
      /\ \A label \in {"sendReady", "cancelJob", "complete", "completeCheck", "completeSleep",
                        "completeBlocked", "clearMessages", "save", "makeTrigger"} \cup Preparing :
             label \notin Arming \cup Loading \cup Joined \cup StopLabels \cup TriggerLabels
      /\ \A label \in {"sendReady", "cancelJob", "complete", "completeCheck", "completeSleep",
                        "completeBlocked", "clearMessages", "save"} :
             label \notin Preparing \cup {"makeTrigger"}
  BY DEF Preparing, Arming, Loading, Joined, StopLabels, TriggerLabels
<1>1. CASE WaitReady \/ ReadyWoken \/ ReadyTimeout \/ ReadyQueried
           \/ Complete \/ CompleteCheck \/ CompleteSleep \/ CompleteWoken
  <2>1. MinorPlay /\ MinorTrigger
    BY <1>1 DEF WaitReady, ReadyWoken, ReadyTimeout, ReadyQueried, Complete, CompleteCheck,
       CompleteSleep, CompleteWoken, notLocks, engineVars, targetVars, loopVars, jobVars,
       MinorPlay, MinorTrigger
  <2>2. MinorPc
    <3>1. CASE WaitReady \/ ReadyWoken \/ ReadyTimeout \/ ReadyQueried
      BY <1>0, <3>1, MinorMove
         DEF WaitReady, ReadyWoken, ReadyTimeout, ReadyQueried, notLocks, stopVars
    <3>2. CASE Complete \/ CompleteCheck \/ CompleteSleep \/ CompleteWoken
      BY <1>0, <3>2, MinorMove
         DEF Complete, CompleteCheck, CompleteSleep, CompleteWoken, notLocks, stopVars
    <3> QED BY <1>1, <3>1, <3>2
  <2> QED BY <2>1, <2>2, GoodMinor DEF Minor
<1>2. CASE SendReady
  <2>1. MinorPlay /\ MinorTrigger
    BY <1>2 DEF SendReady, loopVars, jobVars, MinorPlay, MinorTrigger
  <2>2. MinorPc
    BY <1>0, <1>2, MinorMove DEF SendReady, stopVars
  <2> QED BY <2>1, <2>2, GoodMinor DEF Minor
<1>3. CASE SetReady
  <2>1. /\ pc'["job"] = "makeTrigger" /\ state' = "PlayReady"
    BY <1>3, CleanAfter DEF SetReady, Move, Goto, TInv, PcInv, PcType
  <2> QED BY <2>1, GoodEarly DEF HasTrigger, Prepares, BeforeReady
<1>4. CASE MakeTrigger
  <2>1. /\ pc["job"] = "makeTrigger" /\ pc'["job"] = "sendReady" /\ state' = state
        /\ mt'.shot = shot' /\ state \in {"PreparingPlay", "PlayReady"}
        /\ state # "PreparingPlay"
    <3>1. pc["job"] = "makeTrigger" /\ pc'["job"] = "sendReady" /\ state' = state /\ shot' = shot
      BY <1>4 DEF MakeTrigger, notMt, engineVars, jobVars, Move, At, Goto, TInv, PcInv, PcType
    <3>2. mt' = NewArmed(Ids, shot, Targets)
      BY <1>4, CleanFacts DEF MakeTrigger
    <3>3. playThread # shot
      BY <3>1 DEF CallInv, OneThread, NotCalled, BeforeReady
    <3> QED BY <3>1, <3>2, <3>3 DEF NewArmed, Good, NotYet, Prepares, Preparing
  <2> QED BY <2>1, GoodEarly DEF HasTrigger, Prepares, BeforeReady
<1>5. CASE CancelJob \/ RefuseAbstract \/ Save \/ SendComplete \/ CancelLate \/ Finish \/ EndJob
  <2>1. pc["job"] \in InJob /\ pc'["job"] \in InJob /\ ~cancelled'
    BY CleanFacts, CleanAfter
  <2> QED BY <1>5, <2>1
          DEF CancelJob, RefuseAbstract, Save, SendComplete, CancelLate, Finish, EndJob, Move, At,
              Goto, InJob, ReportLabels, TInv, PcInv, PcType
<1> QED BY <1>1, <1>2, <1>3, <1>4, <1>5 DEF JobStep

\* The call loads the events and arms the engine.
LEMMA GoodCalling ==
    ASSUME playThread' # shot', state' = "PlayReady", mt'.shot = shot',
           CallLoaded' => \A e \in Events : evts'[e] # "stopped",
           CallArming' => mt'.status[Self] = "Arming",
           pc'[Caller] \notin Joined
    PROVE  Good'
BY DEF Good, HasTrigger, NotYet, Prepares, ByPlay, NotStopped, SoFar, Over, Triggers, PlayStates,
       Joined, TriggerLabels

\* The call of play(jobID) keeps it, up to the trigger.
LEMMA GoodCall ==
    ASSUME TInv, CallInv, Clean, Good, Clean', CallStep(Caller)
    PROVE  Good'
<1> DEFINE c == Caller
<1> USE ThreadsFacts
<1>1. /\ c \in {"job", "server"} /\ c \in Threads \ {"play"} /\ c = Caller
      /\ CallOver \in {"complete", "idle"}
  BY DEF Caller, CallOver
<1>2. pc[c] \in CallLabels \cup {"serverTrigger"}
  BY DEF CallStep, ClearMessages, CheckReady, Load, LoadFailed, Loaded, CallCancel, PlayAll,
     ArmOwned, ArmOwnedWait, ArmLocal, ArmLocalWait, ArmWaitEnter, ArmWaitDone, ArmStopped, ArmLate,
     ArmedOwned, Spawn, Join, RequestTrigger, ServerTrigger, Trigger, NotifyTrigger, StopCall,
     Move, At, CallLabels
<1>3. pc["job"] \notin BeforeReady /\ mt.shot = shot /\ mt.shot # 0
  <2>1. pc["job"] \notin BeforeReady
    BY <1>1, <1>2 DEF CallInv, OneCall, CallLabels, Caller, BeforeReady, Preparing
  <2> QED BY <2>1, CleanFacts DEF Good, HasTrigger, BeforeReady
<1>4. c = "job" => pc[c] \notin Preparing \cup {"makeTrigger"}
  BY <1>3 DEF BeforeReady
<1>5. pc[c] \in {"load"} \cup Loading \cup Arming =>
         /\ playThread # shot /\ state = "PlayReady"
  <2>1. pc[c] \in {"load"} \cup Loading \cup Arming => Unjoined
    BY DEF Unjoined, CallLoaded, CallArming, Beginning
  <2> QED BY <1>3, <2>1 DEF CallInv, OneThread, Good, NotYet, Prepares, BeforeReady
<1> HIDE DEF c
<1> USE DEF Arming, Loading, Joined, TriggerLabels, StopLabels
<1>6. CASE ClearMessages(c) \/ CheckReady(c) \/ Loaded(c) \/ PlayAll(c)
  <2>1. MinorPlay /\ MinorTrigger
    BY <1>6 DEF ClearMessages, CheckReady, Loaded, PlayAll, notPc, notEngine, engineVars,
       targetVars, loopVars, jobVars, MinorPlay, MinorTrigger
  <2>2. MinorPc
    BY <1>1, <1>4, <1>6, MinorMove
       DEF ClearMessages, CheckReady, Loaded, PlayAll, notPc, notEngine, stopVars, Move, At,
           Preparing
  <2> QED BY <2>1, <2>2, GoodMinor DEF Minor
<1>7. CASE LoadFailed(c) \/ CallCancel(c) \/ ArmLate(c)
  BY <1>7, CleanAfter DEF LoadFailed, CallCancel, ArmLate, AddErrorIf
<1>8. CASE ArmOwned(c) \/ ArmOwnedWait(c) \/ ArmLocal(c) \/ ArmStopped(c) \/ RequestTrigger(c)
  <2>1. MinorPlay /\ MinorTrigger
    BY <1>8 DEF ArmOwned, ArmOwnedWait, ArmLocal, ArmWaitEnter, ArmWaitDone, ArmStopped,
       RequestTrigger, EnterWait, notPc, notMt, engineVars, targetVars, loopVars, jobVars,
       MinorPlay, MinorTrigger, TInv, MTType, MasterTriggerType
  <2>2. MinorPc
    BY <1>1, <1>3, <1>4, <1>8, MinorMove
       DEF ArmOwned, ArmOwnedWait, ArmLocal, ArmWaitEnter, ArmWaitDone, ArmStopped,
           RequestTrigger, notPc, notMt, stopVars, Preparing
  <2> QED BY <2>1, <2>2, GoodMinor DEF Minor
<1>9. CASE Spawn(c)
  <2>1. MinorPlay /\ MinorTrigger
    BY <1>9 DEF Spawn, engineVars, targetVars, loopVars, jobVars, MinorPlay, MinorTrigger
  <2>2. MinorPc
    BY <1>1, <1>4, <1>9, MinorMove, MinorStopCall DEF Spawn, StopCall, Move, At, stopVars, Preparing
  <2> QED BY <2>1, <2>2, GoodMinor DEF Minor
<1>10. CASE NotifyTrigger(c)
  <2>1. MinorPlay /\ MinorTrigger
    BY <1>10 DEF NotifyTrigger, engineVars, loopVars, jobVars, MinorPlay, MinorTrigger
  <2>2. MinorPc
    BY <1>1, <1>4, <1>10, MinorMove DEF NotifyTrigger, stopVars, Preparing
  <2> QED BY <2>1, <2>2, GoodMinor DEF Minor
<1>11. CASE Load(c)
  <2>1. /\ pc'[c] = "loaded" /\ evts' = [e \in Events |-> "loaded"] /\ state' = "PlayReady"
        /\ UNCHANGED <<playThread, shot, mt>>
    BY <1>1, <1>5, <1>11, CleanAfter
       DEF Load, AddErrorIf, loopVars, jobVars, Move, At, Goto, TInv, PcInv, PcType
  <2>2. ~CallArming' /\ pc'[Caller] \notin Joined
    BY <1>1, <2>1 DEF CallArming, ToJoin
  <2> QED BY <1>3, <1>5, <1>11, <2>1, <2>2, GoodCalling DEF Load, Move, At
<1>12. CASE ArmedOwned(c)
  <2>1. /\ pc[c] = "armedOwned" /\ pc'[c] = "spawn" /\ mt' = ArmId(mt, Self) /\ state' = "PlayReady"
        /\ UNCHANGED <<playThread, shot, evts>>
    BY <1>1, <1>3, <1>5, <1>12, CleanFacts
       DEF ArmedOwned, notMt, engineVars, loopVars, jobVars, Move, At, Goto, TInv, PcInv, PcType
  <2>2. mt'.status[Self] = "Arming" /\ mt'.shot = mt.shot
    BY <2>1, IdsFacts DEF ArmId, TInv, MTType, MasterTriggerType
  <2>3. \A e \in Events : evts'[e] # "stopped"
    BY <1>1, <2>1 DEF Good, NotStopped, CallLoaded
  <2>4. pc'[Caller] \notin Joined
    BY <1>1, <2>1
  <2> QED BY <1>3, <1>5, <2>1, <2>2, <2>3, <2>4, GoodCalling
<1>13. CASE Join(c)
  <2>1. /\ pc[c] = "join" /\ pc'[c] \in {"armLocal", "serverTrigger"} /\ pc'["play"] = "arm"
        /\ pc'["job"] \notin Preparing
        /\ UNCHANGED <<state, shot, evts, mt, played>>
    BY <1>1, <1>3, <1>13
       DEF Join, engineVars, targetVars, jobVars, At, TInv, PcInv, PcType, BeforeReady, Preparing
  <2>2. CallArming /\ ~CallArming'
    BY <1>1, <2>1 DEF CallArming, ToJoin
  <2>3. state' = "PlayReady" /\ mt'.shot = shot'
    BY <1>3, <1>5, <2>1
  <2>4. (\A e \in Events : evts'[e] # "stopped") /\ mt'.status[Self] = "Arming"
    BY <2>1, <2>2 DEF Good, NotStopped, CallLoaded, Triggers
  <2>5. Triggers'
    BY <1>1, <2>1, <2>2, <2>4 DEF Triggers
  <2> QED BY <2>1, <2>3, <2>4, <2>5
          DEF Good, HasTrigger, NotYet, Prepares, ByPlay, NotStopped, SoFar, Over, PlayStates,
              WaitLabels, LoopLabels, DoneLabels, PlayingLabels
<1>14. CASE ArmLocalWait(c) \/ ServerTrigger(c)
  <2>1. MinorPlay /\ MinorTrigger /\ UNCHANGED <<mt, ret>>
    BY <1>14 DEF ArmLocalWait, ArmWaitDone, ServerTrigger, notPc, engineVars, targetVars, stopVars,
       loopVars, jobVars, MinorPlay, MinorTrigger
  <2>2. /\ pc[c] \in {"armLocalWait", "serverTrigger"}
        /\ pc'[c] \in {"armLate", "armStopped", "requestTrigger", "trigger", "complete", "idle"}
        /\ \A u \in Threads \ {c} : pc'[u] = pc[u]
    BY <1>1, <1>14, CleanAfter
       DEF ArmLocalWait, ArmWaitDone, ServerTrigger, Move, At, Goto, TInv, PcInv, PcType
  <2>3. pc'[c] \in TriggerLabels => mt.status[Self] = "Waiting"
    <3>1. CASE ArmLocalWait(c) /\ pc'[c] = "requestTrigger"
      <4>1. mt.status[Self] \in {"None", "Waiting"}
        BY <1>1, <1>3, <3>1, IdsFacts
           DEF ArmLocalWait, ArmWaitDone, ArmWaitOver, AllWaiting, Move, At, Goto, TInv, PcInv,
               PcType
      <4>2. mt.status[Self] # "None"
        BY <1>1, <2>2 DEF Good, Triggers
      <4> QED BY <4>1, <4>2
    <3>2. CASE ServerTrigger(c)
      BY <1>1, <3>2 DEF ServerTrigger, Move, Goto, TInv, PcInv, PcType
    <3> QED BY <1>1, <1>14, <2>2, <3>1, <3>2
            DEF ArmLocalWait, ArmWaitDone, Move, Goto, TInv, PcInv, PcType
  <2>4. /\ ~CallLoaded' /\ ~CallArming' /\ UNCHANGED <<mt, state, shot, playThread, evts>>
        /\ pc'["play"] = pc["play"] /\ pc'["job"] \notin Preparing \cup {"makeTrigger"}
    BY <1>1, <1>3, <2>1, <2>2
       DEF CallLoaded, CallArming, ToJoin, MinorPlay, BeforeReady, Preparing
  <2>5. HasTrigger' /\ NotYet' /\ Prepares' /\ ByPlay'
    BY <1>3, <2>4 DEF Good, HasTrigger, NotYet, Prepares, ByPlay, BeforeReady
  <2>6. NotStopped' /\ SoFar' /\ Over'
    BY <2>1, <2>4 DEF MinorPlay, Good, NotStopped, SoFar, Over, EventsPlayed
  <2>7. Triggers'
    BY <1>1, <2>2, <2>3, <2>4 DEF Good, Triggers
  <2> QED BY <2>5, <2>6, <2>7 DEF Good
<1>15. CASE Trigger(c)
  <2>1. /\ pc[c] = "trigger" /\ pc'[c] \in {"notifyTrigger", "complete", "idle"}
        /\ \A u \in Threads \ {c} : pc'[u] = pc[u]
        /\ UNCHANGED <<mt, shot, playThread, evts, playedOk, ei, played>>
    BY <1>1, <1>15 DEF Trigger, notEngine, targetVars, loopVars, jobVars, Move, At, Goto, TInv,
       PcInv, PcType
  <2>2. pc["play"] \in WaitLabels \ {"ready"} /\ state = "WaitingForTrigger"
    BY <1>1, <2>1 DEF Good, Triggers
  <2>3. state' = "Playing"
    BY <1>15, <2>2 DEF Trigger, SetStateOr, SetStateOk, SetState, IsAllowedTransition, Edges
  <2>4. /\ ~CallLoaded' /\ ~CallArming' /\ pc'[Caller] \notin Joined
        /\ pc'["play"] = pc["play"] /\ pc'["job"] \notin Preparing \cup {"makeTrigger"}
    BY <1>1, <1>3, <2>1 DEF CallLoaded, CallArming, ToJoin, BeforeReady, Preparing
  <2>5. playThread = shot
    BY <2>2 DEF Good, NotYet
  <2>6. HasTrigger' /\ NotYet' /\ Prepares' /\ ByPlay'
    BY <1>3, <2>1, <2>2, <2>3, <2>4, <2>5
       DEF Good, HasTrigger, NotYet, Prepares, ByPlay, WaitLabels, PlayingLabels, LoopLabels,
           DoneLabels
  <2>7. NotStopped' /\ SoFar' /\ Over'
    BY <2>1, <2>3, <2>4, <2>5 DEF Good, NotStopped, SoFar, Over, PlayStates, EventsPlayed
  <2>8. Triggers'
    BY <2>4 DEF Triggers
  <2> QED BY <2>6, <2>7, <2>8 DEF Good
<1> QED BY <1>6, <1>7, <1>8, <1>9, <1>10, <1>11, <1>12, <1>13, <1>14, <1>15 DEF CallStep, c

\* The thread of the shot plays it: what is left to show of such a step.
LEMMA GoodPlaying ==
    ASSUME CallInv, Good, playThread = shot, UNCHANGED <<shot, playThread>>,
           \A u \in {"job", "server"} : pc'[u] = pc[u] /\ ret'[u] = ret[u],
           mt'.shot = mt.shot, state' # "PreparingPlay",
           \A e \in Events : evts'[e] # "stopped",
           ByPlay', SoFar', Over',
           pc[Caller] \in Joined =>
              /\ pc'["play"] \in WaitLabels /\ state' = "WaitingForTrigger"
              /\ mt'.status[Self] = "Waiting" => pc'["play"] # "ready"
              /\ mt'.status[Self] # "None",
           pc[Caller] \in TriggerLabels => mt'.status[Self] = "Waiting"
    PROVE  Good'
<1>1. pc'[Caller] = pc[Caller] /\ ret'[Caller] = ret[Caller]
  BY DEF Caller
<1>2. ~CallLoaded /\ ~CallLoaded'
  BY <1>1 DEF CallInv, OneThread, Unjoined, CallLoaded, CallArming, ToJoin
<1>3. HasTrigger' /\ NotYet' /\ Prepares' /\ NotStopped'
  BY DEF Good, HasTrigger, NotYet, Prepares, NotStopped
<1>4. Triggers'
  BY <1>1, <1>2 DEF Triggers, CallLoaded, WaitLabels
<1> QED BY <1>3, <1>4 DEF Good

\* The play thread keeps it, from armTrigger to the end of playShot.
LEMMA GoodPlay ==
    ASSUME TInv, StopRecorded, CallInv, Clean, Good, Clean', PlayStep
    PROVE  Good'
<1> USE ThreadsFacts
<1>1. /\ \A u \in {"job", "server"} : pc'[u] = pc[u] /\ ret'[u] = ret[u]
      /\ UNCHANGED <<shot, playThread, played>>
  BY DEF PlayStep, MeasureStep, Arm, ArmError, ArmStop, Ready, TrigLock, TrigCheck, TrigSleep,
     TrigWoken, Fired, PlayLock, NextEvent, Sleep, Fire, EventsDone, JoinMeasure, AllLock,
     AllCheck, AllWoken, AllTimeout, AllGrace, AllGiveUp, After, Final, NotifyComplete,
     notPc, notEngine, notLocks, notMt, targetVars, loopVars, jobVars, stopVars,
     StopCall, Move, At, Goto, TInv, PcInv, PcType, StopType
<1>2. ~cancelled' /\ "Play" \notin errs' /\ pc'["play"] # "crashed" /\ errs = {} /\ ~cancelled
  BY CleanFacts, CleanAfter
<1>3. CASE NotifyComplete
  <2>1. /\ pc["play"] = "notify" /\ pc'["play"] = "idle"
        /\ UNCHANGED <<state, evts, mt>>
    BY <1>3 DEF NotifyComplete, notLocks, engineVars, Move, At, Goto, TInv, PcInv, PcType
  <2>2. pc'[Caller] = pc[Caller] /\ ret'[Caller] = ret[Caller]
    BY <1>1 DEF Caller
  <2>3. pc[Caller] \notin Joined /\ TriggerLabels \subseteq Joined
    BY <2>1 DEF Good, Triggers, WaitLabels, TriggerLabels, Joined
  <2>4. HasTrigger' /\ NotYet' /\ Prepares' /\ ByPlay'
    BY <1>1, <2>1 DEF Good, HasTrigger, NotYet, Prepares, ByPlay, WaitLabels, PlayingLabels,
       LoopLabels, DoneLabels, StopLabels
  <2>5. NotStopped' /\ SoFar' /\ Over'
    BY <1>1, <2>1, <2>2 DEF Good, NotStopped, SoFar, Over, LoopLabels, DoneLabels, EventsPlayed,
       CallLoaded, CallArming, ToJoin
  <2>6. Triggers'
    BY <2>1, <2>2, <2>3 DEF Good, Triggers, CallArming, ToJoin
  <2> QED BY <2>4, <2>5, <2>6 DEF Good
<1>4. CASE ~NotifyComplete
  <2>1. playThread = shot
    <3>1. pc["play"] \notin {"idle", "notify"}
      BY <1>4 DEF PlayStep, Arm, ArmError, ArmStop, Ready, TrigLock, TrigCheck, TrigSleep,
         TrigWoken, Fired, PlayLock, NextEvent, Sleep, Fire, EventsDone, JoinMeasure, AllLock,
         AllCheck, AllWoken, AllTimeout, AllGrace, AllGiveUp, After, Final, StopCall, Move, At
    <3> QED BY <3>1 DEF CallInv, NothingLeft, Clean
  <2>2. /\ \A e \in Events : evts[e] # "stopped"
        /\ pc[Caller] \in Joined => pc["play"] \in {"arm"} \cup WaitLabels
        /\ TriggerLabels \subseteq Joined
    BY <2>1 DEF Good, NotStopped, Triggers, TriggerLabels, Joined
  <2> USE DEF WaitLabels, LoopLabels, DoneLabels, PlayingLabels, StopLabels, notEngine, notLocks,
              notMt, notPc, engineVars, loopVars, jobVars, Move, At, Goto, TInv, PcInv, PcType
  <2>3. CASE Arm
    <3>1. pc["play"] = "arm" /\ state = "PlayReady"
      BY <2>1, <2>3 DEF Arm, Good, ByPlay
    <3>2. SetState("PlayReady", "WaitingForTrigger") = "WaitingForTrigger"
      BY DEF SetState, IsAllowedTransition, Edges
    <3>3. /\ pc'["play"] = "ready" /\ state' = "WaitingForTrigger" /\ UNCHANGED <<mt, evts>>
      BY <2>3, <3>1, <3>2 DEF Arm, SetStateOk
    <3>4. ByPlay' /\ SoFar' /\ Over'
      BY <3>3 DEF ByPlay, SoFar, Over, PlayStates
    <3> QED BY <1>1, <2>1, <2>2, <3>1, <3>3, <3>4, GoodPlaying DEF Good, Triggers
  <2>4. CASE ArmError \/ ArmStop
    BY <2>1, <2>4 DEF ArmError, ArmStop, StopCall, Good, ByPlay
  <2>5. CASE Ready
    <3>1. /\ pc["play"] = "ready" /\ pc'["play"] = "trigLock" /\ mt' = ReadyId(mt, Self)
          /\ UNCHANGED <<state, evts>>
      BY <1>2, <2>5 DEF Ready
    <3>2. /\ mt'.shot = mt.shot
          /\ mt.status[Self] # "None" => mt'.status[Self] = "Waiting"
          /\ mt.status[Self] = "Waiting" => mt'.status[Self] = "Waiting"
      BY <3>1, IdsFacts DEF ReadyId, SetKnown, MTType, MasterTriggerType
    <3>3. state \in {"WaitingForTrigger", "Playing"}
      BY <2>1, <3>1 DEF Good, ByPlay
    <3>4. ByPlay' /\ SoFar' /\ Over'
      BY <3>1, <3>3 DEF ByPlay, SoFar, Over, PlayStates
    <3> QED BY <1>1, <2>1, <2>2, <3>1, <3>2, <3>3, <3>4, GoodPlaying DEF Good, Triggers
  <2>6. CASE TrigLock \/ TrigSleep \/ TrigWoken
    <3>1. /\ pc["play"] \in WaitLabels \ {"ready"} /\ pc'["play"] \in WaitLabels \ {"ready"}
          /\ UNCHANGED <<state, evts, mt>>
      BY <2>6 DEF TrigLock, TrigSleep, TrigWoken
    <3>2. state \in {"WaitingForTrigger", "Playing"}
      BY <2>1, <3>1 DEF Good, ByPlay
    <3>3. ByPlay' /\ SoFar' /\ Over'
      BY <3>1, <3>2 DEF ByPlay, SoFar, Over, PlayStates
    <3> QED BY <1>1, <2>1, <2>2, <3>1, <3>2, <3>3, GoodPlaying DEF Good, Triggers
  <2>7. CASE TrigCheck
    <3>1. /\ pc["play"] = "trigCheck" /\ UNCHANGED <<state, evts, mt>>
          /\ pc'["play"] = IF state = "WaitingForTrigger" THEN "trigSleep" ELSE "fired"
      BY <2>7 DEF TrigCheck
    <3>2. state \in {"WaitingForTrigger", "Playing"}
      BY <2>1, <3>1 DEF Good, ByPlay
    <3>3. ByPlay' /\ SoFar' /\ Over'
      BY <3>1, <3>2 DEF ByPlay, SoFar, Over, PlayStates
    <3> QED BY <1>1, <2>1, <2>2, <3>1, <3>2, <3>3, GoodPlaying DEF Good, Triggers
  <2>8. CASE Fired
    <3>1. /\ pc["play"] = "fired" /\ pc'["play"] = "playLock" /\ UNCHANGED <<state, evts>>
          /\ mt'.shot = mt.shot
      BY <1>2, <2>8 DEF Fired, FiredId, SetKnown, MTType, MasterTriggerType
    <3>2. state = "Playing"
      BY <2>1, <3>1 DEF Good, ByPlay
    <3>3. ByPlay' /\ SoFar' /\ Over'
      BY <3>1, <3>2 DEF ByPlay, SoFar, Over, PlayStates
    <3> QED BY <1>1, <2>1, <2>2, <3>1, <3>2, <3>3, GoodPlaying
  <2>9. CASE PlayLock
    <3>1. pc["play"] = "playLock" /\ state = "Playing"
      BY <2>1, <2>9 DEF PlayLock, Good, ByPlay
    <3>2. SetStateOk(state, "Playing")
      BY <3>1 DEF SetStateOk, SetState, IsAllowedTransition, Edges
    <3>3. /\ pc'["play"] = "nextEvent" /\ state' = "Playing" /\ UNCHANGED <<evts, mt>>
          /\ playedOk' = TRUE /\ ei' = 1
      BY <2>9, <3>2 DEF PlayLock, SetStateOr
    <3>4. ByPlay' /\ SoFar' /\ Over'
      BY <3>3 DEF ByPlay, SoFar, Over, PlayStates, Events
    <3> QED BY <1>1, <2>1, <2>2, <3>1, <3>3, <3>4, GoodPlaying
  <2>10. CASE NextEvent \/ Sleep
    <3>1. pc["play"] \in LoopLabels /\ state = "Playing"
      BY <2>1, <2>10 DEF NextEvent, Sleep, Good, ByPlay
    <3>2. /\ pc'["play"] \in LoopLabels \/ (pc'["play"] = "eventsDone" /\ ei > NEvents)
          /\ UNCHANGED <<state, evts, mt, playedOk, ei>>
      BY <2>10, <3>1 DEF NextEvent, Sleep
    <3>3. ei > NEvents => EventsPlayed
      BY <2>1, <3>1, BoundsAssumption DEF Good, SoFar, EventsPlayed, Events, LoopType
    <3>4. ByPlay' /\ SoFar' /\ Over'
      BY <2>1, <3>1, <3>2, <3>3 DEF Good, ByPlay, SoFar, Over, PlayStates, EventsPlayed
    <3> QED BY <1>1, <2>1, <2>2, <3>1, <3>2, <3>4, GoodPlaying
  <2>11. CASE Fire
    <3>1. pc["play"] = "fire" /\ state = "Playing"
      BY <2>1, <2>11 DEF Fire, Good, ByPlay
    <3>2. /\ pc'["play"] = "nextEvent" /\ UNCHANGED <<state, mt, playedOk>> /\ ei' = ei + 1
          /\ evts' = [evts EXCEPT ![ei] = IF @ = "loaded" THEN "played" ELSE @]
      BY <1>2, <2>11 DEF Fire, AddErrorIf
    <3>3. \A e \in Events : evts'[e] = IF e = ei THEN "played" ELSE evts[e]
      BY <2>2, <3>2 DEF EventsType
    <3>4. \A e \in Events : e < ei + 1 => e < ei \/ e = ei
      BY BoundsAssumption DEF Events, LoopType
    <3>5. SoFar'
      BY <2>1, <3>1, <3>2, <3>3, <3>4 DEF Good, SoFar
    <3>6. ByPlay' /\ Over'
      BY <3>1, <3>2 DEF ByPlay, Over, PlayStates
    <3> QED BY <1>1, <2>1, <2>2, <3>1, <3>2, <3>3, <3>5, <3>6, GoodPlaying
  <2>12. CASE EventsDone \/ JoinMeasure \/ AllLock \/ AllWoken \/ AllTimeout \/ AllGrace
    <3>1. pc["play"] \in DoneLabels /\ state = "Playing"
      BY <2>1, <2>12 DEF EventsDone, JoinMeasure, AllLock, AllWoken, AllTimeout, AllGrace, Good,
         ByPlay
    <3>2. /\ pc'["play"] \in DoneLabels \ {"after", "final"}
          /\ UNCHANGED <<state, evts, mt, playedOk>>
      BY <2>12, <3>1 DEF EventsDone, JoinMeasure, AllLock, AllWoken, AllTimeout, AllGrace
    <3>3. ByPlay' /\ SoFar' /\ Over'
      BY <2>1, <3>1, <3>2 DEF Good, ByPlay, SoFar, Over, PlayStates, EventsPlayed
    <3> QED BY <1>1, <2>1, <2>2, <3>1, <3>2, <3>3, GoodPlaying
  <2>13. CASE AllCheck \/ AllGiveUp
    <3>1. pc["play"] \in DoneLabels /\ state = "Playing"
      BY <2>1, <2>13 DEF AllCheck, AllGiveUp, Good, ByPlay
    <3>2. /\ pc'["play"] = "allBlocked" \/ (pc'["play"] = "after" /\ AllPlayed)
          /\ UNCHANGED <<state, evts, mt>>
      BY <1>2, <2>13, <3>1 DEF AllCheck, AllGiveUp, AllPlayed
    <3>4. playedOk' = playedOk \/ playedOk' = (playedOk /\ AllPlayed)
      BY <2>13 DEF AllCheck, AllGiveUp
    <3>5. pc'["play"] = "allBlocked" => playedOk' = playedOk
      BY <2>13 DEF AllCheck, AllGiveUp
    <3>3. ByPlay' /\ SoFar' /\ Over'
      BY <1>1, <2>1, <3>1, <3>2, <3>4, <3>5
         DEF Good, ByPlay, SoFar, Over, PlayStates, EventsPlayed, AllPlayed
    <3> QED BY <1>1, <2>1, <2>2, <3>1, <3>2, <3>3, GoodPlaying
  <2>14. CASE After
    <3>1. pc["play"] = "after" /\ state = "Playing"
      BY <2>1, <2>14 DEF After, StopCall, Good, ByPlay
    <3>4. playedOk
      BY <2>1, <3>1 DEF Good, SoFar
    <3>2. pc'["play"] = "final" /\ UNCHANGED <<state, evts, mt, playedOk>>
      BY <1>2, <2>14, <3>4 DEF After, HasPlayErrors
    <3>3. ByPlay' /\ SoFar' /\ Over'
      BY <1>1, <2>1, <3>1, <3>2 DEF Good, ByPlay, SoFar, Over, PlayStates, EventsPlayed
    <3> QED BY <1>1, <2>1, <2>2, <3>1, <3>2, <3>3, GoodPlaying
  <2>15. CASE Final
    <3>1. pc["play"] = "final" /\ state = "Playing" /\ played = Targets /\ EventsPlayed
      BY <2>1, <2>15 DEF Final, Good, ByPlay, SoFar
    <3>2. pc'["play"] = "notify" /\ UNCHANGED <<evts, mt>> /\ state' # "PreparingPlay"
      BY <2>15, <3>1 DEF Final, SetStateOr, SetStateOk, SetState
    <3>3. ByPlay' /\ SoFar' /\ Over'
      BY <1>1, <2>1, <3>1, <3>2 DEF Good, ByPlay, SoFar, Over, PlayStates, EventsPlayed
    <3> QED BY <1>1, <2>1, <2>2, <3>1, <3>2, <3>3, GoodPlaying
  <2> QED BY <1>4, <2>3, <2>4, <2>5, <2>6, <2>7, <2>8, <2>9, <2>10, <2>11, <2>12, <2>13, <2>14,
             <2>15 DEF PlayStep
<1> QED BY <1>3, <1>4

\* So do the measurement thread, the devices, their messages, and the start of a stop().
LEMMA GoodOthers ==
    ASSUME TInv, LockInv, CallInv, Clean, Good, Clean',
           MeasureStep \/ TargetStep \/ HandlerDone \/ UserStop \/ ServerCall
    PROVE  Good'
<1> USE ThreadsFacts DEF Arming, Loading, Joined, TriggerLabels, StopLabels, Preparing
<1>0. "handler" # Caller /\ "user" # Caller /\ "measure" # Caller
  BY DEF Caller
<1>1. CASE MeasureStep
  <2>1. MinorPlay /\ MinorTrigger
    BY <1>1, CleanAfter DEF MeasureStep, Collect, Collected, AddErrorIf, notPc, engineVars,
       targetVars, loopVars, jobVars, MinorPlay, MinorTrigger
  <2>2. MinorPc
    BY <1>0, <1>1, MinorMove DEF MeasureStep, Collect, Collected, notPc, stopVars
  <2> QED BY <2>1, <2>2, GoodMinor DEF Minor
<1>2. CASE HandlerDone
  BY <1>0, <1>2, MinorMove, MinorUnchanged, GoodMinor
     DEF HandlerDone, notLocks, engineVars, targetVars, stopVars, Minor
<1>3. CASE ServerCall
  BY <1>3, MinorMove, MinorUnchanged, GoodMinor DEF ServerCall, engineVars, stopVars, Minor
<1>4. CASE UserStop
  <2>1. /\ pc'["user"] = "stopRead" /\ \A u \in Threads \ {"user"} : pc'[u] = pc[u]
        /\ \A u \in Threads \ {"user"} : ret'[u] = ret[u]
    BY <1>4 DEF UserStop, TInv, PcInv, PcType, StopType, Move, Goto
  <2>2. MinorPc
    BY <1>0, <2>1 DEF MinorPc, CallLoaded, CallArming, ToJoin, Caller
  <2> QED BY <1>4, <2>2, MinorUnchanged, GoodMinor DEF UserStop, engineVars, targetVars, Minor
<1>5. ASSUME NEW t \in Targets, TargetReady(t) \/ TargetArm(t) \/ TargetComplete(t) PROVE Good'
  <2>1. MinorTrigger
    <3>1. t \in Ids /\ t # Self
      BY TargetsAssumption DEF Ids
    <3>2. mt' = mt \/ mt' = ReadyId(mt, t)
      BY <1>5 DEF TargetReady, TargetArm, TargetComplete
    <3>3. ReadyId(mt, t).shot = mt.shot /\ ReadyId(mt, t).status[Self] = mt.status[Self]
      BY <3>1, IdsFacts DEF ReadyId, SetKnown, TInv, MTType, MasterTriggerType
    <3> QED BY <3>2, <3>3 DEF MinorTrigger
  <2> QED BY <1>5, <2>1, MinorUnchanged, GoodMinor
          DEF TargetReady, TargetArm, TargetComplete, engineVars, stopVars, Minor
<1>6. ASSUME NEW m \in inbox, DeliverReady(m) PROVE Good'
  BY <1>6, MinorUnchanged, GoodMinor DEF DeliverReady, engineVars, stopVars, Minor
<1>7. ASSUME NEW m \in inbox, DeliverComplete(m) PROVE Good'
  <2>1. played = Targets => played' = Targets
    BY <1>7 DEF DeliverComplete, TInv, TargetInv, TargetType, Messages
  <2>2. MinorPc
    BY <1>0, <1>7, MinorUnchanged, MinorStopCall DEF DeliverComplete, stopVars
  <2> QED BY <1>7, <2>1, <2>2, MinorUnchanged, GoodMinor
          DEF DeliverComplete, engineVars, loopVars, jobVars, MinorPlay, Minor
<1> QED BY <1>1, <1>2, <1>3, <1>4, <1>5, <1>6, <1>7 DEF TargetStep

\* A stop() that passes by such a shot finds the engine outside the play states, and no event
\* to stop.
LEMMA GoodStop ==
    ASSUME TInv, LockInv, CallInv, Clean, Good, Clean', NEW th \in Threads \ {"measure"}, Stop(th)
    PROVE  Good'
<1> USE ThreadsFacts DEF Arming, Loading, Joined, TriggerLabels, StopLabels, Preparing
<1>0. Caller # "play" /\ Caller \in {"job", "server"}
  BY DEF Caller
<1>1. th # "play"
  <2>1. pc["play"] \notin StopLabels
    BY DEF Clean, CallInv, NothingLeft, Good, ByPlay
  <2> QED BY <2>1, StopSteps
<1>2. UNCHANGED <<ret, targetVars, loopVars, jobVars>>
  BY StopSteps
<1>3. MinorPc
  <2>1. PICK from \in StopLabels, to \in StopLabels \cup {ret[th]} : Move(th, from, to)
    BY StopSteps
  <2>2. ret[th] \in Back(th)
    BY StopSteps DEF LockInv, Backs
  <2>3. /\ th = "job" => ret[th] \in {"complete", "join"}
        /\ th = "server" => ret[th] \in {"idle", "join"}
    BY <2>2 DEF Back
  <2> QED BY <1>0, <1>1, <1>2, <2>1, <2>3, MinorMove
<1>4. MinorTrigger
  BY StopSteps DEF StopRead, StopWait, MinorTrigger, TInv, MTType, MasterTriggerType
<1>5. state' = state
  <2>1. CASE StopSet(th)
    BY <2>1, CleanFacts DEF StopSet, Move, At, HalfDone, Aborts
  <2> QED BY <2>1, StopSteps
<1>6. evts' = evts
  <2>1. CASE StopEvents(th)
    BY <1>2, <2>1, CleanFacts, CleanAfter DEF StopEvents, jobVars
  <2> QED BY <2>1, StopSteps
<1> QED BY <1>2, <1>3, <1>4, <1>5, <1>6, MinorUnchanged, GoodMinor DEF targetVars, Minor

\* Every step keeps it.
LEMMA CleanNext ==
    ASSUME TInv, LockInv, StopRecorded, CallInv, CallInv', CleanInv, [Next]_vars
    PROVE  CleanInv'
<1> SUFFICES ASSUME Clean' PROVE Good'
  BY DEF CleanInv
<1>1. CASE UNCHANGED vars
  <2>1. Clean /\ Good
    BY <1>1 DEF CleanInv, Clean, Running, At, Alone, BeingStopped, Halting, Aborts, Failed, vars,
       engineVars, stopVars, jobVars
  <2> QED BY <1>1, <2>1, MinorUnchanged, GoodMinor DEF vars, stopVars, targetVars, engineVars, Minor
<1>2. CASE Prepare
  BY <1>2, GoodPrepare
<1>3. CASE Next /\ ~Prepare
  <2>1. Clean /\ Good
    BY <1>3, CleanBefore DEF CleanInv
  <2>2. ~StartJob
    BY CleanAfter, ThreadsFacts DEF StartJob, Move, Goto, InJob, TInv, PcInv, PcType
  <2> QED BY <1>3, <2>1, <2>2, GoodJob, GoodCall, GoodPlay, GoodOthers, GoodStop DEF Next
<1> QED BY <1>1, <1>2, <1>3

\* A shot is saved as Success only when every event has been played and every owned device has
\* completed it, whatever failures, stops and late messages came in between.  There are three
\* ways out, all in the code: a shot begun over an unfinished playShot, a stop() caught before it
\* has set cancelled, and a stop() so late that it stops the events of the next shot.
THEOREM SuccessIsPlayed == Spec => SuccessMeansPlayed
<1>1. Init => LockInv /\ ShotInv
  BY ShotInit
<1>2. Init => CallInv /\ CleanInv
  <2>1. Caller \in Threads
    BY DEF Caller, Threads
  <2> QED BY <2>1
          DEF Init, CallInv, OneCall, OneThread, MeasureInPlay, NothingLeft, NoPlayError, CleanInv,
              Clean, Alone, InJob, NotCalled, BeforeReady, Preparing, Unjoined, CallLoaded,
              CallArming, ToJoin, Beginning, Loading, Arming, StopLabels, Threads
<1>3. TInv /\ LockInv /\ ShotInv /\ CallInv /\ [Next]_vars => LockInv' /\ ShotInv' /\ CallInv'
  BY LockNext, ShotNext, CallNext
<1>4. ReportInv => TInv /\ StopRecorded
  BY DEF ReportInv
<1>5. TInv /\ LockInv /\ StopRecorded /\ CallInv /\ CallInv' /\ CleanInv /\ [Next]_vars => CleanInv'
  BY CleanNext
<1> DEFINE Saved == \A s \in Shots : result[s] # "Success" /\ result'[s] = "Success" =>
                        \/ s \in overlapped \cup strayed \/ StopHalfDone
                        \/ played = Targets /\ \A e \in Events : evts[e] = "played"
<1>6. ReportInv /\ ShotInv /\ CleanInv /\ [Next]_vars => [Saved]_vars
  <2>1. SUFFICES ASSUME ReportInv, ShotInv, CleanInv, Next,
                        NEW s \in Shots, result[s] # "Success", result'[s] = "Success",
                        s \notin overlapped \cup strayed, ~StopHalfDone
                 PROVE  played = Targets /\ EventsPlayed
    BY DEF EventsPlayed, vars, jobVars
  <2>0. TInv
    BY <2>1 DEF ReportInv
  <2>2. Save
    <3>1. CASE JobStep /\ ~Save
      <4>1. result' = result
        BY <3>1 DEF JobStep, Prepare, RefuseAbstract, WaitReady, ReadyWoken, ReadyTimeout,
           ReadyQueried, SetReady, MakeTrigger, SendReady, CancelJob, Complete, CompleteCheck,
           CompleteSleep, CompleteWoken, SendComplete, CancelLate, Finish, EndJob, notPc,
           notEngine, notLocks, notMt, jobVars
      <4> QED BY <2>1, <4>1
    <3>2. CASE CallStep(Caller)
      BY <2>0, <2>1, <3>2, CalmCall DEF Caller, Calm
    <3>3. CASE PlayStep
      BY <2>0, <2>1, <3>3, CalmPlay DEF Calm
    <3>4. CASE MeasureStep \/ TargetStep \/ HandlerDone \/ UserStop \/ ServerCall
      BY <2>0, <2>1, <3>4, CalmOthers DEF Calm
    <3>5. CASE StartJob \/ \E th \in Threads \ {"measure"} : Stop(th)
      BY <2>0, <2>1, <3>5, StopSteps DEF StartJob, jobVars
    <3> QED BY <2>1, <3>1, <3>2, <3>3, <3>4, <3>5 DEF Next
  <2>3. s = shot /\ pc["job"] = "save" /\ errs = {} /\ ~cancelled
    BY <2>0, <2>1, <2>2 DEF Save, ShotStatus, Move, At, TInv, JobType
  <2>4. Clean
    <3>1. "save" \in InJob
      BY DEF InJob, ReportLabels, Labels, JobLabels
    <3>2. ~BeingStopped
      BY <2>1, <2>3 DEF StopHalfDone, BeingStopped, Halting, HalfDone
    <3> QED BY <2>1, <2>3, <3>1, <3>2 DEF Next, Clean, Alone, Failed
  <2>5. state \notin PlayStates
    BY <2>1, <2>3 DEF ShotInv, NoPlayOutside, OutLabels, ReportLabels
  <2> QED BY <2>1, <2>4, <2>5 DEF CleanInv, Good, Over
<1>7. Spec => []ReportInv
  BY ReportInvInit, ReportInvNext, PTL DEF Spec
<1> QED BY <1>1, <1>2, <1>3, <1>4, <1>5, <1>6, <1>7, PTL DEF Spec, SuccessMeansPlayed

=============================================================================
