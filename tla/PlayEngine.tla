----------------------------- MODULE PlayEngine -----------------------------
(***************************************************************************)
(* The play path of one LocalEventEngine: the job thread that runs         *)
(* play(job), the thread that runs playShot, the measurement thread, the   *)
(* thread that delivers the owned devices' messages, the server that calls *)
(* play and trigger on an engine which does not own its job, and a user    *)
(* who calls stop.  They share the engine's state machine, playMutex with  *)
(* playCondition, triggerMutex with triggerCondition, and flags that       *)
(* stop() writes without any lock.                                         *)
(*                                                                         *)
(* A step is what a thread does between two points where another thread    *)
(* can be seen to act: taking or releasing a lock, testing the state       *)
(* machine, waiting, notifying.  A condition variable is the set of        *)
(* threads asleep on it; notify_all empties it.                            *)
(***************************************************************************)
EXTENDS Naturals, FiniteSets, EngineStates, MasterTrigger

CONSTANTS Targets,      \* ownedTargets: the devices this engine plays through
          Self,         \* localDeviceID
          Owner,        \* isJobOwner: this device owns the play jobs
          NShots,       \* play jobs handed to the engine, one after the other
          NEvents,      \* synchedEvents.size()
          MaxStops,     \* calls of stop() by the user
          Faults        \* devices may fail: load, play, measurement, contact

ASSUME TargetsAssumption == IsFiniteSet(Targets) /\ Self \notin Targets
ASSUME BoundsAssumption  == NShots \in Nat /\ NEvents \in Nat /\ MaxStops \in Nat
ASSUME FlagsAssumption   == Owner \in BOOLEAN /\ Faults \in BOOLEAN

Shots  == 1 .. NShots
Events == 1 .. NEvents
Ids    == Targets \cup {Self}

\* The thread that runs play(jobID, triggerCB): the job thread of the job's
\* owner calls it itself, otherwise the server does through the PlayReady reference.
Caller == IF Owner THEN "job" ELSE "server"

Threads == {"job", "play", "measure", "server", "handler", "user"}

VARIABLES
    state,          \* stateMachine
    cancelled,      \* the cancelled flag
    activePlayJob,  \* activePlayJob
    activeShot,     \* activePlayJobID.sid, 0 before the first job
    errs,           \* which errors playReadyMessages and localPlayMessages hold
    playReady,      \* playReadyOwnedTargets
    played,         \* the keys of playedOwnedTargets
    mt,             \* masterTrigger
    evts,           \* the played and stopped flags of synchedEvents
    playMutex,      \* the thread inside playMutex, or "none"
    triggerMutex,   \* the thread inside triggerMutex, or "none"
    playWaiters,    \* threads asleep on playCondition
    trigWaiters,    \* threads asleep on triggerCondition
    missed,         \* history: threads notified between their test and their sleep
    pc,             \* where each thread is
    snap,           \* the local variable "state" of each thread's stop()
    ret,            \* where each thread's stop() returns to
    playThread,     \* the shot playThread was started for, 0 when not joinable
    playedOk,       \* playDeviceEvents and waitForPlayAll have succeeded so far
    ei,             \* next event of the play loop
    mi,             \* next event of the measurement loop
    stops,          \* calls of stop() the user has made
    strayed,        \* history: shots whose events a stop() of an earlier shot has stopped
    tgt,            \* the owned devices: job and progress of each
    inbox,          \* messages of the owned devices on their way
    invited,        \* the server holds a PlayReady reference it has not used
    shot,           \* the job thread's job
    result,         \* shotResult->status, by shot
    jobEnd,         \* what the manager reports to the scheduler, by shot
    overlapped      \* history: shots begun while an earlier playShot still ran

engineVars == <<state, cancelled, errs>>
targetVars == <<playReady, played, tgt, inbox, invited>>
lockVars   == <<playMutex, triggerMutex, playWaiters, trigWaiters, missed>>
stopVars   == <<snap, ret, stops, strayed>>
loopVars   == <<playThread, playedOk, ei, mi>>
jobVars    == <<shot, activePlayJob, activeShot, result, jobEnd, overlapped>>
vars == <<engineVars, targetVars, lockVars, stopVars, loopVars, jobVars, mt, evts, pc>>

\* What the usual steps leave alone: a move, a step on the flags, on the locks, on mt.
notPc     == <<engineVars, targetVars, lockVars, stopVars, loopVars, jobVars, mt, evts>>
notEngine == <<targetVars, lockVars, stopVars, loopVars, jobVars, mt, evts>>
notLocks  == <<engineVars, targetVars, stopVars, loopVars, jobVars, mt, evts>>
notMt     == <<engineVars, targetVars, lockVars, stopVars, loopVars, jobVars, evts>>

-----------------------------------------------------------------------------
JobLabels == {"idle", "prepare", "waitReady", "readyBlocked", "readyQuery", "setReady",
              "makeTrigger", "sendReady", "cancelJob", "complete", "completeCheck",
              "completeSleep", "completeBlocked", "save", "sendComplete", "cancelLate",
              "finish", "end"}
CallLabels == {"clearMessages", "checkReady", "load", "loadFailed", "loaded", "callCancel",
               "playAll", "armOwned", "armOwnedWait", "armStopped", "armLate", "armedOwned",
               "spawn", "join", "armLocal", "armLocalWait", "requestTrigger",
               "trigger", "notifyTrigger"}
PlayLabels == {"arm", "armError", "armStop", "ready", "trigLock", "trigCheck",
               "trigSleep", "trigBlocked", "fired", "playLock", "nextEvent", "sleep", "fire",
               "eventsDone", "joinMeasure", "allLock", "allCheck", "allBlocked",
               "allQuery", "graceBlocked", "after", "final", "notify", "crashed"}
StopLabels == {"stopRead", "stopSet", "stopCancel", "stopTrigger", "stopRelease", "stopEvents"}
Labels == JobLabels \cup CallLabels \cup PlayLabels \cup StopLabels
          \cup {"collect", "handlerDone", "serverTrigger"}

Messages == [type : {"PlayReady", "PlayComplete"}, shot : Shots, from : Targets,
             ok : BOOLEAN]
TargetPhases == {"idle", "asked", "ready", "called", "armed", "playing"}

EngineType == /\ state \in EngineState
              /\ cancelled \in BOOLEAN
              /\ errs \in SUBSET {"Ready", "Play", "Canceled"}
TargetType == /\ playReady \in [Targets -> {"None", "PlayReady", "Error"}]
              /\ played \in SUBSET Targets
              /\ tgt \in [Targets -> [shot : Shots \cup {0}, phase : TargetPhases]]
              /\ inbox \in SUBSET Messages
              /\ invited \in BOOLEAN
LockType   == /\ playMutex \in Threads \cup {"none"} /\ triggerMutex \in Threads \cup {"none"}
              /\ playWaiters \in SUBSET Threads /\ trigWaiters \in SUBSET Threads
              /\ missed \in SUBSET Threads
StopType   == /\ snap \in [Threads -> EngineState]
              /\ ret \in [Threads -> Labels]
              /\ stops \in Nat /\ strayed \in SUBSET (Shots \cup {0})
LoopType   == /\ playThread \in Shots \cup {0}
              /\ playedOk \in BOOLEAN
              /\ ei \in Nat /\ mi \in Nat
JobType    == /\ shot \in Shots \cup {0}
              /\ activePlayJob \in BOOLEAN /\ activeShot \in Shots \cup {0}
              /\ result \in [Shots -> {"None", "Success", "CompletedWithErrors",
                                       "CanceledByUser", "AbortedByError"}]
              /\ jobEnd \in [Shots -> {"None", "Completed", "Canceled"}]
              /\ overlapped \in SUBSET Shots
EventsType == evts \in [Events -> {"loaded", "played", "stopped"}]
PcType     == pc \in [Threads -> Labels]

TypeOK ==
    /\ EngineType /\ TargetType /\ LockType /\ StopType /\ LoopType /\ JobType
    /\ mt \in MasterTriggerType(Ids, Shots)
    /\ EventsType /\ PcType

\* The engine has just parsed the shot (its owned devices too) and is idle.
Init ==
    /\ state = "Parsed" /\ cancelled = FALSE
    /\ activePlayJob = FALSE /\ activeShot = 0 /\ errs = {}
    /\ playReady = [t \in Targets |-> "None"] /\ played = {}
    /\ mt = NullTrigger(Ids)
    /\ evts = [e \in Events |-> "loaded"]
    /\ playMutex = "none" /\ triggerMutex = "none"
    /\ playWaiters = {} /\ trigWaiters = {} /\ missed = {}
    /\ pc = [th \in Threads |-> "idle"]
    /\ snap = [th \in Threads |-> "Parsed"]
    /\ ret = [th \in Threads |-> "idle"]
    /\ playThread = 0 /\ playedOk = FALSE /\ ei = 1 /\ mi = 1 /\ stops = 0 /\ strayed = {}
    /\ tgt = [t \in Targets |-> [shot |-> 0, phase |-> "idle"]]
    /\ inbox = {} /\ invited = FALSE
    /\ shot = 0
    /\ result = [s \in Shots |-> "None"] /\ jobEnd = [s \in Shots |-> "None"]
    /\ overlapped = {}

-----------------------------------------------------------------------------
(* Helpers. *)

At(th, label) == pc[th] = label
Goto(th, label) == pc' = [pc EXCEPT ![th] = label]
Move(th, from, to) == At(th, from) /\ Goto(th, to)

\* A thread has used the trigger of a play job that is over: undefined behaviour, of
\* which one outcome is modelled as the end of the process.
Running == \A th \in Threads : ~At(th, "crashed")

Free(mutex) == mutex = "none"

\* playMutex with playCondition, triggerMutex with triggerCondition.
LockPlay(th) == /\ Free(playMutex) /\ playMutex' = th
                /\ UNCHANGED <<triggerMutex, playWaiters, trigWaiters, missed>>
UnlockPlay   == /\ playMutex' = "none"
                /\ UNCHANGED <<triggerMutex, playWaiters, trigWaiters, missed>>
WaitPlay(th) == /\ playMutex' = "none" /\ playWaiters' = playWaiters \cup {th}
                /\ UNCHANGED <<triggerMutex, trigWaiters, missed>>
PlayTimeout(th) == /\ th \in playWaiters /\ playWaiters' = playWaiters \ {th}
                   /\ UNCHANGED <<playMutex, triggerMutex, trigWaiters, missed>>

\* A thread that holds its mutex between its test and its sleep is not woken by a
\* notify_all that takes no lock.
MissedBy(th, label) == IF At(th, label) THEN missed \cup {th} ELSE missed

NotifyPlay   == /\ playWaiters' = {} /\ missed' = MissedBy("job", "completeSleep")
                /\ UNCHANGED <<playMutex, triggerMutex, trigWaiters>>
LockTrigger(th) == /\ Free(triggerMutex) /\ triggerMutex' = th
                   /\ UNCHANGED <<playMutex, playWaiters, trigWaiters, missed>>
UnlockTrigger   == /\ triggerMutex' = "none"
                   /\ UNCHANGED <<playMutex, playWaiters, trigWaiters, missed>>
WaitTrigger(th) == /\ triggerMutex' = "none" /\ trigWaiters' = trigWaiters \cup {th}
                   /\ UNCHANGED <<playMutex, playWaiters, missed>>

\* localPlayMsgCounter.errorCount > 0
HasPlayErrors == errs \cap {"Play", "Canceled"} # {}
AddErrorIf(cond, kind) == errs' = IF cond THEN errs \cup {kind} ELSE errs

StopCall(th, from, back) ==
    /\ Move(th, from, "stopRead")
    /\ ret' = [ret EXCEPT ![th] = back]
    /\ UNCHANGED <<snap, stops, strayed>>

\* The events after stop() on each of them: one that has played stays played.
StoppedEvents == [e \in Events |-> IF evts[e] = "played" THEN "played" ELSE "stopped"]

AllReported  == \A t \in Targets : playReady[t] # "None"
AllPlayReady == \A t \in Targets : playReady[t] = "PlayReady"
AllPlayed    == played = Targets

-----------------------------------------------------------------------------
(* stop(): the state is read once; the branch it selects runs later, against  *)
(* whatever the state, or the shot, has become.  None of it holds playMutex,  *)
(* except when the message handler calls it.                                  *)

\* recordPlayCanceledMessage adds its error once, and only to a clean active job.
StopRead(th) ==
    /\ Move(th, "stopRead", "stopSet")
    /\ snap' = [snap EXCEPT ![th] = state]
    /\ AddErrorIf(state \in PlayStates /\ activePlayJob /\ errs = {}, "Canceled")
    /\ mt' = StopWait(mt)
    /\ UNCHANGED <<state, cancelled, targetVars, lockVars, ret, stops, strayed, loopVars,
                   jobVars, evts>>

\* The cases of stop() that abort a play.  Mutant: one of them is forgotten.
AbortsButTrigger(th) == snap[th] \in {"PreparingPlay", "PlayReady", "Playing", "Error"}
Aborts(th)           == snap[th] \in PlayStates \cup {"Error"}
\* Those that release waitForTrigger, and those that stop the events.
ReleasesTrigger(th)  == snap[th] \in {"WaitingForTrigger", "Error"}
StopsEvents(th)      == snap[th] \in {"Playing", "Error"}

\* stop() returns, and its local variable is gone.
StopReturn(th, from) ==
    /\ Move(th, from, ret[th])
    /\ snap' = [snap EXCEPT ![th] = "Parsed"]

StopSet(th) ==
    /\ IF Aborts(th) THEN Move(th, "stopSet", "stopCancel") /\ UNCHANGED snap
                     ELSE StopReturn(th, "stopSet")
    /\ state' = IF snap[th] \in PlayStates THEN SetStateOr(state, "Parsed", "Error")
                                           ELSE state
    /\ UNCHANGED <<cancelled, errs, targetVars, lockVars, ret, stops, strayed, loopVars,
                   jobVars, mt, evts>>

StopCancel(th) ==
    /\ Move(th, "stopCancel", IF ReleasesTrigger(th) THEN "stopTrigger" ELSE "stopRelease")
    /\ cancelled' = TRUE
    /\ UNCHANGED <<state, errs, notEngine>>

\* releaseTriggerLock, without triggerMutex.
StopTrigger(th) ==
    /\ Move(th, "stopTrigger", "stopRelease")
    /\ trigWaiters' = {} /\ missed' = MissedBy("play", "trigSleep")
    /\ UNCHANGED <<playMutex, triggerMutex, playWaiters, notLocks>>

\* releasePlayLock, without playMutex.
StopRelease(th) ==
    /\ IF StopsEvents(th) THEN Move(th, "stopRelease", "stopEvents") /\ UNCHANGED snap
                          ELSE StopReturn(th, "stopRelease")
    /\ NotifyPlay
    /\ UNCHANGED <<engineVars, targetVars, ret, stops, strayed, loopVars, jobVars, mt, evts>>

\* stopDeviceEvents, which asks for nothing: the job that this stop() has cancelled may be
\* over, and the events those of the next, for which prepare() has reset cancelled.
StopEvents(th) ==
    /\ StopReturn(th, "stopEvents")
    /\ evts' = StoppedEvents
    /\ strayed' = IF cancelled \/ evts' = evts THEN strayed ELSE strayed \cup {shot}
    /\ UNCHANGED <<engineVars, targetVars, lockVars, ret, stops, loopVars, jobVars, mt>>

Stop(th) == StopRead(th) \/ StopSet(th) \/ StopCancel(th) \/ StopTrigger(th)
            \/ StopRelease(th) \/ StopEvents(th)

\* abortJob, stopEngine, stopAll: a user's stop may come at any moment.
UserStop ==
    /\ stops < MaxStops
    /\ stops' = stops + 1
    /\ Move("user", "idle", "stopRead")
    /\ ret' = [ret EXCEPT !["user"] = "idle"]
    /\ UNCHANGED <<snap, strayed, engineVars, targetVars, lockVars, loopVars, jobVars, mt, evts>>

-----------------------------------------------------------------------------
(* play(job): the job thread. *)

\* The scheduler hands over a play job only to an idle engine that is Parsed.  A server
\* begins its next shot, and schedules this job, only when it is done with the last one.
StartJob ==
    /\ shot < NShots /\ state = "Parsed" /\ At("server", "idle")
    /\ shot' = shot + 1
    /\ invited' = FALSE
    /\ Move("job", "idle", "prepare")
    /\ UNCHANGED <<activePlayJob, activeShot, result, jobEnd, overlapped, engineVars,
                   playReady, played, tgt, inbox, lockVars, stopVars, loopVars, mt, evts>>

\* validateOwnedTargetsReadyForPlay (valid), then the block under playMutex up to
\* the wait; scheduleAllPlayJobs reaches the devices in contacted.
Prepare ==
    \E valid \in BOOLEAN, contacted \in SUBSET Targets :
        LET refused == ~valid \/ state # "Parsed"
            asked(t) == ~refused /\ t \in contacted IN
        /\ Move("job", "prepare", "waitReady")
        /\ valid \/ (Faults /\ Targets # {})
        /\ contacted = Targets \/ Faults
        /\ LockPlay("job")
        /\ cancelled' = refused
        /\ errs' = IF refused \/ contacted # Targets THEN {"Ready"} ELSE {}
        /\ mt' = NullTrigger(Ids)
        /\ state' = IF refused THEN state ELSE SetState(state, "PreparingPlay")
        /\ activeShot' = shot /\ activePlayJob' = TRUE
        /\ played' = {}
        /\ playReady' = [t \in Targets |-> IF refused \/ asked(t) THEN "None" ELSE "Error"]
        /\ tgt' = [t \in Targets |-> IF asked(t) THEN [shot |-> shot, phase |-> "asked"]
                                                 ELSE tgt[t]]
        /\ overlapped' = IF pc["play"] \in {"idle", "notify"} THEN overlapped
                                                              ELSE overlapped \cup {shot}
        /\ UNCHANGED <<inbox, invited, stopVars, loopVars, shot, result, jobEnd, evts>>

\* The parsed shot is abstract: the engine goes to Error and nobody upstream hears of it.
RefuseAbstract ==
    /\ Move("job", "prepare", "end")
    /\ Free(playMutex)
    /\ cancelled' = TRUE /\ errs' = {"Ready"}
    /\ mt' = NullTrigger(Ids)
    /\ state' = SetState(state, "Error")
    /\ UNCHANGED <<targetVars, lockVars, stopVars, loopVars, jobVars, evts>>

\* waitForOwnedTargetsPlayReady: the loop's test, holding playMutex.
ReadyWaitNeeded == ~cancelled /\ state = "PreparingPlay" /\ ~AllReported

WaitReady ==
    /\ IF ReadyWaitNeeded
       THEN Move("job", "waitReady", "readyBlocked") /\ WaitPlay("job")
       ELSE Move("job", "waitReady", "setReady") /\ UNCHANGED lockVars
    /\ UNCHANGED notLocks

ReadyWoken ==
    /\ Move("job", "readyBlocked", "waitReady")
    /\ "job" \notin playWaiters /\ LockPlay("job")
    /\ UNCHANGED notLocks

\* The deadline passes: the devices that are late are queried without the lock.
ReadyTimeout ==
    /\ Move("job", "readyBlocked", "readyQuery")
    /\ PlayTimeout("job")
    /\ UNCHANGED notLocks

\* Everything is tested again once the lock is back: an answer may have arrived.
\* Mutant: if none has, the wait begins again.
ReadyQueriedAgain ==
    /\ Move("job", "readyQuery", IF ReadyWaitNeeded THEN "waitReady" ELSE "setReady")
    /\ LockPlay("job")
    /\ UNCHANGED notLocks

ReadyQueried ==
    /\ Move("job", "readyQuery", "setReady")
    /\ LockPlay("job")
    /\ cancelled' = (cancelled \/ ReadyWaitNeeded)
    /\ AddErrorIf(ReadyWaitNeeded, "Ready")
    /\ UNCHANGED <<state, targetVars, stopVars, loopVars, jobVars, mt, evts>>

\* Owned devices not PlayReady, then setState(PlayReady).
SetReady ==
    LET ok == ~cancelled /\ AllPlayReady /\ SetStateOk(state, "PlayReady") IN
    /\ Move("job", "setReady", "makeTrigger")
    /\ cancelled' = ~ok
    /\ AddErrorIf(~ok /\ ~cancelled, "Ready")
    /\ state' = IF ok THEN "PlayReady"
                ELSE IF ~cancelled /\ AllPlayReady THEN SetState(state, "Error")
                ELSE state
    /\ UNCHANGED notEngine

MakeTrigger ==
    /\ Move("job", "makeTrigger", "sendReady")
    /\ mt' = IF cancelled THEN mt ELSE NewArmed(Ids, shot, Targets)
    /\ UNCHANGED notMt

\* The last test before the PlayReady message; the lock is released with it sent.
SendReady ==
    LET aborted == ~cancelled /\ state # "PlayReady" IN
    /\ AddErrorIf(aborted, "Ready")
    /\ Move("job", "sendReady", IF "Ready" \in errs' THEN "cancelJob"
                                ELSE IF Owner /\ mt.shot = shot THEN "clearMessages"
                                ELSE "complete")
    /\ cancelled' = (cancelled \/ aborted)
    /\ UnlockPlay
    /\ invited' = (~Owner /\ state = "PlayReady" /\ "Ready" \notin errs')
    /\ UNCHANGED <<state, playReady, played, tgt, inbox, stopVars, loopVars, jobVars, mt, evts>>

\* cancelPlayJob() and stop() of a job that failed before PlayReady.
CancelJob ==
    /\ StopCall("job", "cancelJob", "complete")
    /\ Free(playMutex) /\ cancelled' = TRUE
    /\ UNCHANGED <<state, errs, targetVars, lockVars, loopVars, jobVars, mt, evts>>

\* waitForPlayComplete: lock, test, sleep, until the engine has left the play states.
Complete ==
    /\ Move("job", "complete", "completeCheck")
    /\ LockPlay("job")
    /\ UNCHANGED notLocks

\* Mutant: a state forgotten in the list that keeps the job waiting.
PlayNotOverButPlaying == state \in PlayStates \ {"Playing"}

PlayNotOver == state \in PlayStates

CompleteCheck ==
    /\ IF PlayNotOver
       THEN Move("job", "completeCheck", "completeSleep") /\ UNCHANGED lockVars
       ELSE Move("job", "completeCheck", "save") /\ UnlockPlay
    /\ UNCHANGED notLocks

CompleteSleep ==
    /\ Move("job", "completeSleep", "completeBlocked")
    /\ WaitPlay("job")
    /\ UNCHANGED notLocks

CompleteWoken ==
    /\ Move("job", "completeBlocked", "completeCheck")
    /\ "job" \notin playWaiters /\ LockPlay("job")
    /\ UNCHANGED notLocks

\* Mutant: of a cancelled job only the errors are looked for.
ShotStatusNoCancel == IF errs \cap {"Ready", "Play"} # {} THEN "CompletedWithErrors"
                                                         ELSE "Success"

\* shotStatusFromMessages
ShotStatus == IF "Canceled" \in errs THEN "CanceledByUser"
              ELSE IF cancelled THEN "AbortedByError"
              ELSE IF errs # {} THEN "CompletedWithErrors"
              ELSE "Success"

\* isPlayCancelled() takes playMutex.
Save ==
    /\ Move("job", "save", "sendComplete")
    /\ Free(playMutex)
    /\ result' = [result EXCEPT ![shot] = ShotStatus]
    /\ UNCHANGED <<shot, activePlayJob, activeShot, jobEnd, overlapped, engineVars, targetVars,
                   lockVars, stopVars, loopVars, mt, evts>>

\* PlayComplete is sent; a job that did not end in Parsed is cancelled.
SendComplete ==
    /\ Move("job", "sendComplete", IF state = "Parsed" THEN "finish" ELSE "cancelLate")
    /\ UNCHANGED notPc

CancelLate ==
    /\ Move("job", "cancelLate", "finish")
    /\ Free(playMutex) /\ cancelled' = TRUE
    /\ UNCHANGED <<state, errs, notEngine>>

Finish ==
    /\ Move("job", "finish", "end")
    /\ Free(playMutex) /\ activePlayJob' = FALSE
    /\ UNCHANGED <<shot, activeShot, result, jobEnd, overlapped, engineVars, targetVars,
                   lockVars, stopVars, loopVars, mt, evts>>

\* runJob: jobCancelled() decides what the scheduler is told; running is cleared.
EndJob ==
    /\ Move("job", "end", "idle")
    /\ jobEnd' = [jobEnd EXCEPT ![shot] = IF cancelled THEN "Canceled" ELSE "Completed"]
    /\ UNCHANGED <<shot, activePlayJob, activeShot, result, overlapped, engineVars, targetVars,
                   lockVars, stopVars, loopVars, mt, evts>>

-----------------------------------------------------------------------------
(* play(jobID, triggerCB, debug): called by the job thread of the owner, or by *)
(* the server.  When it returns, the owner's job thread waits for completion.  *)

CallOver == IF Owner THEN "complete" ELSE "idle"

\* The server uses the reference it got with PlayReady whenever it comes to it.
ServerCall ==
    /\ Move("server", "idle", "clearMessages")
    /\ invited /\ invited' = FALSE
    /\ UNCHANGED <<engineVars, playReady, played, tgt, inbox, lockVars, stopVars,
                   loopVars, jobVars, mt, evts>>

\* localPlayMessages is cleared, without a lock, before the state is tested.
ClearMessages(c) ==
    /\ Move(c, "clearMessages", "checkReady")
    /\ errs' = errs \cap {"Ready"}
    /\ UNCHANGED <<state, cancelled, notEngine>>

CheckReady(c) ==
    /\ Move(c, "checkReady", IF state = "PlayReady" THEN "load" ELSE "callCancel")
    /\ AddErrorIf(state # "PlayReady", "Play")
    /\ UNCHANGED <<state, cancelled, notEngine>>

\* reset() and load() of every event; an event may fail to load.
Load(c) ==
    \E failed \in BOOLEAN :
        /\ Move(c, "load", IF failed THEN "loadFailed" ELSE "loaded")
        /\ failed => Faults /\ NEvents > 0
        /\ evts' = [e \in Events |-> "loaded"]
        /\ AddErrorIf(failed, "Play")
        /\ state' = IF failed THEN SetState(state, "Error") ELSE state
        /\ UNCHANGED <<cancelled, targetVars, lockVars, stopVars, loopVars, jobVars, mt>>

LoadFailed(c) ==
    /\ Move(c, "loadFailed", "loaded")
    /\ Free(playMutex) /\ cancelled' = TRUE
    /\ NotifyPlay
    /\ UNCHANGED <<state, errs, targetVars, stopVars, loopVars, jobVars, mt, evts>>

\* Any error so far, a stop request's included, ends the call here.
Loaded(c) ==
    /\ Move(c, "loaded", IF HasPlayErrors THEN "callCancel" ELSE "playAll")
    /\ UNCHANGED notPc

\* cancelPlayJob() and stop(), the way out of a call that failed.
CallCancel(c) ==
    /\ StopCall(c, "callCancel", CallOver)
    /\ Free(playMutex) /\ cancelled' = TRUE
    /\ UNCHANGED <<state, errs, targetVars, lockVars, loopVars, jobVars, mt, evts>>

\* playAll: every owned engine that is PlayReady starts to arm.
PlayAll(c) ==
    /\ Move(c, "playAll", "armOwned")
    /\ tgt' = [t \in Targets |-> IF mt.shot # 0 /\ tgt[t].phase = "ready"
                                 THEN [tgt[t] EXCEPT !.phase = "called"] ELSE tgt[t]]
    /\ UNCHANGED <<playReady, played, inbox, invited, engineVars, lockVars, stopVars,
                   loopVars, jobVars, mt, evts>>

\* waitForArmFor, on entry: running is set whatever a stop() has just cleared.  A null
\* masterTrigger is not waited for.
ArmWaitEnter(c, from, wait, skip) ==
    /\ Move(c, from, IF mt.shot = 0 THEN skip ELSE wait)
    /\ mt' = IF mt.shot = 0 THEN mt ELSE EnterWait(mt)
    /\ UNCHANGED notMt

\* The wait is over: all armed, stopped, or (the predicate still false) timed out.
ArmWaitDone(c, wait, done) ==
    /\ Move(c, wait, IF mt.shot = 0 THEN "crashed"
                     ELSE IF ~ArmWaitOver(Ids, mt) THEN "armLate"
                     ELSE IF mt.running THEN done ELSE "armStopped")
    /\ UNCHANGED notPc

ArmOwned(c)     == ArmWaitEnter(c, "armOwned", "armOwnedWait", "armedOwned")
ArmOwnedWait(c) == ArmWaitDone(c, "armOwnedWait", "armedOwned")
ArmLocal(c)     == ArmWaitEnter(c, "armLocal", "armLocalWait", "requestTrigger")
ArmLocalWait(c) == ArmWaitDone(c, "armLocalWait", "requestTrigger")

\* waitForTriggerArm after a stopped wait: silent once the abort has taken effect.
ArmStopped(c) ==
    /\ Move(c, "armStopped", IF cancelled \/ state # "PlayReady" THEN CallOver ELSE "armLate")
    /\ Free(playMutex)
    /\ UNCHANGED notPc

\* The timeout error, then cancelPlayJob() and stop().
ArmLate(c) ==
    /\ Move(c, "armLate", "callCancel")
    /\ Free(playMutex)
    /\ AddErrorIf(TRUE, "Play")
    /\ UNCHANGED <<state, cancelled, notEngine>>

\* isPlayCancelled() || !isState(PlayReady), then arm(localDeviceID).
ArmedOwned(c) ==
    LET aborted == cancelled \/ state # "PlayReady" IN
    /\ Move(c, "armedOwned", IF aborted THEN CallOver
                             ELSE IF mt.shot = 0 THEN "crashed" ELSE "spawn")
    /\ Free(playMutex)
    /\ mt' = IF aborted \/ mt.shot = 0 THEN mt ELSE ArmId(mt, Self)
    /\ UNCHANGED notMt

\* resetPlayThread: an earlier play thread in a play state is stopped, then joined.
Spawn(c) ==
    /\ IF playThread # 0 /\ state \in {"Playing", "WaitingForTrigger"}
       THEN StopCall(c, "spawn", "join")
       ELSE Move(c, "spawn", "join") /\ UNCHANGED stopVars
    /\ UNCHANGED <<engineVars, targetVars, lockVars, loopVars, jobVars, mt, evts>>

\* The join returns; the new play thread starts in playShot.
Join(c) ==
    /\ At(c, "join") /\ At("play", "idle")
    /\ pc' = [pc EXCEPT ![c] = IF Owner THEN "armLocal" ELSE "serverTrigger",
                        !["play"] = "arm"]
    /\ playThread' = shot
    /\ UNCHANGED <<playedOk, ei, mi, engineVars, targetVars, lockVars, stopVars, jobVars, mt, evts>>

\* requestTrigger returns: the hardware trigger came, or it was cancelled.
RequestTrigger(c) ==
    /\ Move(c, "requestTrigger", "trigger")
    /\ UNCHANGED notPc

\* The server triggers the engine once it has called ready(), or gives up on the shot.
ServerTrigger(c) ==
    /\ \/ Move(c, "serverTrigger", "trigger") /\ mt.status[Self] = "Waiting"
       \/ Move(c, "serverTrigger", CallOver)
    /\ UNCHANGED notPc

\* trigger(): an engine that has left WaitingForTrigger is driven into Error.
Trigger(c) ==
    /\ Move(c, "trigger", IF state = "Playing" THEN CallOver ELSE "notifyTrigger")
    /\ state' = SetStateOr(state, "Playing", "Error")
    /\ UNCHANGED <<cancelled, errs, notEngine>>

\* notify under triggerMutex, then triggerOwnedDevices.
NotifyTrigger(c) ==
    /\ Move(c, "notifyTrigger", CallOver)
    /\ Free(triggerMutex) /\ trigWaiters' = {}
    /\ tgt' = [t \in Targets |-> IF tgt[t].phase = "armed"
                                 THEN [tgt[t] EXCEPT !.phase = "playing"] ELSE tgt[t]]
    /\ UNCHANGED <<playMutex, triggerMutex, playWaiters, missed, playReady, played, inbox, invited,
                   engineVars, stopVars, loopVars, jobVars, mt, evts>>

-----------------------------------------------------------------------------
(* playShot: the play thread. *)

\* The trigger objects are those of another job: what playShot holds has been freed.
StaleTrigger == mt.shot # playThread

\* armTrigger
Arm ==
    LET ok == SetStateOk(state, "WaitingForTrigger") IN
    /\ Move("play", "arm", IF ok THEN "ready" ELSE "armError")
    /\ state' = SetState(state, "WaitingForTrigger")
    /\ AddErrorIf(~ok, "Play")
    /\ UNCHANGED <<cancelled, notEngine>>

ArmError ==
    /\ StopCall("play", "armError", "armStop")
    /\ Free(playMutex) /\ cancelled' = TRUE
    /\ UNCHANGED <<state, errs, targetVars, lockVars, loopVars, jobVars, mt, evts>>

\* masterTrigger->stop() and return.
ArmStop ==
    /\ Move("play", "armStop", IF mt.shot = 0 THEN "crashed" ELSE "idle")
    /\ mt' = StopWait(mt)
    /\ UNCHANGED notMt

\* ready() on the caller's callback and on the local master trigger.
Ready ==
    /\ \/ Move("play", "ready", "trigLock") /\ mt.shot # 0 /\ mt' = ReadyId(mt, Self)
       \/ Move("play", "ready", "crashed") /\ StaleTrigger /\ UNCHANGED mt
    /\ UNCHANGED notMt

\* waitForTrigger: lock, test, sleep on triggerCondition.
TrigLock ==
    /\ Move("play", "trigLock", "trigCheck")
    /\ LockTrigger("play")
    /\ UNCHANGED notLocks

TrigCheck ==
    /\ IF state = "WaitingForTrigger"
       THEN Move("play", "trigCheck", "trigSleep") /\ UNCHANGED lockVars
       ELSE Move("play", "trigCheck", "fired") /\ UnlockTrigger
    /\ UNCHANGED notLocks

TrigSleep ==
    /\ Move("play", "trigSleep", "trigBlocked")
    /\ WaitTrigger("play")
    /\ UNCHANGED notLocks

TrigWoken ==
    /\ Move("play", "trigBlocked", "trigCheck")
    /\ "play" \notin trigWaiters /\ LockTrigger("play")
    /\ UNCHANGED notLocks

\* triggerFired() on the caller's callback: the owner's is its own master trigger.
Fired ==
    /\ \/ /\ Move("play", "fired", "playLock")
          /\ mt' = IF Owner /\ ~StaleTrigger THEN FiredId(mt, Self) ELSE mt
       \/ Move("play", "fired", "crashed") /\ Owner /\ StaleTrigger /\ UNCHANGED mt
    /\ UNCHANGED notMt

\* playDeviceEvents: whatever ended the wait, the thread goes on to here.
PlayLock ==
    LET ok == SetStateOk(state, "Playing") IN
    /\ At("play", "playLock") /\ At("measure", "idle")
    /\ IF ok THEN LockPlay("play") ELSE Free(playMutex) /\ UNCHANGED lockVars
    /\ pc' = IF ok THEN [pc EXCEPT !["play"] = "nextEvent", !["measure"] = "collect"]
                   ELSE [pc EXCEPT !["play"] = "allLock"]
    /\ state' = SetStateOr(state, "Playing", "Error")
    /\ AddErrorIf(~ok, "Play")
    /\ cancelled' = (cancelled \/ ~ok)
    /\ playedOk' = ok
    /\ ei' = 1 /\ mi' = 1
    /\ UNCHANGED <<playThread, targetVars, stopVars, jobVars, mt, evts>>

\* The loop over synchedEvents, holding playMutex; an event that is not due is waited
\* for with the lock released.
NextEvent ==
    /\ IF ei > NEvents \/ state # "Playing"
       THEN Move("play", "nextEvent", "eventsDone") /\ UNCHANGED lockVars
       ELSE \/ Move("play", "nextEvent", "fire") /\ UNCHANGED lockVars
            \/ Move("play", "nextEvent", "sleep") /\ UnlockPlay
    /\ UNCHANGED notLocks

\* Mutant: waitUntil reports the time, not the state.
SleepBlind ==
    /\ Move("play", "sleep", "fire")
    /\ LockPlay("play")
    /\ UNCHANGED notLocks

\* waitUntil returns: due or woken, it holds the lock and tests the state again.
Sleep ==
    /\ Move("play", "sleep", IF state = "Playing" THEN "fire" ELSE "nextEvent")
    /\ LockPlay("play")
    /\ ei' = IF state = "Playing" THEN ei ELSE ei + 1
    /\ UNCHANGED <<playThread, playedOk, mi, engineVars, targetVars, stopVars, jobVars, mt, evts>>

\* evt->play(): a stopped event is passed over in silence.
Fire ==
    \E failed \in BOOLEAN :
        /\ Move("play", "fire", "nextEvent")
        /\ failed => Faults /\ evts[ei] = "loaded"
        /\ evts' = [evts EXCEPT ![ei] = IF @ = "loaded" THEN "played" ELSE @]
        /\ AddErrorIf(failed, "Play")
        /\ state' = IF failed THEN SetState(state, "Error") ELSE state
        /\ cancelled' = (cancelled \/ failed)
        /\ ei' = ei + 1
        /\ UNCHANGED <<playThread, playedOk, mi, targetVars, lockVars, stopVars, jobVars, mt>>

\* Mutant: the events are left as they are.
EventsDoneNoStop ==
    /\ Move("play", "eventsDone", "joinMeasure")
    /\ UNCHANGED notPc

\* After an early exit the events are stopped so that measureData can drain.
EventsDone ==
    /\ Move("play", "eventsDone", "joinMeasure")
    /\ evts' = IF state = "Playing" THEN evts ELSE StoppedEvents
    /\ UNCHANGED <<engineVars, targetVars, lockVars, stopVars, loopVars, jobVars, mt>>

JoinMeasure ==
    /\ Move("play", "joinMeasure", "allLock")
    /\ At("measure", "idle") /\ UnlockPlay
    /\ UNCHANGED notLocks

\* waitForPlayAll: lock, test, sleep until every owned device has completed.
AllLock ==
    /\ Move("play", "allLock", "allCheck")
    /\ LockPlay("play")
    /\ UNCHANGED notLocks

AllCheck ==
    /\ IF state = "Playing" /\ ~AllPlayed
       THEN Move("play", "allCheck", "allBlocked") /\ WaitPlay("play") /\ UNCHANGED playedOk
       ELSE /\ Move("play", "allCheck", "after") /\ UnlockPlay
            /\ playedOk' = (playedOk /\ AllPlayed)
    /\ UNCHANGED <<playThread, ei, mi, engineVars, targetVars, stopVars, jobVars, mt, evts>>

AllWoken ==
    /\ Move("play", "allBlocked", "allCheck")
    /\ "play" \notin playWaiters /\ LockPlay("play")
    /\ UNCHANGED notLocks

\* The deadline passes: the late devices are queried without the lock.
AllTimeout ==
    /\ Move("play", "allBlocked", "allQuery")
    /\ PlayTimeout("play")
    /\ UNCHANGED notLocks

\* Devices still playing, or done with their message on its way, are given more time,
\* which is bounded; otherwise the recheck decides.
AllGrace ==
    /\ Move("play", "allQuery", "allLock")
    /\ UNCHANGED notPc

AllGiveUp ==
    LET late == ~AllPlayed /\ ~cancelled /\ state = "Playing" IN
    /\ Move("play", "allQuery", "after")
    /\ Free(playMutex)
    /\ AddErrorIf(late, "Play")
    /\ cancelled' = (cancelled \/ late)
    /\ playedOk' = (playedOk /\ AllPlayed)
    /\ UNCHANGED <<state, playThread, ei, mi, targetVars, lockVars, stopVars, jobVars, mt, evts>>

\* A play that failed, or that holds an error, stops the engine.
After ==
    /\ IF ~playedOk \/ HasPlayErrors
       THEN StopCall("play", "after", "final")
       ELSE Move("play", "after", "final") /\ UNCHANGED stopVars
    /\ UNCHANGED <<engineVars, targetVars, lockVars, loopVars, jobVars, mt, evts>>

Final ==
    /\ Move("play", "final", "notify")
    /\ state' = IF state = "Playing" THEN SetStateOr(state, "Parsed", "Error") ELSE state
    /\ UNCHANGED <<cancelled, errs, notEngine>>

\* playCondition.notify_all() without playMutex; the thread ends.
NotifyComplete ==
    /\ Move("play", "notify", "idle")
    /\ NotifyPlay
    /\ UNCHANGED notLocks

-----------------------------------------------------------------------------
(* measureData: the measurement thread, which must not take playMutex. *)

\* collectData sleeps until its event has played or is stopped, then reads it out.
Collect ==
    \E failed \in BOOLEAN :
        /\ mi <= NEvents /\ evts[mi] # "loaded"
        /\ failed => Faults \/ evts[mi] = "stopped"
        /\ AddErrorIf(failed, "Play")
        /\ state' = IF failed THEN SetState(state, "Error") ELSE state
        /\ Move("measure", "collect", IF state' = "Playing" THEN "collect" ELSE "idle")
        /\ mi' = mi + 1
        /\ UNCHANGED <<cancelled, playThread, playedOk, ei, targetVars, lockVars, stopVars,
                       jobVars, mt, evts>>

Collected ==
    /\ Move("measure", "collect", "idle") /\ mi > NEvents
    /\ UNCHANGED notPc

-----------------------------------------------------------------------------
(* The owned devices, seen through the messages and callbacks they send, and  *)
(* the thread that delivers the messages.                                     *)

Send(t, type, ok) ==
    inbox' = inbox \cup {[type |-> type, shot |-> tgt[t].shot, from |-> t, ok |-> ok]}

TargetReady(t) ==
    /\ tgt[t].phase = "asked"
    /\ \E ok \in BOOLEAN :
        /\ ok \/ Faults
        /\ Send(t, "PlayReady", ok)
        /\ tgt' = [tgt EXCEPT ![t].phase = IF ok THEN "ready" ELSE "idle"]
    /\ UNCHANGED <<playReady, played, invited, engineVars, lockVars, stopVars, loopVars,
                   jobVars, mt, evts, pc>>

TargetArm(t) ==
    /\ tgt[t].phase = "called" /\ mt.shot = tgt[t].shot
    /\ mt' = ReadyId(mt, t)
    /\ tgt' = [tgt EXCEPT ![t].phase = "armed"]
    /\ UNCHANGED <<playReady, played, inbox, invited, engineVars, lockVars, stopVars,
                   loopVars, jobVars, evts, pc>>

\* A device completes the shot it plays, or gives up on a shot it was asked for.
TargetComplete(t) ==
    /\ tgt[t].phase # "idle"
    /\ \E ok \in BOOLEAN :
        /\ IF ok THEN tgt[t].phase = "playing" ELSE Faults \/ cancelled
        /\ Send(t, "PlayComplete", ok)
    /\ tgt' = [tgt EXCEPT ![t].phase = "idle"]
    /\ UNCHANGED <<playReady, played, invited, engineVars, lockVars, stopVars, loopVars,
                   jobVars, mt, evts, pc>>

\* Mutant: the job of the message is not compared.
AcceptedAnyJob(m) == ~At("job", "idle") /\ activePlayJob

\* The manager drops a message while it runs no job, the engine one of another job.
Accepted(m) == ~At("job", "idle") /\ activePlayJob /\ m.shot = activeShot

DeliverReady(m) ==
    /\ m.type = "PlayReady" /\ At("handler", "idle") /\ Free(playMutex)
    /\ inbox' = inbox \ {m}
    /\ IF Accepted(m)
       THEN /\ playReady' = [playReady EXCEPT ![m.from] = IF m.ok THEN "PlayReady" ELSE "Error"]
            /\ NotifyPlay
       ELSE UNCHANGED <<playReady, lockVars>>
    /\ UNCHANGED <<played, tgt, invited, engineVars, stopVars, loopVars, jobVars, mt, evts, pc>>

\* A device that reports errors stops this engine, with playMutex held.
DeliverComplete(m) ==
    /\ m.type = "PlayComplete" /\ At("handler", "idle") /\ Free(playMutex)
    /\ inbox' = inbox \ {m}
    /\ played' = IF Accepted(m) THEN played \cup {m.from} ELSE played
    /\ IF Accepted(m) /\ ~m.ok
       THEN LockPlay("handler") /\ StopCall("handler", "idle", "handlerDone")
       ELSE /\ IF Accepted(m) THEN NotifyPlay ELSE UNCHANGED lockVars
            /\ UNCHANGED <<stopVars, pc>>
    /\ UNCHANGED <<playReady, tgt, invited, engineVars, loopVars, jobVars, mt, evts>>

HandlerDone ==
    /\ Move("handler", "handlerDone", "idle")
    /\ playMutex' = "none" /\ playWaiters' = {}
    /\ UNCHANGED <<triggerMutex, trigWaiters, missed, notLocks>>

-----------------------------------------------------------------------------
JobStep ==
    \/ Prepare \/ RefuseAbstract \/ WaitReady \/ ReadyWoken \/ ReadyTimeout \/ ReadyQueried
    \/ SetReady \/ MakeTrigger \/ SendReady \/ CancelJob
    \/ Complete \/ CompleteCheck \/ CompleteSleep \/ CompleteWoken
    \/ Save \/ SendComplete \/ CancelLate \/ Finish \/ EndJob

CallStep(c) ==
    \/ ClearMessages(c) \/ CheckReady(c) \/ Load(c) \/ LoadFailed(c) \/ Loaded(c)
    \/ CallCancel(c) \/ PlayAll(c)
    \/ ArmOwned(c) \/ ArmOwnedWait(c) \/ ArmLocal(c) \/ ArmLocalWait(c)
    \/ ArmStopped(c) \/ ArmLate(c) \/ ArmedOwned(c) \/ Spawn(c) \/ Join(c)
    \/ RequestTrigger(c) \/ ServerTrigger(c) \/ Trigger(c) \/ NotifyTrigger(c)

PlayStep ==
    \/ Arm \/ ArmError \/ ArmStop \/ Ready \/ TrigLock \/ TrigCheck \/ TrigSleep \/ TrigWoken
    \/ Fired \/ PlayLock \/ NextEvent \/ Sleep \/ Fire \/ EventsDone \/ JoinMeasure
    \/ AllLock \/ AllCheck \/ AllWoken \/ AllTimeout \/ AllGrace \/ AllGiveUp
    \/ After \/ Final \/ NotifyComplete

MeasureStep == Collect \/ Collected

TargetStep ==
    \/ \E t \in Targets : TargetReady(t) \/ TargetArm(t) \/ TargetComplete(t)
    \/ \E m \in inbox : DeliverReady(m) \/ DeliverComplete(m)

Next ==
    /\ Running
    /\ \/ StartJob \/ JobStep
       \/ ServerCall \/ CallStep(Caller)
       \/ PlayStep \/ MeasureStep
       \/ TargetStep \/ HandlerDone
       \/ UserStop
       \/ \E th \in Threads \ {"measure"} : Stop(th)

\* Every thread that can move does, timers included; the operating system starves no
\* thread of a lock.  Nothing is assumed of the user, of the owned devices, of the
\* delivery of messages, or of the server: the liveness runs have Owner = TRUE, where
\* Caller is the engine's own job thread.  A request to a trigger device is assumed to
\* return, with or without success.  AllGrace is bounded in the code by
\* measurementDeadline and by one delivery grace: AllGiveUp is taken in the end.
Fairness ==
    /\ WF_vars(Running /\ JobStep)
    /\ WF_vars(Running /\ CallStep(Caller))
    /\ WF_vars(Running /\ PlayStep)
    /\ SF_vars(Running /\ AllGiveUp)
    /\ WF_vars(Running /\ MeasureStep)
    /\ WF_vars(Running /\ HandlerDone)
    /\ \A th \in Threads \ {"measure"} : WF_vars(Running /\ Stop(th))

Spec == Init /\ [][Next]_vars
FairSpec == Spec /\ Fairness

-----------------------------------------------------------------------------
(* Properties. *)

\* Where the job thread is once waitForPlayComplete has returned.
ReportLabels == {"save", "sendComplete", "cancelLate", "finish", "end"}
Reporting == pc["job"] \in ReportLabels

\* play(job) "doesn't finish until play finishes or is aborted": once it has left
\* waitForPlayComplete, no thread takes the engine back into a play state before
\* the job has been reported.
JobReturnsQuiescent == Reporting => state \notin PlayStates

\* A stop() has read the state it acts on and has not yet set cancelled.
StopHalfDone == \E th \in Threads : pc[th] \in {"stopSet", "stopCancel"}

\* A shot is saved as Success only if every event was played and every owned device
\* completed it, whatever failures, stops and late messages came in between.  Left out are
\* three ways in which the code does save what was not played: a shot begun over an
\* unfinished playShot (see ShotsDoNotOverlap), a stop caught before it has cancelled the
\* shot (see StoppedIsNotSuccess), and events that a stop() of the shot before has stopped
\* after prepare() had reset cancelled for this one.
SuccessMeansPlayed ==
    [][\A s \in Shots : result[s] # "Success" /\ result'[s] = "Success" =>
            \/ s \in overlapped \cup strayed \/ StopHalfDone
            \/ played = Targets /\ \A e \in Events : evts[e] = "played"]_vars

\* The scheduler is told Completed only of a shot whose result says that it was neither
\* cancelled nor aborted (a stop caught half done aside).
ReportMatchesResult ==
    [][\A s \in Shots : jobEnd[s] # "Completed" /\ jobEnd'[s] = "Completed" =>
            StopHalfDone \/ result[s] \in {"Success", "CompletedWithErrors"}]_vars

\* No event reaches the hardware once the job has stopped waiting for the play, nor
\* by a thread left over from an earlier shot.
EventsOnlyInTheirShot ==
    [][\A e \in Events : evts[e] # "played" /\ evts'[e] = "played" =>
            activePlayJob /\ playThread = activeShot /\ ~Reporting]_vars

\* The engine becomes PlayReady only once every owned device has answered for this very
\* shot: the late answer to an earlier one never stands in for it.
PlayReadyMeansAllAnswered ==
    [][state # "PlayReady" /\ state' = "PlayReady" =>
            \A t \in Targets : tgt[t].shot = activeShot /\ tgt[t].phase # "asked"]_vars

\* The owner starts a shot only when each owned device and itself wait for the trigger.
TriggerOnlyWhenArmed ==
    [][Owner /\ state = "WaitingForTrigger" /\ state' = "Playing" =>
            \A i \in Ids : mt.status[i] = "Waiting"]_vars

\* The play thread always gets out of playDeviceEvents: however the loop ends, the
\* measurement thread it joins drains.
MeasurementDrains == At("play", "nextEvent") ~> At("play", "allLock") \/ ~Running

\* A play job ends, unless a wakeup was lost (see JobWakesWhenPlayIsOver): no timeout, stop
\* or order of the devices' answers leaves it waiting.
JobEnds == At("job", "prepare") ~> At("job", "idle") \/ missed # {} \/ ~Running

\* "playCondition.notify_all(); //wake up waitForPlayComplete"
JobWakesWhenPlayIsOver ==
    At("job", "completeBlocked") /\ state \notin PlayStates ~> ~At("job", "completeBlocked")

\* "Added `Play canceled` messages to stopped play results and classify those results
\* as `CanceledByUser`": a play that a stop cut short is not saved as Success.
StoppedIsNotSuccess ==
    [][\A s \in Shots : result[s] # "Success" /\ result'[s] = "Success" =>
            ~ \E th \in Threads : /\ At(th, "stopCancel") /\ snap[th] \in PlayStates
                                  /\ \E e \in Events : evts[e] # "played"]_vars

\* "the scheduler does not reuse the engine while the previous play thread is still
\* unwinding"
ShotsDoNotOverlap == overlapped = {}
=============================================================================
