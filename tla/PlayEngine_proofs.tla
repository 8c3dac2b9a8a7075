-------------------------- MODULE PlayEngine_proofs --------------------------
(***************************************************************************)
(* Proofs about the play path of one engine, for every set of owned        *)
(* devices, every number of shots, events and stops, for the owner of the  *)
(* play jobs and for an engine that is owned.                              *)
(*                                                                         *)
(* First what the engine's own threads do: the types, and how a job        *)
(* returns.  Then what one engine and its owned devices know of each       *)
(* other: an engine is PlayReady only when all have answered for its shot, *)
(* the owner starts a shot only when all wait for its trigger, and no      *)
(* event is played but by the play thread of the shot in progress.         *)
(***************************************************************************)
EXTENDS PlayEngine, TLAPS

-----------------------------------------------------------------------------
(* The state machine and the master trigger. *)

\* setState leaves the machine in one of its states.
LEMMA SetStateType ==
    ASSUME NEW from \in EngineState, NEW target \in EngineState
    PROVE  SetState(from, target) \in EngineState
BY DEF SetState

\* So does setState with a fallback.
LEMMA SetStateOrType ==
    ASSUME NEW from \in EngineState, NEW target \in EngineState, NEW fallback \in EngineState
    PROVE  SetStateOr(from, target, fallback) \in EngineState
BY SetStateType DEF SetStateOr

\* The states the code asks for are states of the machine.
LEMMA EngineStateFacts ==
    {"Parsed", "PreparingPlay", "PlayReady", "WaitingForTrigger", "Playing", "Error"}
        \subseteq EngineState
BY DEF EngineState, NormalStates

MTType == MasterTriggerType(Ids, Shots)

\* The engine's own id and the owned devices' are keys of the master trigger.
LEMMA IdsFacts == Self \in Ids /\ Targets \subseteq Ids
BY DEF Ids

\* Every method of MasterTrigger leaves a MasterTrigger.
LEMMA MasterTriggerMethods ==
    ASSUME NEW m \in MTType
    PROVE  /\ EnterWait(m) \in MTType
           /\ StopWait(m) \in MTType
           /\ \A id \in Ids : ArmId(m, id) \in MTType
           /\ \A id \in Ids : ReadyId(m, id) \in MTType
           /\ \A id \in Ids : FiredId(m, id) \in MTType
BY DEF MTType, MasterTriggerType, TriggerStatus, ArmId, EnterWait, StopWait, SetKnown,
   ReadyId, FiredId

\* So do its constructor and reset().
LEMMA MasterTriggerNew ==
    /\ NullTrigger(Ids) \in MTType
    /\ \A s \in Shots \cup {0} : NewArmed(Ids, s, Targets) \in MTType
BY DEF MTType, MasterTriggerType, TriggerStatus, NullTrigger, NewArmed

-----------------------------------------------------------------------------
(* Type correctness.  TypeOK alone is not inductive: that a message names a   *)
(* shot needs that the job in progress, and a device at work, have one.       *)

PcInv     == PcType /\ (pc["job"] # "idle" => shot # 0)
TargetInv == TargetType /\ \A t \in Targets : tgt[t].phase # "idle" => tgt[t].shot # 0

TInv == /\ EngineType /\ TargetInv /\ LockType /\ StopType /\ LoopType /\ JobType
        /\ mt \in MTType
        /\ EventsType /\ PcInv

\* The threads, by name.
LEMMA ThreadsFacts ==
    {"job", "play", "measure", "server", "handler", "user"} = Threads
BY DEF Threads

\* What a step leaves alone keeps its type.
LEMMA Unchanged ==
    ASSUME TInv
    PROVE  /\ UNCHANGED engineVars => EngineType'
           /\ UNCHANGED targetVars => TargetInv'
           /\ UNCHANGED lockVars => LockType'
           /\ UNCHANGED stopVars => StopType'
           /\ UNCHANGED loopVars => LoopType'
           /\ UNCHANGED jobVars => JobType' /\ shot' = shot
           /\ UNCHANGED mt => mt' \in MTType
           /\ UNCHANGED evts => EventsType'
           /\ UNCHANGED <<pc, shot>> => PcInv'
BY DEF TInv, EngineType, TargetInv, TargetType, LockType, StopType, LoopType, JobType,
       EventsType, PcInv, PcType, engineVars, targetVars, lockVars, stopVars, loopVars, jobVars

\* A thread other than the idle job thread moves.
LEMMA MoveType ==
    ASSUME TInv, shot' = shot, NEW th \in Threads, NEW from, NEW to \in Labels,
           th # "job" \/ from # "idle", Move(th, from, to)
    PROVE  PcInv'
BY DEF TInv, PcInv, PcType, Move, At, Goto, Threads

\* A thread other than the idle job thread calls stop().
LEMMA StopCallType ==
    ASSUME TInv, shot' = shot, NEW th \in Threads, NEW from, NEW back \in Labels,
           th # "job" \/ from # "idle", StopCall(th, from, back)
    PROVE  PcInv' /\ StopType'
<1>1. PcInv'
  BY MoveType DEF StopCall, Labels, StopLabels
<1>2. StopType'
  BY DEF TInv, StopType, StopCall
<1>. QED BY <1>1, <1>2

\* The operations on the mutexes and condition variables.
LEMMA LockTypes ==
    ASSUME TInv, NEW th \in Threads
    PROVE  /\ LockPlay(th) => LockType'
           /\ UnlockPlay => LockType'
           /\ WaitPlay(th) => LockType'
           /\ PlayTimeout(th) => LockType'
           /\ NotifyPlay => LockType'
           /\ LockTrigger(th) => LockType'
           /\ UnlockTrigger => LockType'
           /\ WaitTrigger(th) => LockType'
BY DEF TInv, LockType, LockPlay, UnlockPlay, WaitPlay, PlayTimeout, NotifyPlay, MissedBy,
       LockTrigger, UnlockTrigger, WaitTrigger, Threads

\* The engine starts well typed.
LEMMA TInvInit == Init => TInv
<1>. SUFFICES ASSUME Init PROVE TInv
  OBVIOUS
<1>1. EngineType /\ TargetInv /\ LockType /\ LoopType /\ JobType /\ EventsType
  BY EngineStateFacts DEF Init, EngineType, TargetInv, TargetType, TargetPhases, LockType,
     LoopType, JobType, EventsType
<1>2. "idle" \in Labels
  BY DEF Labels, JobLabels
<1>3. StopType /\ PcInv
  BY <1>2, EngineStateFacts, ThreadsFacts DEF Init, StopType, PcInv, PcType
<1>. QED BY <1>1, <1>3, MasterTriggerNew DEF Init, TInv

\* A stop() that returns.
LEMMA StopReturnType ==
    ASSUME TInv, shot' = shot, NEW th \in Threads, NEW from, th # "job" \/ from # "idle",
           StopReturn(th, from), UNCHANGED <<ret, stops>>, strayed' \in SUBSET (Shots \cup {0})
    PROVE  PcInv' /\ StopType'
<1>1. ret[th] \in Labels /\ "Parsed" \in EngineState
  BY EngineStateFacts DEF TInv, StopType
<1>2. PcInv'
  BY <1>1, MoveType DEF StopReturn
<1>3. StopType'
  BY <1>1 DEF TInv, StopType, StopReturn
<1>. QED BY <1>2, <1>3

\* stop(), whoever calls it.
LEMMA TInvStop == ASSUME NEW th \in Threads, TInv, Stop(th) PROVE TInv'
<1> USE ThreadsFacts
<1>0. strayed \in SUBSET (Shots \cup {0}) /\ shot \in Shots \cup {0}
  BY DEF TInv, StopType, JobType
<1>1. CASE StopRead(th)
  <2>1. EngineType'
    BY <1>1 DEF StopRead, AddErrorIf, TInv, EngineType
  <2>2. StopType'
    BY <1>1 DEF StopRead, TInv, EngineType, StopType
  <2>. QED BY <1>1, <2>1, <2>2, Unchanged, MoveType, MasterTriggerMethods DEF StopRead,
     Labels, StopLabels, TInv
<1>2. CASE StopSet(th)
  <2>1. EngineType'
    BY <1>2, SetStateOrType, EngineStateFacts DEF StopSet, TInv, EngineType
  <2>2. shot' = shot
    BY <1>2 DEF StopSet, jobVars
  <2>3. CASE Aborts(th)
    BY <1>2, <2>1, <2>3, Unchanged, MoveType
       DEF StopSet, stopVars, Labels, StopLabels, TInv
  <2>4. CASE ~Aborts(th)
    BY <1>0, <1>2, <2>1, <2>2, <2>4, Unchanged, StopReturnType DEF StopSet, TInv
  <2>. QED BY <2>3, <2>4
<1>3. CASE StopCancel(th)
  <2>1. EngineType'
    BY <1>3 DEF StopCancel, TInv, EngineType
  <2>. QED BY <1>3, <2>1, Unchanged, MoveType DEF StopCancel, notEngine, Labels, StopLabels, TInv
<1>4. CASE StopTrigger(th)
  <2>1. LockType'
    BY <1>4 DEF StopTrigger, MissedBy, TInv, LockType
  <2>. QED BY <1>4, <2>1, Unchanged, MoveType DEF StopTrigger, notLocks, Labels, StopLabels, TInv
<1>5. CASE StopRelease(th)
  <2>1. LockType' /\ shot' = shot
    BY <1>5, LockTypes DEF StopRelease, jobVars
  <2>2. CASE StopsEvents(th)
    BY <1>5, <2>1, <2>2, Unchanged, MoveType
       DEF StopRelease, stopVars, Labels, StopLabels, TInv
  <2>3. CASE ~StopsEvents(th)
    BY <1>0, <1>5, <2>1, <2>3, Unchanged, StopReturnType DEF StopRelease, TInv
  <2>. QED BY <2>2, <2>3
<1>6. CASE StopEvents(th)
  <2>1. EventsType'
    BY <1>6 DEF StopEvents, StoppedEvents, TInv, EventsType
  <2>2. shot' = shot /\ strayed' \in SUBSET (Shots \cup {0})
    BY <1>0, <1>6 DEF StopEvents, jobVars
  <2>. QED BY <1>6, <2>1, <2>2, Unchanged, StopReturnType DEF StopEvents, TInv
<1>. QED BY <1>1, <1>2, <1>3, <1>4, <1>5, <1>6 DEF Stop

\* Wherever a stop() is, it goes on in it or returns, and leaves the job, the devices and the
\* mutexes alone.
LEMMA StopSteps ==
    ASSUME NEW th \in Threads, TInv, Stop(th)
    PROVE  /\ pc[th] \in StopLabels
           /\ pc'[th] \in StopLabels \/ pc'[th] = ret[th]
           /\ \A u \in Threads \ {th} : pc'[u] = pc[u] /\ snap'[u] = snap[u]
           /\ UNCHANGED <<ret, targetVars, loopVars, jobVars, playMutex>>
           /\ cancelled => cancelled'
           /\ ~StopRead(th) => UNCHANGED <<mt, errs>>
           /\ ~StopSet(th) => UNCHANGED state
           /\ ~StopEvents(th) => UNCHANGED <<evts, strayed>>
           /\ \E from \in StopLabels, to \in StopLabels \cup {ret[th]} : Move(th, from, to)
BY DEF Stop, StopRead, StopSet, StopCancel, StopTrigger, StopRelease, StopEvents, StopReturn,
       NotifyPlay, notEngine, notLocks, engineVars, stopVars, lockVars, Move, At, Goto, StopLabels,
       TInv, EngineType, PcInv, PcType, StopType

\* play(job).
LEMMA TInvJob == ASSUME TInv, JobStep PROVE TInv'
<1> USE ThreadsFacts
<1>1. CASE Prepare
  <2>1. EngineType'
    BY <1>1, SetStateType, EngineStateFacts DEF Prepare, TInv, EngineType
  <2>2. TargetInv'
    BY <1>1 DEF Prepare, TInv, EngineType, TargetInv, TargetType, TargetPhases, JobType,
       PcInv, Move, At
  <2>3. JobType'
    BY <1>1 DEF Prepare, TInv, JobType, PcInv, Move, At
  <2>. QED BY <1>1, <2>1, <2>2, <2>3, Unchanged, MoveType, LockTypes, MasterTriggerNew
     DEF Prepare, Labels, JobLabels, TInv
<1>2. CASE RefuseAbstract
  <2>1. EngineType'
    BY <1>2, SetStateType, EngineStateFacts DEF RefuseAbstract, TInv, EngineType
  <2>. QED BY <1>2, <2>1, Unchanged, MoveType, MasterTriggerNew DEF RefuseAbstract, Labels,
     JobLabels, TInv
<1>3. CASE WaitReady
  BY <1>3, Unchanged, MoveType, LockTypes DEF WaitReady, notLocks, Labels, JobLabels, TInv
<1>4. CASE ReadyWoken
  BY <1>4, Unchanged, MoveType, LockTypes DEF ReadyWoken, notLocks, Labels, JobLabels, TInv
<1>5. CASE ReadyTimeout
  BY <1>5, Unchanged, MoveType, LockTypes DEF ReadyTimeout, notLocks, Labels, JobLabels, TInv
<1>6. CASE ReadyQueried
  <2>1. EngineType'
    BY <1>6 DEF ReadyQueried, AddErrorIf, TInv, EngineType
  <2>. QED BY <1>6, <2>1, Unchanged, MoveType, LockTypes DEF ReadyQueried, Labels, JobLabels,
     TInv
<1>7. CASE SetReady
  <2>1. EngineType'
    BY <1>7, SetStateType, EngineStateFacts DEF SetReady, AddErrorIf, SetStateOk, TInv,
       EngineType
  <2>. QED BY <1>7, <2>1, Unchanged, MoveType DEF SetReady, notEngine, Labels, JobLabels, TInv
<1>8. CASE MakeTrigger
  <2>1. mt' \in MTType
    BY <1>8, MasterTriggerNew DEF MakeTrigger, TInv, JobType
  <2>. QED BY <1>8, <2>1, Unchanged, MoveType DEF MakeTrigger, notMt, Labels, JobLabels, TInv
<1>9. CASE SendReady
  <2>1. EngineType'
    BY <1>9 DEF SendReady, AddErrorIf, TInv, EngineType
  <2>2. TargetInv'
    BY <1>9 DEF SendReady, TInv, TargetInv, TargetType
  <2>3. JobType' /\ shot' = shot
    BY <1>9, Unchanged DEF SendReady
  <2>. QED BY <1>9, <2>1, <2>2, <2>3, Unchanged, MoveType, LockTypes DEF SendReady,
     CallLabels, Labels, JobLabels, TInv
<1>10. CASE CancelJob
  <2>1. EngineType'
    BY <1>10 DEF CancelJob, TInv, EngineType
  <2>. QED BY <1>10, <2>1, Unchanged, StopCallType DEF CancelJob, Labels, JobLabels, TInv
<1>11. CASE Complete
  BY <1>11, Unchanged, MoveType, LockTypes DEF Complete, notLocks, Labels, JobLabels, TInv
<1>12. CASE CompleteCheck
  BY <1>12, Unchanged, MoveType, LockTypes DEF CompleteCheck, notLocks, Labels, JobLabels, TInv
<1>13. CASE CompleteSleep
  BY <1>13, Unchanged, MoveType, LockTypes DEF CompleteSleep, notLocks, Labels, JobLabels, TInv
<1>14. CASE CompleteWoken
  BY <1>14, Unchanged, MoveType, LockTypes DEF CompleteWoken, notLocks, Labels, JobLabels, TInv
<1>15. CASE Save
  <2>1. JobType'
    BY <1>15 DEF Save, ShotStatus, TInv, JobType
  <2>. QED BY <1>15, <2>1, Unchanged, MoveType DEF Save, Labels, JobLabels, TInv
<1>16. CASE SendComplete
  BY <1>16, Unchanged, MoveType DEF SendComplete, notPc, Labels, JobLabels, TInv
<1>17. CASE CancelLate
  <2>1. EngineType'
    BY <1>17 DEF CancelLate, TInv, EngineType
  <2>. QED BY <1>17, <2>1, Unchanged, MoveType DEF CancelLate, notEngine, Labels, JobLabels,
     TInv
<1>18. CASE Finish
  <2>1. JobType'
    BY <1>18 DEF Finish, TInv, JobType
  <2>. QED BY <1>18, <2>1, Unchanged, MoveType DEF Finish, Labels, JobLabels, TInv
<1>19. CASE EndJob
  <2>1. JobType'
    BY <1>19 DEF EndJob, TInv, JobType
  <2>. QED BY <1>19, <2>1, Unchanged, MoveType DEF EndJob, Labels, JobLabels, TInv
<1>. QED BY <1>1, <1>2, <1>3, <1>4, <1>5, <1>6, <1>7, <1>8, <1>9, <1>10, <1>11, <1>12, <1>13,
   <1>14, <1>15, <1>16, <1>17, <1>18, <1>19 DEF JobStep

\* play(jobID, ...), on the job thread or on the server's.
LEMMA TInvCall == ASSUME NEW c \in {"job", "server"}, TInv, CallStep(c) PROVE TInv'
<1> USE ThreadsFacts
<1>1. CASE ClearMessages(c)
  <2>1. EngineType'
    BY <1>1 DEF ClearMessages, TInv, EngineType
  <2>. QED BY <1>1, <2>1, Unchanged, MoveType DEF ClearMessages, notEngine, Labels,
     CallLabels, TInv
<1>2. CASE CheckReady(c)
  <2>1. EngineType'
    BY <1>2 DEF CheckReady, AddErrorIf, TInv, EngineType
  <2>. QED BY <1>2, <2>1, Unchanged, MoveType DEF CheckReady, notEngine, Labels, CallLabels,
     TInv
<1>3. CASE Load(c)
  <2>1. EngineType'
    BY <1>3, SetStateType, EngineStateFacts DEF Load, AddErrorIf, TInv, EngineType
  <2>2. EventsType'
    BY <1>3 DEF Load, EventsType
  <2>. QED BY <1>3, <2>1, <2>2, Unchanged, MoveType DEF Load, Labels, CallLabels, TInv
<1>4. CASE LoadFailed(c)
  <2>1. EngineType'
    BY <1>4 DEF LoadFailed, TInv, EngineType
  <2>. QED BY <1>4, <2>1, Unchanged, MoveType, LockTypes DEF LoadFailed, Labels, CallLabels,
     TInv
<1>5. CASE Loaded(c)
  BY <1>5, Unchanged, MoveType DEF Loaded, notPc, Labels, CallLabels, TInv
<1>6. CASE CallCancel(c)
  <2>1. EngineType'
    BY <1>6 DEF CallCancel, TInv, EngineType
  <2>. QED BY <1>6, <2>1, Unchanged, StopCallType DEF CallCancel, CallOver, JobLabels,
     Labels, CallLabels, TInv
<1>7. CASE PlayAll(c)
  <2>1. TargetInv'
    BY <1>7 DEF PlayAll, TInv, TargetInv, TargetType, TargetPhases
  <2>2. JobType' /\ shot' = shot
    BY <1>7, Unchanged DEF PlayAll
  <2>. QED BY <1>7, <2>1, <2>2, Unchanged, MoveType DEF PlayAll, Labels, CallLabels, TInv
<1>8. CASE ArmOwned(c)
  BY <1>8, Unchanged, MoveType, MasterTriggerMethods DEF ArmOwned, ArmWaitEnter, notMt,
     Labels, CallLabels, TInv
<1>9. CASE ArmLocal(c)
  BY <1>9, Unchanged, MoveType, MasterTriggerMethods DEF ArmLocal, ArmWaitEnter, notMt,
     Labels, CallLabels, TInv
<1>10. CASE ArmOwnedWait(c)
  BY <1>10, Unchanged, MoveType DEF ArmOwnedWait, ArmWaitDone, notPc, PlayLabels, Labels,
     CallLabels, TInv
<1>11. CASE ArmLocalWait(c)
  BY <1>11, Unchanged, MoveType DEF ArmLocalWait, ArmWaitDone, notPc, PlayLabels, Labels,
     CallLabels, TInv
<1>12. CASE ArmStopped(c)
  BY <1>12, Unchanged, MoveType DEF ArmStopped, notPc, CallOver, JobLabels, Labels,
     CallLabels, TInv
<1>13. CASE ArmLate(c)
  <2>1. EngineType'
    BY <1>13 DEF ArmLate, AddErrorIf, TInv, EngineType
  <2>. QED BY <1>13, <2>1, Unchanged, MoveType DEF ArmLate, notEngine, Labels, CallLabels, TInv
<1>14. CASE ArmedOwned(c)
  BY <1>14, Unchanged, MoveType, MasterTriggerMethods, IdsFacts DEF ArmedOwned, notMt,
     CallOver, JobLabels, PlayLabels, Labels, CallLabels, TInv
<1>15. CASE Spawn(c)
  BY <1>15, Unchanged, MoveType, StopCallType DEF Spawn, Labels, CallLabels, TInv
<1>16. CASE Join(c)
  <2>1. LoopType'
    BY <1>16 DEF Join, TInv, LoopType, JobType
  <2>2. PcInv'
    BY <1>16, Unchanged DEF Join, TInv, PcInv, PcType, At, Labels, CallLabels, PlayLabels,
       Threads
  <2>. QED BY <1>16, <2>1, <2>2, Unchanged DEF Join, Labels, CallLabels, TInv
<1>17. CASE RequestTrigger(c)
  BY <1>17, Unchanged, MoveType DEF RequestTrigger, notPc, Labels, CallLabels, TInv
<1>18. CASE ServerTrigger(c)
  BY <1>18, Unchanged, MoveType DEF ServerTrigger, notPc, CallOver, JobLabels, Labels,
     CallLabels, TInv
<1>19. CASE Trigger(c)
  <2>1. EngineType'
    BY <1>19, SetStateOrType, EngineStateFacts DEF Trigger, TInv, EngineType
  <2>. QED BY <1>19, <2>1, Unchanged, MoveType DEF Trigger, notEngine, CallOver, JobLabels,
     Labels, CallLabels, TInv
<1>20. CASE NotifyTrigger(c)
  <2>1. TargetInv'
    BY <1>20 DEF NotifyTrigger, TInv, TargetInv, TargetType, TargetPhases
  <2>2. LockType'
    BY <1>20 DEF NotifyTrigger, TInv, LockType
  <2>3. JobType' /\ shot' = shot
    BY <1>20, Unchanged DEF NotifyTrigger
  <2>. QED BY <1>20, <2>1, <2>2, <2>3, Unchanged, MoveType DEF NotifyTrigger, CallOver,
     JobLabels, Labels, CallLabels, TInv
<1>. QED BY <1>1, <1>2, <1>3, <1>4, <1>5, <1>6, <1>7, <1>8, <1>9, <1>10, <1>11, <1>12, <1>13,
   <1>14, <1>15, <1>16, <1>17, <1>18, <1>19, <1>20 DEF CallStep

\* playShot.
LEMMA TInvPlay == ASSUME TInv, PlayStep PROVE TInv'
<1> USE ThreadsFacts
<1>1. CASE Arm
  <2>1. EngineType'
    BY <1>1, SetStateType, EngineStateFacts DEF Arm, AddErrorIf, TInv, EngineType
  <2>. QED BY <1>1, <2>1, Unchanged, MoveType DEF Arm, notEngine, Labels, PlayLabels, TInv
<1>2. CASE ArmError
  <2>1. EngineType'
    BY <1>2 DEF ArmError, TInv, EngineType
  <2>. QED BY <1>2, <2>1, Unchanged, StopCallType DEF ArmError, Labels, PlayLabels, TInv
<1>3. CASE ArmStop
  BY <1>3, Unchanged, MoveType, MasterTriggerMethods DEF ArmStop, notMt, JobLabels, Labels,
     PlayLabels, TInv
<1>4. CASE Ready
  BY <1>4, Unchanged, MoveType, MasterTriggerMethods, IdsFacts DEF Ready, notMt, Labels,
     PlayLabels, TInv
<1>5. CASE TrigLock
  BY <1>5, Unchanged, MoveType, LockTypes DEF TrigLock, notLocks, Labels, PlayLabels, TInv
<1>6. CASE TrigCheck
  BY <1>6, Unchanged, MoveType, LockTypes DEF TrigCheck, notLocks, Labels, PlayLabels, TInv
<1>7. CASE TrigSleep
  BY <1>7, Unchanged, MoveType, LockTypes DEF TrigSleep, notLocks, Labels, PlayLabels, TInv
<1>8. CASE TrigWoken
  BY <1>8, Unchanged, MoveType, LockTypes DEF TrigWoken, notLocks, Labels, PlayLabels, TInv
<1>9. CASE Fired
  BY <1>9, Unchanged, MoveType, MasterTriggerMethods, IdsFacts DEF Fired, notMt, Labels,
     PlayLabels, TInv
<1>10. CASE PlayLock
  <2>1. EngineType'
    BY <1>10, SetStateOrType, EngineStateFacts DEF PlayLock, AddErrorIf, TInv, EngineType
  <2>2. LoopType'
    BY <1>10 DEF PlayLock, TInv, LoopType, SetStateOk
  <2>3. PcInv'
    BY <1>10, Unchanged DEF PlayLock, TInv, PcInv, PcType, At, Labels, PlayLabels, Threads
  <2>. QED BY <1>10, <2>1, <2>2, <2>3, Unchanged, LockTypes DEF PlayLock, Labels, PlayLabels,
     TInv
<1>11. CASE NextEvent
  BY <1>11, Unchanged, MoveType, LockTypes DEF NextEvent, notLocks, Labels, PlayLabels, TInv
<1>12. CASE Sleep
  <2>1. LoopType'
    BY <1>12 DEF Sleep, TInv, LoopType
  <2>. QED BY <1>12, <2>1, Unchanged, MoveType, LockTypes DEF Sleep, Labels, PlayLabels, TInv
<1>13. CASE Fire
  <2>1. EngineType'
    BY <1>13, SetStateType, EngineStateFacts DEF Fire, AddErrorIf, TInv, EngineType
  <2>2. EventsType'
    BY <1>13 DEF Fire, TInv, EventsType
  <2>3. LoopType'
    BY <1>13 DEF Fire, TInv, LoopType
  <2>. QED BY <1>13, <2>1, <2>2, <2>3, Unchanged, MoveType DEF Fire, Labels, PlayLabels, TInv
<1>14. CASE EventsDone
  <2>1. EventsType'
    BY <1>14 DEF EventsDone, StoppedEvents, TInv, EventsType
  <2>. QED BY <1>14, <2>1, Unchanged, MoveType DEF EventsDone, Labels, PlayLabels, TInv
<1>15. CASE JoinMeasure
  BY <1>15, Unchanged, MoveType, LockTypes DEF JoinMeasure, notLocks, Labels, PlayLabels, TInv
<1>16. CASE AllLock
  BY <1>16, Unchanged, MoveType, LockTypes DEF AllLock, notLocks, Labels, PlayLabels, TInv
<1>17. CASE AllCheck
  <2>1. LoopType'
    BY <1>17 DEF AllCheck, AllPlayed, TInv, LoopType, loopVars
  <2>. QED BY <1>17, <2>1, Unchanged, MoveType, LockTypes DEF AllCheck, Labels, PlayLabels, TInv
<1>18. CASE AllWoken
  BY <1>18, Unchanged, MoveType, LockTypes DEF AllWoken, notLocks, Labels, PlayLabels, TInv
<1>19. CASE AllTimeout
  BY <1>19, Unchanged, MoveType, LockTypes DEF AllTimeout, notLocks, Labels, PlayLabels, TInv
<1>20. CASE AllGrace
  BY <1>20, Unchanged, MoveType DEF AllGrace, notPc, Labels, PlayLabels, TInv
<1>21. CASE AllGiveUp
  <2>1. EngineType'
    BY <1>21 DEF AllGiveUp, AddErrorIf, AllPlayed, TInv, EngineType
  <2>2. LoopType'
    BY <1>21 DEF AllGiveUp, AllPlayed, TInv, LoopType
  <2>. QED BY <1>21, <2>1, <2>2, Unchanged, MoveType DEF AllGiveUp, Labels, PlayLabels, TInv
<1>22. CASE After
  BY <1>22, Unchanged, MoveType, StopCallType DEF After, Labels, PlayLabels, TInv
<1>23. CASE Final
  <2>1. EngineType'
    BY <1>23, SetStateOrType, EngineStateFacts DEF Final, TInv, EngineType
  <2>. QED BY <1>23, <2>1, Unchanged, MoveType DEF Final, notEngine, Labels, PlayLabels, TInv
<1>24. CASE NotifyComplete
  BY <1>24, Unchanged, MoveType, LockTypes DEF NotifyComplete, notLocks, JobLabels, Labels,
     PlayLabels, TInv
<1>. QED BY <1>1, <1>2, <1>3, <1>4, <1>5, <1>6, <1>7, <1>8, <1>9, <1>10, <1>11, <1>12, <1>13,
   <1>14, <1>15, <1>16, <1>17, <1>18, <1>19, <1>20, <1>21, <1>22, <1>23, <1>24 DEF PlayStep

\* measureData.
LEMMA TInvMeasure == ASSUME TInv, MeasureStep PROVE TInv'
<1> USE ThreadsFacts
<1>1. CASE Collect
  <2>1. EngineType'
    BY <1>1, SetStateType, EngineStateFacts DEF Collect, AddErrorIf, TInv, EngineType
  <2>2. LoopType'
    BY <1>1 DEF Collect, TInv, LoopType
  <2>. QED BY <1>1, <2>1, <2>2, Unchanged, MoveType DEF Collect, Labels, JobLabels, TInv
<1>2. CASE Collected
  BY <1>2, Unchanged, MoveType DEF Collected, notPc, Labels, JobLabels, TInv
<1>. QED BY <1>1, <1>2 DEF MeasureStep

\* The owned devices and the delivery of their messages.
LEMMA TInvTarget == ASSUME TInv, TargetStep PROVE TInv'
<1> USE ThreadsFacts
<1>1. ASSUME NEW t \in Targets, TargetReady(t) PROVE TInv'
  <2>1. TargetInv'
    BY <1>1 DEF TargetReady, Send, Messages, TargetPhases, TInv, TargetInv, TargetType
  <2>. QED BY <1>1, <2>1, Unchanged DEF TargetReady, TInv
<1>2. ASSUME NEW t \in Targets, TargetArm(t) PROVE TInv'
  <2>1. TargetInv'
    BY <1>2 DEF TargetArm, TargetPhases, TInv, TargetInv, TargetType
  <2>. QED BY <1>2, <2>1, Unchanged, MasterTriggerMethods, IdsFacts DEF TargetArm, TInv
<1>3. ASSUME NEW t \in Targets, TargetComplete(t) PROVE TInv'
  <2>1. TargetInv'
    BY <1>3 DEF TargetComplete, Send, Messages, TargetPhases, TInv, TargetInv, TargetType
  <2>. QED BY <1>3, <2>1, Unchanged DEF TargetComplete, TInv
<1>4. ASSUME NEW m \in inbox, DeliverReady(m) PROVE TInv'
  <2>1. TargetInv'
    BY <1>4 DEF DeliverReady, Messages, TInv, TargetInv, TargetType
  <2>. QED BY <1>4, <2>1, Unchanged, LockTypes DEF DeliverReady, TInv
<1>5. ASSUME NEW m \in inbox, DeliverComplete(m) PROVE TInv'
  <2>1. TargetInv'
    BY <1>5 DEF DeliverComplete, Messages, TInv, TargetInv, TargetType
  <2>2. JobType' /\ shot' = shot
    BY <1>5, Unchanged DEF DeliverComplete
  <2>. QED BY <1>5, <2>1, <2>2, Unchanged, LockTypes, StopCallType DEF DeliverComplete,
     Labels, JobLabels, TInv
<1>. QED BY <1>1, <1>2, <1>3, <1>4, <1>5 DEF TargetStep

\* Every step keeps the types.
LEMMA TInvNext == TInv /\ [Next]_vars => TInv'
<1>. SUFFICES ASSUME TInv, [Next]_vars PROVE TInv'
  OBVIOUS
<1> USE ThreadsFacts
<1>1. CASE StartJob
  <2>1. shot' \in Shots
    BY <1>1, BoundsAssumption DEF StartJob, TInv, JobType, Shots
  <2>2. JobType'
    BY <1>1, <2>1 DEF StartJob, TInv, JobType
  <2>3. TargetInv'
    BY <1>1 DEF StartJob, TInv, TargetInv, TargetType
  <2>4. PcInv'
    BY <1>1, <2>1 DEF StartJob, Shots, TInv, PcInv, PcType, Move, Goto, Labels, JobLabels,
       Threads
  <2>. QED BY <1>1, <2>1, <2>2, <2>3, <2>4, Unchanged DEF StartJob, TInv
<1>2. CASE ServerCall
  <2>1. TargetInv'
    BY <1>2 DEF ServerCall, TInv, TargetInv, TargetType
  <2>2. JobType' /\ shot' = shot
    BY <1>2, Unchanged DEF ServerCall
  <2>. QED BY <1>2, <2>1, <2>2, Unchanged, MoveType DEF ServerCall, Labels, CallLabels, TInv
<1>3. CASE MeasureStep
  BY <1>3, TInvMeasure
<1>4. CASE HandlerDone
  <2>1. LockType'
    BY <1>4 DEF HandlerDone, TInv, LockType
  <2>2. JobType' /\ shot' = shot
    BY <1>4, Unchanged DEF HandlerDone, notLocks
  <2>. QED BY <1>4, <2>1, <2>2, Unchanged, MoveType DEF HandlerDone, notLocks, Labels,
     JobLabels, TInv
<1>5. CASE UserStop
  <2>1. StopType'
    BY <1>5 DEF UserStop, TInv, StopType, Labels, JobLabels
  <2>. QED BY <1>5, <2>1, Unchanged, MoveType DEF UserStop, Labels, StopLabels, TInv
<1>6. CASE CallStep(Caller)
  BY <1>6, TInvCall DEF Caller
<1>7. CASE \E th \in Threads \ {"measure"} : Stop(th)
  BY <1>7, TInvStop
<1>8. CASE UNCHANGED vars
  BY <1>8, Unchanged DEF vars, jobVars, TInv
<1>. QED
  BY <1>1, <1>2, <1>3, <1>4, <1>5, <1>6, <1>7, <1>8, TInvJob, TInvPlay, TInvTarget DEF Next

\* The state of the engine, of its locks, of its threads and of its devices always has
\* its type, whatever the number of devices, shots, events and stops.
THEOREM TypeCorrect == Spec => []TypeOK
<1>1. Spec => []TInv
  BY TInvInit, TInvNext, PTL DEF Spec
<1>2. TInv => TypeOK
  BY DEF TInv, TypeOK, MTType, PcInv, TargetInv
<1>. QED BY <1>1, <1>2, PTL
-----------------------------------------------------------------------------
(* The return of play(job).                                                   *)
(*                                                                            *)
(* Almost every step is calm: it does not bring the engine back into a play   *)
(* state, take back an abort, record a stop, touch the job's report, finish a *)
(* stop() or let the job thread out of waitForPlayComplete.  The invariant    *)
(* has to be argued for the few others only.                                  *)

HalfDone == {"stopSet", "stopCancel"}

CalmEngine == /\ state' \in PlayStates => state \in PlayStates
              /\ cancelled => cancelled'
              /\ "Canceled" \in errs' => "Canceled" \in errs
CalmStop   == /\ snap' = snap /\ strayed' = strayed
              /\ ret'["job"] \in ReportLabels => ret["job"] \in ReportLabels
CalmPc     == /\ pc'["job"] \in ReportLabels => pc'["job"] = pc["job"]
              /\ \A th \in Threads : pc[th] \in HalfDone => pc'[th] = pc[th]
Calm == CalmEngine /\ CalmStop /\ CalmPc /\ shot' = shot /\ result' = result /\ jobEnd' = jobEnd

\* An engine outside the play states enters one only by PreparingPlay.
LEMMA SetStateQuiet ==
    ASSUME NEW from \in EngineState,
           NEW target \in {"Parsed", "PlayReady", "WaitingForTrigger", "Playing", "Error"}
    PROVE  /\ SetState(from, target) \in PlayStates => from \in PlayStates
           /\ SetStateOr(from, target, "Error") \in PlayStates => from \in PlayStates
BY DEF SetState, SetStateOr, SetStateOk, IsAllowedTransition, Edges, EngineState,
   NormalStates, PlayStates

\* What leaves a group of variables alone is calm about it.
LEMMA CalmUnchanged ==
    /\ UNCHANGED engineVars => CalmEngine
    /\ UNCHANGED stopVars => CalmStop
    /\ UNCHANGED pc => CalmPc
    /\ UNCHANGED jobVars => shot' = shot /\ result' = result /\ jobEnd' = jobEnd
BY DEF engineVars, stopVars, jobVars, CalmEngine, CalmStop, CalmPc

\* A thread outside stop() moves, the job thread not to its report.
LEMMA CalmMove ==
    ASSUME TInv, NEW th \in Threads, NEW from, NEW to, Move(th, from, to),
           from \notin HalfDone, th = "job" => to \notin ReportLabels
    PROVE  CalmPc
BY DEF TInv, PcInv, PcType, Move, At, Goto, CalmPc, Threads

\* A call of stop() is calm: its steps come later.
LEMMA CalmStopCall ==
    ASSUME TInv, NEW th \in Threads, NEW from, NEW back, StopCall(th, from, back),
           from \notin HalfDone, th = "job" => back \notin ReportLabels
    PROVE  CalmPc /\ CalmStop
<1>1. CalmPc
  BY CalmMove DEF StopCall, ReportLabels
<1>2. CalmStop
  BY DEF TInv, StopType, StopCall, CalmStop, Threads
<1>. QED BY <1>1, <1>2

\* The calls of play(jobID, ...) are calm.
LEMMA CalmCall == ASSUME NEW c \in {"job", "server"}, TInv, CallStep(c) PROVE Calm
<1> USE ThreadsFacts
<1>1. CASE ClearMessages(c)
  <2>1. CalmEngine
    BY <1>1 DEF ClearMessages, CalmEngine, TInv, EngineType
  <2>. QED BY <1>1, <2>1, CalmUnchanged, CalmMove DEF ClearMessages, notEngine, Calm,
     ReportLabels, HalfDone
<1>2. CASE CheckReady(c)
  <2>1. CalmEngine
    BY <1>2 DEF CheckReady, AddErrorIf, CalmEngine, TInv, EngineType
  <2>. QED BY <1>2, <2>1, CalmUnchanged, CalmMove DEF CheckReady, notEngine, Calm,
     ReportLabels, HalfDone
<1>3. CASE Load(c)
  <2>1. CalmEngine
    BY <1>3, SetStateQuiet DEF Load, AddErrorIf, CalmEngine, TInv, EngineType
  <2>. QED BY <1>3, <2>1, CalmUnchanged, CalmMove DEF Load, Calm, ReportLabels, HalfDone
<1>4. CASE LoadFailed(c)
  <2>1. CalmEngine
    BY <1>4 DEF LoadFailed, CalmEngine, TInv, EngineType
  <2>. QED BY <1>4, <2>1, CalmUnchanged, CalmMove DEF LoadFailed, Calm, ReportLabels, HalfDone
<1>5. CASE Loaded(c)
  BY <1>5, CalmUnchanged, CalmMove DEF Loaded, notPc, Calm, ReportLabels, HalfDone
<1>6. CASE CallCancel(c)
  <2>1. CalmEngine
    BY <1>6 DEF CallCancel, CalmEngine, TInv, EngineType
  <2>. QED BY <1>6, <2>1, CalmUnchanged, CalmStopCall DEF CallCancel, CallOver, Calm,
     ReportLabels, HalfDone
<1>7. CASE PlayAll(c)
  BY <1>7, CalmUnchanged, CalmMove DEF PlayAll, Calm, ReportLabels, HalfDone
<1>8. CASE ArmOwned(c)
  BY <1>8, CalmUnchanged, CalmMove DEF ArmOwned, ArmWaitEnter, notMt, Calm, ReportLabels,
     HalfDone
<1>9. CASE ArmLocal(c)
  BY <1>9, CalmUnchanged, CalmMove DEF ArmLocal, ArmWaitEnter, notMt, Calm, ReportLabels,
     HalfDone
<1>10. CASE ArmOwnedWait(c)
  BY <1>10, CalmUnchanged, CalmMove DEF ArmOwnedWait, ArmWaitDone, notPc, Calm, ReportLabels,
     HalfDone
<1>11. CASE ArmLocalWait(c)
  BY <1>11, CalmUnchanged, CalmMove DEF ArmLocalWait, ArmWaitDone, notPc, Calm, ReportLabels,
     HalfDone
<1>12. CASE ArmStopped(c)
  BY <1>12, CalmUnchanged, CalmMove DEF ArmStopped, notPc, CallOver, Calm, ReportLabels,
     HalfDone
<1>13. CASE ArmLate(c)
  <2>1. CalmEngine
    BY <1>13 DEF ArmLate, AddErrorIf, CalmEngine, TInv, EngineType
  <2>. QED BY <1>13, <2>1, CalmUnchanged, CalmMove DEF ArmLate, notEngine, Calm,
     ReportLabels, HalfDone
<1>14. CASE ArmedOwned(c)
  BY <1>14, CalmUnchanged, CalmMove DEF ArmedOwned, notMt, CallOver, Calm, ReportLabels,
     HalfDone
<1>15. CASE Spawn(c)
  BY <1>15, CalmUnchanged, CalmStopCall, CalmMove DEF Spawn, Calm, ReportLabels, HalfDone
<1>16. CASE Join(c)
  <2>1. CalmPc
    BY <1>16 DEF Join, CalmPc, TInv, PcInv, PcType, At, ReportLabels, HalfDone, Threads
  <2>. QED BY <1>16, <2>1, CalmUnchanged DEF Join, Calm, ReportLabels, HalfDone
<1>17. CASE RequestTrigger(c)
  BY <1>17, CalmUnchanged, CalmMove DEF RequestTrigger, notPc, Calm, ReportLabels, HalfDone
<1>18. CASE ServerTrigger(c)
  BY <1>18, CalmUnchanged, CalmMove DEF ServerTrigger, notPc, CallOver, Calm, ReportLabels,
     HalfDone
<1>19. CASE Trigger(c)
  <2>1. CalmEngine
    BY <1>19, SetStateQuiet DEF Trigger, CalmEngine, TInv, EngineType
  <2>. QED BY <1>19, <2>1, CalmUnchanged, CalmMove DEF Trigger, notEngine, CallOver, Calm,
     ReportLabels, HalfDone
<1>20. CASE NotifyTrigger(c)
  BY <1>20, CalmUnchanged, CalmMove DEF NotifyTrigger, CallOver, Calm, ReportLabels, HalfDone
<1>. QED BY <1>1, <1>2, <1>3, <1>4, <1>5, <1>6, <1>7, <1>8, <1>9, <1>10, <1>11, <1>12, <1>13,
   <1>14, <1>15, <1>16, <1>17, <1>18, <1>19, <1>20 DEF CallStep

\* So is the play thread.
LEMMA CalmPlay == ASSUME TInv, PlayStep PROVE Calm
<1> USE ThreadsFacts
<1>1. CASE Arm
  <2>1. CalmEngine
    BY <1>1, SetStateQuiet DEF Arm, AddErrorIf, CalmEngine, TInv, EngineType
  <2>. QED BY <1>1, <2>1, CalmUnchanged, CalmMove DEF Arm, notEngine, Calm, ReportLabels,
     HalfDone
<1>2. CASE ArmError
  <2>1. CalmEngine
    BY <1>2 DEF ArmError, CalmEngine, TInv, EngineType
  <2>. QED BY <1>2, <2>1, CalmUnchanged, CalmStopCall DEF ArmError, Calm, ReportLabels, HalfDone
<1>3. CASE ArmStop
  BY <1>3, CalmUnchanged, CalmMove DEF ArmStop, notMt, Calm, ReportLabels, HalfDone
<1>4. CASE Ready
  BY <1>4, CalmUnchanged, CalmMove DEF Ready, notMt, Calm, ReportLabels, HalfDone
<1>5. CASE TrigLock
  BY <1>5, CalmUnchanged, CalmMove DEF TrigLock, notLocks, Calm, ReportLabels, HalfDone
<1>6. CASE TrigCheck
  BY <1>6, CalmUnchanged, CalmMove DEF TrigCheck, notLocks, Calm, ReportLabels, HalfDone
<1>7. CASE TrigSleep
  BY <1>7, CalmUnchanged, CalmMove DEF TrigSleep, notLocks, Calm, ReportLabels, HalfDone
<1>8. CASE TrigWoken
  BY <1>8, CalmUnchanged, CalmMove DEF TrigWoken, notLocks, Calm, ReportLabels, HalfDone
<1>9. CASE Fired
  BY <1>9, CalmUnchanged, CalmMove DEF Fired, notMt, Calm, ReportLabels, HalfDone
<1>10. CASE PlayLock
  <2>1. CalmEngine
    BY <1>10, SetStateQuiet DEF PlayLock, AddErrorIf, CalmEngine, TInv, EngineType
  <2>2. CalmPc
    BY <1>10 DEF PlayLock, CalmPc, TInv, PcInv, PcType, At, ReportLabels, HalfDone, Threads
  <2>. QED BY <1>10, <2>1, <2>2, CalmUnchanged DEF PlayLock, Calm, ReportLabels, HalfDone
<1>11. CASE NextEvent
  BY <1>11, CalmUnchanged, CalmMove DEF NextEvent, notLocks, Calm, ReportLabels, HalfDone
<1>12. CASE Sleep
  BY <1>12, CalmUnchanged, CalmMove DEF Sleep, Calm, ReportLabels, HalfDone
<1>13. CASE Fire
  <2>1. CalmEngine
    BY <1>13, SetStateQuiet DEF Fire, AddErrorIf, CalmEngine, TInv, EngineType
  <2>. QED BY <1>13, <2>1, CalmUnchanged, CalmMove DEF Fire, Calm, ReportLabels, HalfDone
<1>14. CASE EventsDone
  BY <1>14, CalmUnchanged, CalmMove DEF EventsDone, Calm, ReportLabels, HalfDone
<1>15. CASE JoinMeasure
  BY <1>15, CalmUnchanged, CalmMove DEF JoinMeasure, notLocks, Calm, ReportLabels, HalfDone
<1>16. CASE AllLock
  BY <1>16, CalmUnchanged, CalmMove DEF AllLock, notLocks, Calm, ReportLabels, HalfDone
<1>17. CASE AllCheck
  BY <1>17, CalmUnchanged, CalmMove DEF AllCheck, Calm, ReportLabels, HalfDone
<1>18. CASE AllWoken
  BY <1>18, CalmUnchanged, CalmMove DEF AllWoken, notLocks, Calm, ReportLabels, HalfDone
<1>19. CASE AllTimeout
  BY <1>19, CalmUnchanged, CalmMove DEF AllTimeout, notLocks, Calm, ReportLabels, HalfDone
<1>20. CASE AllGrace
  BY <1>20, CalmUnchanged, CalmMove DEF AllGrace, notPc, Calm, ReportLabels, HalfDone
<1>21. CASE AllGiveUp
  <2>1. CalmEngine
    BY <1>21 DEF AllGiveUp, AddErrorIf, AllPlayed, CalmEngine, TInv, EngineType
  <2>. QED BY <1>21, <2>1, CalmUnchanged, CalmMove DEF AllGiveUp, Calm, ReportLabels, HalfDone
<1>22. CASE After
  BY <1>22, CalmUnchanged, CalmStopCall, CalmMove DEF After, Calm, ReportLabels, HalfDone
<1>23. CASE Final
  <2>1. CalmEngine
    BY <1>23, SetStateQuiet DEF Final, CalmEngine, TInv, EngineType
  <2>. QED BY <1>23, <2>1, CalmUnchanged, CalmMove DEF Final, notEngine, Calm, ReportLabels,
     HalfDone
<1>24. CASE NotifyComplete
  BY <1>24, CalmUnchanged, CalmMove DEF NotifyComplete, notLocks, Calm, ReportLabels, HalfDone
<1>. QED BY <1>1, <1>2, <1>3, <1>4, <1>5, <1>6, <1>7, <1>8, <1>9, <1>10, <1>11, <1>12, <1>13,
   <1>14, <1>15, <1>16, <1>17, <1>18, <1>19, <1>20, <1>21, <1>22, <1>23, <1>24 DEF PlayStep

ReportStep == Prepare \/ RefuseAbstract \/ CompleteCheck \/ Save \/ SendComplete
                \/ CancelLate \/ Finish \/ EndJob

\* So is the job thread while it prepares the play and waits for it.
LEMMA CalmJob == ASSUME TInv, JobStep, ~ReportStep PROVE Calm
<1> USE ThreadsFacts
<1>1. CASE WaitReady
  BY <1>1, CalmUnchanged, CalmMove DEF WaitReady, notLocks, Calm, ReportLabels, HalfDone
<1>2. CASE ReadyWoken
  BY <1>2, CalmUnchanged, CalmMove DEF ReadyWoken, notLocks, Calm, ReportLabels, HalfDone
<1>3. CASE ReadyTimeout
  BY <1>3, CalmUnchanged, CalmMove DEF ReadyTimeout, notLocks, Calm, ReportLabels, HalfDone
<1>4. CASE ReadyQueried
  <2>1. CalmEngine
    BY <1>4 DEF ReadyQueried, AddErrorIf, CalmEngine, TInv, EngineType
  <2>. QED BY <1>4, <2>1, CalmUnchanged, CalmMove DEF ReadyQueried, Calm, ReportLabels, HalfDone
<1>5. CASE SetReady
  <2>1. CalmEngine
    BY <1>5, SetStateQuiet DEF SetReady, AddErrorIf, SetStateOk, CalmEngine, TInv, EngineType
  <2>. QED BY <1>5, <2>1, CalmUnchanged, CalmMove DEF SetReady, notEngine, Calm,
     ReportLabels, HalfDone
<1>6. CASE MakeTrigger
  BY <1>6, CalmUnchanged, CalmMove DEF MakeTrigger, notMt, Calm, ReportLabels, HalfDone
<1>7. CASE SendReady
  <2>1. CalmEngine
    BY <1>7 DEF SendReady, AddErrorIf, CalmEngine, TInv, EngineType
  <2>. QED BY <1>7, <2>1, CalmUnchanged, CalmMove DEF SendReady, Calm, ReportLabels, HalfDone
<1>8. CASE CancelJob
  <2>1. CalmEngine
    BY <1>8 DEF CancelJob, CalmEngine, TInv, EngineType
  <2>. QED BY <1>8, <2>1, CalmUnchanged, CalmStopCall DEF CancelJob, Calm, ReportLabels,
     HalfDone
<1>9. CASE Complete
  BY <1>9, CalmUnchanged, CalmMove DEF Complete, notLocks, Calm, ReportLabels, HalfDone
<1>10. CASE CompleteSleep
  BY <1>10, CalmUnchanged, CalmMove DEF CompleteSleep, notLocks, Calm, ReportLabels, HalfDone
<1>11. CASE CompleteWoken
  BY <1>11, CalmUnchanged, CalmMove DEF CompleteWoken, notLocks, Calm, ReportLabels, HalfDone
<1>. QED BY <1>1, <1>2, <1>3, <1>4, <1>5, <1>6, <1>7, <1>8, <1>9, <1>10, <1>11 DEF JobStep,
   ReportStep

\* So are the measurement thread, the devices, the messages, and the start of a stop().
LEMMA CalmOthers ==
    ASSUME TInv,
    MeasureStep \/ TargetStep \/ HandlerDone \/ UserStop \/ ServerCall \/ UNCHANGED vars
    PROVE  Calm
<1> USE ThreadsFacts
<1>1. CASE Collect
  <2>1. CalmEngine
    BY <1>1, SetStateQuiet DEF Collect, AddErrorIf, CalmEngine, TInv, EngineType
  <2>. QED BY <1>1, <2>1, CalmUnchanged, CalmMove DEF Collect, Calm, HalfDone
<1>2. CASE Collected
  BY <1>2, CalmUnchanged, CalmMove DEF Collected, notPc, Calm, HalfDone
<1>3. CASE TargetStep
  <2>1. ASSUME NEW t \in Targets, TargetReady(t) \/ TargetArm(t) \/ TargetComplete(t) PROVE Calm
    BY <2>1, CalmUnchanged DEF TargetReady, TargetArm, TargetComplete, Calm
  <2>2. ASSUME NEW m \in inbox, DeliverReady(m) PROVE Calm
    BY <2>2, CalmUnchanged DEF DeliverReady, Calm
  <2>3. ASSUME NEW m \in inbox, DeliverComplete(m) PROVE Calm
    BY <2>3, CalmUnchanged, CalmStopCall DEF DeliverComplete, Calm, HalfDone
  <2>. QED BY <1>3, <2>1, <2>2, <2>3 DEF TargetStep
<1>4. CASE HandlerDone
  BY <1>4, CalmUnchanged, CalmMove DEF HandlerDone, notLocks, Calm, HalfDone
<1>5. CASE UserStop
  <2>1. CalmStop
    BY <1>5 DEF UserStop, TInv, StopType, CalmStop, Threads
  <2>. QED BY <1>5, <2>1, CalmUnchanged, CalmMove DEF UserStop, Calm, HalfDone
<1>6. CASE ServerCall
  BY <1>6, CalmUnchanged, CalmMove DEF ServerCall, Calm, HalfDone
<1>7. CASE UNCHANGED vars
  BY <1>7, CalmUnchanged DEF vars, Calm
<1>. QED BY <1>1, <1>2, <1>3, <1>4, <1>5, <1>6, <1>7 DEF MeasureStep

\* A stop() that will set cancelled is on its way.
Halting(th)  == pc[th] \in HalfDone /\ Aborts(th)
BeingStopped == cancelled \/ \E th \in Threads : Halting(th)

\* stop() returns to the job thread outside its report; a recorded stop is being acted on;
\* and so is one that the saved result speaks of.
StopsBack    == ret["job"] \notin ReportLabels
StopRecorded == "Canceled" \in errs => BeingStopped
SavedResult  == pc["job"] \in ReportLabels \ {"save"} =>
                    BeingStopped \/ result[shot] \in {"Success", "CompletedWithErrors"}

ReportInv == TInv /\ StopsBack /\ JobReturnsQuiescent /\ StopRecorded /\ SavedResult

\* Nothing is stopped or saved before the first job.
LEMMA ReportInvInit == Init => ReportInv
BY TInvInit DEF Init, ReportInv, StopsBack, JobReturnsQuiescent, Reporting, ReportLabels,
   StopRecorded,
   SavedResult, Threads

\* A calm step keeps the invariant.
LEMMA ReportInvCalm == ASSUME ReportInv, TInv', Calm PROVE ReportInv'
<1>1. BeingStopped => BeingStopped'
  BY DEF BeingStopped, Halting, Aborts, Calm, CalmEngine, CalmStop, CalmPc
<1>2. StopsBack' /\ JobReturnsQuiescent'
  BY DEF ReportInv, StopsBack, JobReturnsQuiescent, Reporting, Calm, CalmEngine, CalmStop,
     CalmPc
<1>3. StopRecorded' /\ SavedResult'
  BY <1>1 DEF ReportInv, StopRecorded, SavedResult, Calm, CalmEngine, CalmPc
<1>. QED BY <1>2, <1>3 DEF ReportInv

\* A stop() that will set cancelled goes on until it has.
LEMMA StopKeepsHalting ==
    ASSUME NEW th \in Threads, TInv, Stop(th), BeingStopped PROVE BeingStopped'
<1>1. CASE cancelled
  BY <1>1, StopSteps DEF BeingStopped
<1>2. ASSUME NEW u \in Threads, Halting(u) PROVE BeingStopped'
  <2>1. CASE u # th
    BY <1>2, <2>1, StopSteps DEF BeingStopped, Halting, Aborts
  <2>2. CASE u = th
    BY <1>2, <2>2
       DEF Stop, StopRead, StopSet, StopCancel, StopTrigger, StopRelease, StopEvents, StopReturn,
           BeingStopped, Halting, Aborts, HalfDone, Move, At, Goto, TInv, PcInv, PcType
  <2>. QED BY <2>1, <2>2
<1>. QED BY <1>1, <1>2 DEF BeingStopped

\* The steps of a stop().
LEMMA ReportInvStop == ASSUME NEW th \in Threads, ReportInv, TInv', Stop(th) PROVE ReportInv'
<1>0. TInv
  BY DEF ReportInv
<1>1. CASE StopRead(th)
  <2>1. BeingStopped => BeingStopped'
    BY <1>1, <1>0 DEF StopRead, BeingStopped, Halting, Aborts, HalfDone, Move, At, Goto,
       TInv, PcInv, PcType, StopType
  <2>2. state \in PlayStates => Halting(th)'
    BY <1>1, <1>0 DEF StopRead, Halting, Aborts, HalfDone, Move, At, Goto, TInv, PcInv,
       PcType, StopType
  <2>3. StopRecorded'
    BY <1>1, <2>1, <2>2 DEF StopRead, AddErrorIf, ReportInv, StopRecorded, BeingStopped
  <2>4. pc'["job"] \in ReportLabels => pc'["job"] = pc["job"]
    BY <1>1, <1>0 DEF StopRead, Move, At, Goto, TInv, PcInv, PcType, ReportLabels, Threads
  <2>5. result' = result /\ shot' = shot /\ state' = state /\ ret' = ret
    BY <1>1 DEF StopRead, jobVars
  <2>. QED BY <2>1, <2>3, <2>4, <2>5 DEF ReportInv, StopsBack, JobReturnsQuiescent,
     Reporting, SavedResult
<1>2. CASE ~StopRead(th)
  <2>1. BeingStopped => BeingStopped'
    BY <1>0, <1>2, StopKeepsHalting
  <2>2. state' \in PlayStates => state \in PlayStates
    BY <1>2, <1>0, SetStateQuiet, StopSteps DEF StopSet, TInv, EngineType
  <2>3. pc'["job"] \in ReportLabels => pc'["job"] = pc["job"]
    <3>1. CASE th = "job"
      BY <1>0, <3>1, StopSteps DEF ReportInv, StopsBack, ReportLabels, StopLabels
    <3>2. CASE th # "job"
      BY <1>0, <3>2, StopSteps, ThreadsFacts
    <3>. QED BY <3>1, <3>2
  <2>4. result' = result /\ shot' = shot /\ errs' = errs /\ ret' = ret
    BY <1>0, <1>2, StopSteps DEF jobVars
  <2>. QED BY <2>1, <2>2, <2>3, <2>4 DEF ReportInv, StopsBack, JobReturnsQuiescent,
     Reporting, StopRecorded, SavedResult
<1>. QED BY <1>1, <1>2

\* The steps of the job thread that begin a job, end its wait and report it.
LEMMA ReportInvReport == ASSUME ReportInv, TInv', ReportStep PROVE ReportInv'
<1>0. TInv
  BY DEF ReportInv
<1> USE ThreadsFacts
<1>1. CASE Prepare
  <2>1. pc'["job"] = "waitReady" /\ ret' = ret /\ "Canceled" \notin errs'
    BY <1>1, <1>0 DEF Prepare, stopVars, Move, Goto, TInv, PcInv, PcType
  <2>. QED BY <2>1 DEF ReportInv, StopsBack, JobReturnsQuiescent, Reporting, ReportLabels,
     StopRecorded, SavedResult
<1>2. CASE RefuseAbstract
  <2>1. ret' = ret /\ "Canceled" \notin errs' /\ cancelled'
    BY <1>2 DEF RefuseAbstract, stopVars
  <2>2. state' \notin PlayStates
    BY <1>2, <1>0 DEF RefuseAbstract, SetState, IsAllowedTransition, Edges, PlayStates,
       NormalStates
  <2>. QED BY <2>1, <2>2 DEF ReportInv, StopsBack, JobReturnsQuiescent, StopRecorded,
     SavedResult, BeingStopped
<1>3. CASE CompleteCheck
  <2>1. BeingStopped => BeingStopped'
    BY <1>3, <1>0 DEF CompleteCheck, notLocks, engineVars, stopVars, BeingStopped, Halting,
       Aborts, HalfDone, Move, At, Goto,
       TInv, PcInv, PcType
  <2>2. pc'["job"] = "completeSleep" \/ (pc'["job"] = "save" /\ state \notin PlayStates)
    BY <1>3, <1>0 DEF CompleteCheck, PlayNotOver, Move, Goto, TInv, PcInv, PcType
  <2>3. ret' = ret /\ errs' = errs /\ state' = state
    BY <1>3 DEF CompleteCheck, notLocks, engineVars, stopVars
  <2>. QED BY <2>1, <2>2, <2>3 DEF ReportInv, StopsBack, JobReturnsQuiescent, Reporting,
     ReportLabels, StopRecorded,
       SavedResult
<1>4. CASE Save
  <2>1. BeingStopped => BeingStopped'
    BY <1>4, <1>0 DEF Save, engineVars, stopVars, BeingStopped, Halting, Aborts, HalfDone,
       Move, At, Goto, TInv, PcInv, PcType
  <2>2. ret' = ret /\ errs' = errs /\ state' = state /\ shot' = shot /\ Reporting
    BY <1>4 DEF Save, engineVars, stopVars, Move, At, Reporting, ReportLabels
  <2>3. ~BeingStopped => "Canceled" \notin errs /\ ~cancelled
    BY DEF ReportInv, StopRecorded, BeingStopped
  <2>4. shot \in Shots
    BY <1>4, <1>0 DEF Save, Move, At, TInv, PcInv, JobType
  <2>5. ~BeingStopped => result'[shot] \in {"Success", "CompletedWithErrors"}
    BY <1>4, <1>0, <2>3, <2>4 DEF Save, ShotStatus, TInv, JobType
  <2>. QED BY <2>1, <2>2, <2>5 DEF ReportInv, StopsBack, JobReturnsQuiescent, StopRecorded,
     SavedResult
<1>5. CASE SendComplete \/ CancelLate \/ Finish \/ EndJob
  <2>1. BeingStopped => BeingStopped'
    BY <1>5, <1>0 DEF SendComplete, CancelLate, Finish, EndJob, notPc, notEngine, engineVars,
       stopVars, BeingStopped, Halting,
       Aborts, HalfDone, Move, At, Goto, TInv, PcInv, PcType
  <2>2. ret' = ret /\ errs' = errs /\ state' = state /\ shot' = shot /\ result' = result
    BY <1>5 DEF SendComplete, CancelLate, Finish, EndJob, notPc, notEngine, engineVars,
       stopVars, jobVars
  <2>3. pc["job"] \in ReportLabels \ {"save"}
    BY <1>5 DEF SendComplete, CancelLate, Finish, EndJob, Move, At, ReportLabels
  <2>. QED BY <2>1, <2>2, <2>3 DEF ReportInv, StopsBack, JobReturnsQuiescent, Reporting,
     StopRecorded, SavedResult
<1>. QED BY <1>1, <1>2, <1>3, <1>4, <1>5 DEF ReportStep

\* Every step keeps the invariant: calm, or argued for above.
LEMMA ReportInvNext == ReportInv /\ [Next]_vars => ReportInv'
<1>. SUFFICES ASSUME ReportInv, [Next]_vars PROVE ReportInv'
  OBVIOUS
<1>1. TInv /\ TInv'
  BY TInvNext DEF ReportInv
<1>2. CASE StartJob
  <2>1. pc'["job"] = "prepare" /\ ret' = ret /\ errs' = errs
    BY <1>1, <1>2, ThreadsFacts DEF StartJob, engineVars, stopVars, Move, Goto, TInv, PcInv,
       PcType
  <2>2. BeingStopped => BeingStopped'
    BY <1>1, <1>2 DEF StartJob, engineVars, stopVars, BeingStopped, Halting, Aborts,
       HalfDone, Move, At, Goto, TInv, PcInv,
       PcType
  <2>. QED BY <1>1, <2>1, <2>2 DEF ReportInv, StopsBack, JobReturnsQuiescent, Reporting,
     ReportLabels, StopRecorded,
       SavedResult
<1>3. CASE JobStep
  BY <1>1, <1>3, CalmJob, ReportInvCalm, ReportInvReport
<1>4. CASE CallStep(Caller)
  BY <1>1, <1>4, CalmCall, ReportInvCalm DEF Caller
<1>5. CASE PlayStep
  BY <1>1, <1>5, CalmPlay, ReportInvCalm
<1>6. CASE \E th \in Threads \ {"measure"} : Stop(th)
  BY <1>1, <1>6, ReportInvStop
<1>7. CASE MeasureStep \/ TargetStep \/ HandlerDone \/ UserStop \/ ServerCall \/ UNCHANGED vars
  BY <1>1, <1>7, CalmOthers, ReportInvCalm
<1>. QED BY <1>2, <1>3, <1>4, <1>5, <1>6, <1>7 DEF Next

\* Once waitForPlayComplete has returned, no thread, device, message or stop brings the
\* engine back into a play state before the job is reported.
THEOREM QuiescentReturn == Spec => []JobReturnsQuiescent
<1>1. Spec => []ReportInv
  BY ReportInvInit, ReportInvNext, PTL DEF Spec
<1>2. ReportInv => JobReturnsQuiescent
  BY DEF ReportInv
<1>. QED BY <1>1, <1>2, PTL

\* The scheduler hears Completed only of a shot whose result says that it was neither
\* cancelled nor aborted, unless a stop() is caught between its test and its flag.
THEOREM ReportFollowsResult == Spec => ReportMatchesResult
<1> DEFINE Report == \A s \in Shots : jobEnd[s] # "Completed" /\ jobEnd'[s] = "Completed" =>
                         StopHalfDone \/ result[s] \in {"Success", "CompletedWithErrors"}
<1>1. ASSUME ReportInv, [Next]_vars PROVE [Report]_vars
  <2>0. TInv
    BY <1>1 DEF ReportInv
  <2>1. CASE EndJob
    <3>1. SUFFICES ASSUME NEW s \in Shots, jobEnd[s] # "Completed", jobEnd'[s] = "Completed"
                   PROVE  StopHalfDone \/ result[s] \in {"Success", "CompletedWithErrors"}
      OBVIOUS
    <3>2. s = shot /\ ~cancelled /\ pc["job"] = "end"
      BY <2>0, <2>1, <3>1 DEF EndJob, Move, At, TInv, JobType
    <3>3. BeingStopped => StopHalfDone
      BY <3>2 DEF BeingStopped, Halting, HalfDone, StopHalfDone
    <3>. QED BY <1>1, <3>2, <3>3 DEF ReportInv, SavedResult, ReportLabels
  <2>3. CASE \E th \in Threads \ {"measure"} : Stop(th)
    <3>1. jobEnd' = jobEnd
      BY <2>0, <2>3, StopSteps DEF jobVars
    <3>. QED BY <3>1
  <2>4. CASE JobStep /\ ~EndJob
    <3>1. jobEnd' = jobEnd
      <4>1. CASE ReportStep
        BY <2>4, <4>1 DEF ReportStep, Prepare, RefuseAbstract, CompleteCheck, Save,
           SendComplete, CancelLate, Finish,
           notLocks, notPc, notEngine, jobVars
      <4>2. CASE ~ReportStep
        BY <2>0, <2>4, <4>2, CalmJob DEF Calm
      <4>. QED BY <4>1, <4>2
    <3>. QED BY <3>1
  <2>5. CASE StartJob
    BY <2>5 DEF StartJob
  <2>6. CASE CallStep(Caller)
    BY <2>0, <2>6, CalmCall DEF Caller, Calm
  <2>7. CASE PlayStep
    BY <2>0, <2>7, CalmPlay DEF Calm
  <2>8. CASE MeasureStep \/ TargetStep \/ HandlerDone \/ UserStop \/ ServerCall \/ UNCHANGED vars
    BY <2>0, <2>8, CalmOthers DEF Calm
  <2>. QED BY <1>1, <2>1, <2>3, <2>4, <2>5, <2>6, <2>7, <2>8 DEF Next
<1>2. Spec => []ReportInv
  BY ReportInvInit, ReportInvNext, PTL DEF Spec
<1>. QED BY <1>1, <1>2, PTL DEF Spec, ReportMatchesResult

-----------------------------------------------------------------------------
(* What an engine and its owned devices know of each other. *)

\* The types hold in every state.
LEMMA TInvHolds == Spec => []TInv
BY TInvInit, TInvNext, PTL DEF Spec

-----------------------------------------------------------------------------
(* The answers of the owned devices.  Most steps are quiet: they leave alone   *)
(* what the engine knows of its devices' answers, ask no device for anything,  *)
(* begin no job, and do not make the engine PlayReady.                         *)

PhasesKeep ==
    \A t \in Targets : tgt'[t].shot = tgt[t].shot
                       /\ (tgt'[t].phase = "asked" => tgt[t].phase = "asked")
QuietState == state' = "PlayReady" => state = "PlayReady"
QuietJob   == pc'["job"] = "prepare" => pc["job"] = "prepare"
QuietStop  == ret'["job"] = "prepare" => ret["job"] = "prepare"
Quiet == PhasesKeep /\ QuietState /\ QuietJob /\ QuietStop
         /\ UNCHANGED <<shot, activeShot, playReady, inbox>>

\* No setState() but the job thread's own asks for PlayReady.
LEMMA SetStateUnready ==
    ASSUME NEW from \in EngineState,
           NEW target \in {"Parsed", "PreparingPlay", "WaitingForTrigger", "Playing", "Error"}
    PROVE  /\ SetState(from, target) = "PlayReady" => from = "PlayReady"
           /\ SetStateOr(from, target, "Error") = "PlayReady" => from = "PlayReady"
BY DEF SetState, SetStateOr

\* What leaves a group of variables alone is quiet about it.
LEMMA QuietUnchanged ==
    /\ UNCHANGED state => QuietState
    /\ UNCHANGED tgt => PhasesKeep
    /\ UNCHANGED pc => QuietJob
    /\ UNCHANGED stopVars => QuietStop
    /\ UNCHANGED ret => QuietStop
BY DEF QuietState, PhasesKeep, QuietJob, QuietStop, stopVars

LEMMA QuietMove ==
    ASSUME TInv, NEW th \in Threads, NEW from, NEW to, Move(th, from, to),
           th = "job" => to # "prepare"
    PROVE  QuietJob
BY DEF TInv, PcInv, PcType, Move, At, Goto, QuietJob, Threads

\* A call of stop() does not return to the beginning of the job.
LEMMA QuietStopCall ==
    ASSUME TInv, NEW th \in Threads, NEW from, NEW back, StopCall(th, from, back),
           back # "prepare"
    PROVE  QuietJob /\ QuietStop
<1>1. QuietJob
  BY QuietMove DEF StopCall
<1>2. QuietStop
  BY DEF TInv, StopType, StopCall, QuietStop, Threads
<1> QED BY <1>1, <1>2

LEMMA QuietCall == ASSUME NEW c \in {"job", "server"}, TInv, CallStep(c) PROVE Quiet
<1> USE ThreadsFacts
<1>1. c \in Threads /\ CallOver # "prepare" /\ state \in EngineState
  BY DEF CallOver, TInv, EngineType
<1>2. CASE ClearMessages(c) \/ CheckReady(c) \/ Loaded(c) \/ ArmStopped(c) \/ ArmLate(c)
  BY <1>1, <1>2, QuietUnchanged, QuietMove
     DEF ClearMessages, CheckReady, Loaded, ArmStopped, ArmLate, notEngine, notPc, engineVars,
         targetVars, jobVars, Quiet
<1>3. CASE Load(c)
  <2>1. QuietState
    BY <1>1, <1>3, SetStateUnready DEF Load, QuietState
  <2> QED BY <1>1, <1>3, <2>1, QuietUnchanged, QuietMove DEF Load, targetVars, jobVars, Quiet
<1>4. CASE LoadFailed(c) \/ CallCancel(c)
  BY <1>1, <1>4, QuietUnchanged, QuietMove, QuietStopCall
     DEF LoadFailed, CallCancel, targetVars, jobVars, Quiet
<1>5. CASE PlayAll(c)
  <2>1. PhasesKeep
    BY <1>5 DEF PlayAll, PhasesKeep, TInv, TargetInv, TargetType
  <2> QED BY <1>1, <1>5, <2>1, QuietUnchanged, QuietMove DEF PlayAll, engineVars, jobVars, Quiet
<1>6. CASE ArmOwned(c) \/ ArmOwnedWait(c) \/ ArmLocal(c) \/ ArmLocalWait(c)
  BY <1>1, <1>6, QuietUnchanged, QuietMove
     DEF ArmOwned, ArmOwnedWait, ArmLocal, ArmLocalWait, ArmWaitEnter, ArmWaitDone, notMt, notPc,
         engineVars, targetVars, jobVars, Quiet
<1>7. CASE ArmedOwned(c) \/ RequestTrigger(c) \/ ServerTrigger(c)
  BY <1>1, <1>7, QuietUnchanged, QuietMove
     DEF ArmedOwned, RequestTrigger, ServerTrigger, notMt, notPc, engineVars, targetVars, jobVars,
         Quiet
<1>8. CASE Spawn(c)
  BY <1>1, <1>8, QuietUnchanged, QuietMove, QuietStopCall
     DEF Spawn, engineVars, targetVars, jobVars, Quiet
<1>9. CASE Join(c)
  <2>1. QuietJob
    BY <1>9 DEF Join, QuietJob, TInv, PcInv, PcType
  <2> QED BY <1>9, <2>1, QuietUnchanged DEF Join, engineVars, targetVars, jobVars, Quiet
<1>10. CASE Trigger(c)
  <2>1. QuietState
    BY <1>1, <1>10, SetStateUnready DEF Trigger, QuietState
  <2> QED BY <1>1, <1>10, <2>1, QuietUnchanged, QuietMove
          DEF Trigger, notEngine, targetVars, jobVars, Quiet
<1>11. CASE NotifyTrigger(c)
  <2>1. PhasesKeep
    BY <1>11 DEF NotifyTrigger, PhasesKeep, TInv, TargetInv, TargetType
  <2> QED BY <1>1, <1>11, <2>1, QuietUnchanged, QuietMove
          DEF NotifyTrigger, engineVars, jobVars, Quiet
<1> QED BY <1>2, <1>3, <1>4, <1>5, <1>6, <1>7, <1>8, <1>9, <1>10, <1>11 DEF CallStep

LEMMA QuietPlay == ASSUME TInv, PlayStep \/ MeasureStep PROVE Quiet
<1> USE ThreadsFacts
<1>1. state \in EngineState
  BY DEF TInv, EngineType
<1>2. CASE Arm \/ Final
  <2>1. QuietState
    BY <1>1, <1>2, SetStateUnready DEF Arm, Final, QuietState
  <2> QED BY <1>2, <2>1, QuietUnchanged, QuietMove
          DEF Arm, Final, notEngine, targetVars, jobVars, Quiet
<1>3. CASE ArmError \/ After
  BY <1>3, QuietUnchanged, QuietMove, QuietStopCall
     DEF ArmError, After, engineVars, targetVars, jobVars, Quiet
<1>4. CASE ArmStop \/ Ready \/ Fired
  BY <1>4, QuietUnchanged, QuietMove
     DEF ArmStop, Ready, Fired, notMt, engineVars, targetVars, jobVars, Quiet
<1>5. CASE TrigLock \/ TrigCheck \/ TrigSleep \/ TrigWoken
  BY <1>5, QuietUnchanged, QuietMove
     DEF TrigLock, TrigCheck, TrigSleep, TrigWoken, notLocks, engineVars, targetVars, jobVars, Quiet
<1>6. CASE PlayLock
  <2>1. QuietState
    BY <1>1, <1>6, SetStateUnready DEF PlayLock, QuietState
  <2>2. QuietJob
    BY <1>6 DEF PlayLock, QuietJob, TInv, PcInv, PcType
  <2> QED BY <1>6, <2>1, <2>2, QuietUnchanged DEF PlayLock, targetVars, jobVars, Quiet
<1>7. CASE NextEvent \/ JoinMeasure \/ AllLock \/ AllWoken \/ AllTimeout \/ NotifyComplete
  BY <1>7, QuietUnchanged, QuietMove
     DEF NextEvent, JoinMeasure, AllLock, AllWoken, AllTimeout, NotifyComplete, notLocks,
         engineVars, targetVars, jobVars, Quiet
<1>8. CASE Sleep \/ EventsDone \/ AllCheck \/ AllGrace
  BY <1>8, QuietUnchanged, QuietMove
     DEF Sleep, EventsDone, AllCheck, AllGrace, notPc, engineVars, targetVars, jobVars, Quiet
<1>9. CASE Fire
  <2>1. QuietState
    BY <1>1, <1>9, SetStateUnready DEF Fire, QuietState
  <2> QED BY <1>9, <2>1, QuietUnchanged, QuietMove DEF Fire, targetVars, jobVars, Quiet
<1>10. CASE AllGiveUp
  BY <1>10, QuietUnchanged, QuietMove DEF AllGiveUp, targetVars, jobVars, Quiet
<1>11. CASE Collect
  <2>1. QuietState
    BY <1>1, <1>11, SetStateUnready DEF Collect, QuietState
  <2> QED BY <1>11, <2>1, QuietUnchanged, QuietMove DEF Collect, targetVars, jobVars, Quiet
<1>12. CASE Collected
  BY <1>12, QuietUnchanged, QuietMove DEF Collected, notPc, engineVars, targetVars, jobVars, Quiet
<1> QED BY <1>2, <1>3, <1>4, <1>5, <1>6, <1>7, <1>8, <1>9, <1>10, <1>11, <1>12
        DEF PlayStep, MeasureStep

LEMMA QuietJobStep == ASSUME TInv, JobStep, ~Prepare, ~SetReady PROVE Quiet
<1> USE ThreadsFacts
<1>1. state \in EngineState
  BY DEF TInv, EngineType
<1>2. CASE RefuseAbstract
  <2>1. QuietState
    BY <1>1, <1>2, SetStateUnready DEF RefuseAbstract, QuietState
  <2> QED BY <1>2, <2>1, QuietUnchanged, QuietMove DEF RefuseAbstract, targetVars, jobVars, Quiet
<1>3. CASE WaitReady \/ ReadyWoken \/ ReadyTimeout \/ Complete \/ CompleteCheck \/ CompleteSleep
           \/ CompleteWoken
  BY <1>3, QuietUnchanged, QuietMove
     DEF WaitReady, ReadyWoken, ReadyTimeout, Complete, CompleteCheck, CompleteSleep,
         CompleteWoken, notLocks, engineVars, targetVars, jobVars, Quiet
<1>4. CASE ReadyQueried \/ MakeTrigger \/ SendComplete \/ CancelLate
  BY <1>4, QuietUnchanged, QuietMove
     DEF ReadyQueried, MakeTrigger, SendComplete, CancelLate, notMt, notPc, notEngine, engineVars,
         targetVars, jobVars, Quiet
<1>5. CASE SendReady \/ CancelJob
  BY <1>5, QuietUnchanged, QuietMove, QuietStopCall
     DEF SendReady, CancelJob, targetVars, jobVars, Quiet
<1>6. CASE Save \/ Finish \/ EndJob
  BY <1>6, QuietUnchanged, QuietMove DEF Save, Finish, EndJob, engineVars, targetVars, Quiet
<1> QED BY <1>2, <1>3, <1>4, <1>5, <1>6 DEF JobStep

\* What the other threads do that no device notices.
LEMMA QuietOthers ==
    ASSUME TInv,
           \/ ServerCall \/ HandlerDone \/ UserStop
           \/ \E th \in Threads \ {"measure"} : Stop(th)
           \/ \E t \in Targets : TargetArm(t)
           \/ UNCHANGED vars,
           ret["job"] # "prepare"
    PROVE  Quiet
<1> USE ThreadsFacts
<1>1. CASE ServerCall \/ HandlerDone
  BY <1>1, QuietUnchanged, QuietMove
     DEF ServerCall, HandlerDone, notLocks, engineVars, targetVars, jobVars, Quiet
<1>2. CASE UserStop
  <2>1. ret' = [ret EXCEPT !["user"] = "idle"]
    BY <1>2 DEF UserStop
  <2>2. QuietStop
    BY <2>1 DEF QuietStop, TInv, StopType
  <2> QED BY <1>2, <2>2, QuietUnchanged, QuietMove
          DEF UserStop, engineVars, targetVars, jobVars, Quiet
<1>3. ASSUME NEW th \in Threads, Stop(th) PROVE Quiet
  <2>1. QuietState
    BY <1>3, SetStateUnready, StopSteps DEF StopSet, QuietState, TInv, EngineType
  <2>2. QuietJob
    BY <1>3, StopSteps DEF QuietJob, StopLabels
  <2>3. QuietStop /\ PhasesKeep
    BY <1>3, QuietUnchanged, StopSteps DEF targetVars
  <2> QED BY <1>3, <2>1, <2>2, <2>3, StopSteps DEF targetVars, jobVars, Quiet
<1>4. ASSUME NEW t \in Targets, TargetArm(t) PROVE Quiet
  <2>1. PhasesKeep
    BY <1>4 DEF TargetArm, PhasesKeep, TInv, TargetInv, TargetType
  <2> QED BY <1>4, <2>1, QuietUnchanged DEF TargetArm, engineVars, jobVars, Quiet
<1>5. CASE UNCHANGED vars
  BY <1>5, QuietUnchanged DEF vars, engineVars, targetVars, jobVars, Quiet
<1> QED BY <1>1, <1>2, <1>3, <1>4, <1>5

\* The job that begins is newer than what the devices work on; a message is of the shot its
\* device works on, or of an earlier one; and what the engine believes of them is true.
JobAhead      == /\ activeShot <= shot /\ (pc["job"] = "prepare" => activeShot < shot)
                 /\ ret["job"] # "prepare"
TargetsBehind == \A t \in Targets : tgt[t].shot <= activeShot
AnswersTrue   == \A m \in inbox :
    /\ m.shot <= tgt[m.from].shot
    /\ m.type = "PlayReady" /\ m.shot = tgt[m.from].shot => tgt[m.from].phase # "asked"
ReadyAnswered == \A t \in Targets :
    playReady[t] = "PlayReady" => tgt[t].shot = activeShot /\ tgt[t].phase # "asked"

AnswerInv == JobAhead /\ TargetsBehind /\ AnswersTrue /\ ReadyAnswered

LEMMA AnswerNumbers ==
    ASSUME TInv
    PROVE  /\ shot \in Nat /\ activeShot \in Nat
           /\ \A t \in Targets : tgt[t].shot \in Nat
           /\ \A m \in inbox : m.shot \in Nat /\ m.from \in Targets
BY BoundsAssumption DEF TInv, JobType, TargetInv, TargetType, Shots, Messages

LEMMA AnswerQuiet == ASSUME TInv, AnswerInv, Quiet PROVE AnswerInv'
<1> USE DEF Quiet
<1>1. JobAhead'
  BY DEF AnswerInv, JobAhead, QuietJob, QuietStop
<1>2. TargetsBehind'
  BY DEF AnswerInv, TargetsBehind, PhasesKeep
<1>3. AnswersTrue'
  BY AnswerNumbers DEF AnswerInv, AnswersTrue, PhasesKeep
<1>4. ReadyAnswered'
  BY DEF AnswerInv, ReadyAnswered, PhasesKeep
<1> QED BY <1>1, <1>2, <1>3, <1>4 DEF AnswerInv

LEMMA AnswerPrepare == ASSUME TInv, AnswerInv, Prepare PROVE AnswerInv'
<1> USE DEF AnswerInv
<1>1. PICK asks \in SUBSET Targets :
         tgt' = [t \in Targets |-> IF t \in asks THEN [shot |-> shot, phase |-> "asked"]
                                                  ELSE tgt[t]]
  <2>1. PICK valid \in BOOLEAN, contacted \in SUBSET Targets :
           tgt' = [t \in Targets |->
                     IF ~(~valid \/ state # "Parsed") /\ t \in contacted
                     THEN [shot |-> shot, phase |-> "asked"] ELSE tgt[t]]
    BY DEF Prepare
  <2>2. CASE ~valid \/ state # "Parsed"
    <3> WITNESS {} \in SUBSET Targets
    <3> QED BY <2>1, <2>2
  <2>3. CASE ~(~valid \/ state # "Parsed")
    <3>1. tgt' = [t \in Targets |-> IF t \in contacted THEN [shot |-> shot, phase |-> "asked"]
                                                       ELSE tgt[t]]
      BY <2>1, <2>3
    <3> QED BY <3>1
  <2> QED BY <2>2, <2>3
<1>2. activeShot < shot /\ activeShot' = shot /\ shot' = shot /\ inbox' = inbox
      /\ UNCHANGED ret /\ pc'["job"] # "prepare"
  <2>1. pc["job"] = "prepare" /\ UNCHANGED ret /\ pc'["job"] # "prepare"
    BY DEF Prepare, Move, At, Goto, stopVars, TInv, PcInv, PcType, Threads
  <2>2. activeShot' = shot /\ shot' = shot /\ inbox' = inbox
    BY DEF Prepare
  <2> QED BY <2>1, <2>2 DEF JobAhead
<1>3. \A t \in Targets : playReady'[t] # "PlayReady"
  BY DEF Prepare
<1>4. JobAhead' /\ ReadyAnswered'
  BY <1>2, <1>3, AnswerNumbers DEF JobAhead, ReadyAnswered
<1>5. TargetsBehind'
  BY <1>1, <1>2, AnswerNumbers DEF TargetsBehind
<1>6. AnswersTrue'
  <2> SUFFICES ASSUME NEW m \in inbox
               PROVE  /\ m.shot <= tgt'[m.from].shot
                      /\ m.type = "PlayReady" /\ m.shot = tgt'[m.from].shot
                            => tgt'[m.from].phase # "asked"
    BY <1>2 DEF AnswersTrue
  <2>1. m.from \in Targets /\ m.shot < shot
    BY <1>2, AnswerNumbers DEF AnswersTrue, TargetsBehind
  <2> QED BY <1>1, <2>1, AnswerNumbers DEF AnswersTrue
<1> QED BY <1>4, <1>5, <1>6

\* A device answers, or gives up: its message is of the shot it works on.
LEMMA AnswerSent ==
    ASSUME TInv, AnswerInv, NEW t \in Targets, TargetReady(t) \/ TargetComplete(t)
    PROVE  AnswerInv' /\ state' = state
<1> USE DEF AnswerInv
<1>1. UNCHANGED <<shot, activeShot, playReady, pc, ret, state>>
  BY DEF TargetReady, TargetComplete, jobVars, stopVars, engineVars
<1>2. tgt'[t].shot = tgt[t].shot /\ tgt'[t].phase # "asked"
      /\ \A u \in Targets \ {t} : tgt'[u] = tgt[u]
  BY DEF TargetReady, TargetComplete, TInv, TargetInv, TargetType
<1>3. \A m \in inbox' \ inbox : m.from = t /\ m.shot = tgt[t].shot
  BY DEF TargetReady, TargetComplete, Send
<1>4. JobAhead' /\ TargetsBehind' /\ ReadyAnswered'
  BY <1>1, <1>2 DEF JobAhead, TargetsBehind, ReadyAnswered
<1>5. AnswersTrue'
  <2> SUFFICES ASSUME NEW m \in inbox'
               PROVE  /\ m.shot <= tgt'[m.from].shot
                      /\ m.type = "PlayReady" /\ m.shot = tgt'[m.from].shot
                            => tgt'[m.from].phase # "asked"
    BY DEF AnswersTrue
  <2>1. CASE m \in inbox
    BY <1>2, <2>1, AnswerNumbers DEF AnswersTrue
  <2>2. CASE m \notin inbox
    BY <1>2, <1>3, <2>2, AnswerNumbers
  <2> QED BY <2>1, <2>2
<1> QED BY <1>1, <1>4, <1>5

\* The handler believes only an answer to the active job.
LEMMA AnswerHandled ==
    ASSUME TInv, AnswerInv, NEW m \in inbox, DeliverReady(m) \/ DeliverComplete(m)
    PROVE  AnswerInv' /\ state' = state
<1> USE ThreadsFacts DEF AnswerInv
<1>1. UNCHANGED <<shot, activeShot, tgt, state>> /\ inbox' \subseteq inbox
  BY DEF DeliverReady, DeliverComplete, jobVars, engineVars
<1>2. QuietJob /\ QuietStop
  <2>1. CASE DeliverReady(m)
    BY <2>1, QuietUnchanged DEF DeliverReady
  <2>2. CASE DeliverComplete(m) /\ UNCHANGED <<stopVars, pc>>
    BY <2>2, QuietUnchanged
  <2>3. CASE StopCall("handler", "idle", "handlerDone")
    BY <2>3, QuietStopCall
  <2> QED BY <2>1, <2>2, <2>3 DEF DeliverComplete
<1>3. \A t \in Targets : playReady'[t] = "PlayReady" =>
         playReady[t] = "PlayReady"
         \/ (t = m.from /\ m.type = "PlayReady" /\ m.shot = activeShot)
  BY DEF DeliverReady, DeliverComplete, Accepted, TInv, TargetInv, TargetType
<1>4. JobAhead' /\ TargetsBehind' /\ AnswersTrue'
  BY <1>1, <1>2 DEF JobAhead, TargetsBehind, AnswersTrue, QuietJob, QuietStop
<1>5. m.shot = activeShot => tgt[m.from].shot = activeShot
  BY AnswerNumbers DEF AnswersTrue, TargetsBehind
<1>6. ReadyAnswered'
  BY <1>1, <1>3, <1>5 DEF ReadyAnswered, AnswersTrue
<1> QED BY <1>1, <1>4, <1>6

LEMMA AnswerStart == ASSUME TInv, AnswerInv, StartJob PROVE AnswerInv' /\ state' = state
<1>1. /\ shot' = shot + 1
      /\ UNCHANGED <<activeShot, tgt, inbox, playReady, ret, state>>
  BY DEF StartJob, stopVars, engineVars
<1> QED BY <1>1, AnswerNumbers DEF AnswerInv, JobAhead, TargetsBehind, AnswersTrue, ReadyAnswered

\* setState(PlayReady), of an engine whose devices all have answered.
LEMMA AnswerReady ==
    ASSUME TInv, AnswerInv, SetReady
    PROVE  /\ AnswerInv'
           /\ state # "PlayReady" /\ state' = "PlayReady" => AllPlayReady
<1> USE ThreadsFacts
<1>1. UNCHANGED <<shot, activeShot, tgt, inbox, playReady, ret>>
  BY DEF SetReady, notEngine, jobVars, targetVars, stopVars
<1>2. QuietJob
  BY QuietMove DEF SetReady
<1>3. AnswerInv'
  BY <1>1, <1>2 DEF AnswerInv, JobAhead, TargetsBehind, AnswersTrue, ReadyAnswered, QuietJob
<1>4. ASSUME state # "PlayReady", state' = "PlayReady", ~AllPlayReady PROVE FALSE
  BY <1>4 DEF SetReady
<1> QED BY <1>3, <1>4

\* Every step keeps the invariant, and none but SetReady makes the engine PlayReady.
LEMMA AnswerNext ==
    ASSUME TInv, AnswerInv, [Next]_vars
    PROVE  /\ AnswerInv'
           /\ state # "PlayReady" /\ state' = "PlayReady" => AllPlayReady
<1>1. CASE Quiet
  BY <1>1, AnswerQuiet DEF Quiet, QuietState
<1>2. CASE StartJob
  BY <1>2, AnswerStart
<1>3. CASE JobStep
  <2>1. CASE Prepare
    <3>1. state' # "PlayReady" \/ state = "PlayReady"
      BY <2>1, SetStateUnready DEF Prepare, TInv, EngineType
    <3> QED BY <2>1, <3>1, AnswerPrepare
  <2> QED BY <1>1, <1>3, <2>1, AnswerReady, QuietJobStep
<1>4. CASE CallStep(Caller)
  BY <1>1, <1>4, QuietCall DEF Caller
<1>5. CASE PlayStep \/ MeasureStep
  BY <1>1, <1>5, QuietPlay
<1>6. CASE TargetStep
  <2>1. ASSUME NEW t \in Targets, TargetArm(t) PROVE Quiet
    BY <2>1, QuietOthers DEF AnswerInv, JobAhead
  <2> QED BY <1>1, <1>6, <2>1, AnswerSent, AnswerHandled DEF TargetStep
<1>7. CASE ServerCall \/ HandlerDone \/ UserStop \/ UNCHANGED vars
           \/ \E th \in Threads \ {"measure"} : Stop(th)
  BY <1>1, <1>7, QuietOthers DEF AnswerInv, JobAhead
<1> QED BY <1>2, <1>3, <1>4, <1>5, <1>6, <1>7 DEF Next

\* An engine becomes PlayReady only once every owned device has answered for this very
\* shot, for any number of devices: setState(PlayReady) of play(job) never follows from a
\* late PlayReady message of an earlier job.
THEOREM ReadyMeansAnswered == Spec => PlayReadyMeansAllAnswered
<1>1. Init => AnswerInv
  BY DEF Init, AnswerInv, JobAhead, TargetsBehind, AnswersTrue, ReadyAnswered, Threads
<1>2. TInv /\ AnswerInv /\ [Next]_vars => AnswerInv'
  BY AnswerNext
<1>3. TInv /\ AnswerInv /\ [Next]_vars =>
         [state # "PlayReady" /\ state' = "PlayReady" =>
             \A t \in Targets : tgt[t].shot = activeShot /\ tgt[t].phase # "asked"]_vars
  BY AnswerNext DEF AllPlayReady, AnswerInv, ReadyAnswered
<1> QED BY <1>1, <1>2, <1>3, TInvHolds, PTL DEF Spec, PlayReadyMeansAllAnswered

-----------------------------------------------------------------------------
(* The trigger of the owner.  Its job thread arms, waits, and triggers; the    *)
(* play thread waits for the trigger between Arm and TrigCheck.                *)

TriggerLabels == {"requestTrigger", "trigger"}
ArmedLabels   == {"spawn", "join", "armLocal", "armLocalWait"} \cup TriggerLabels
LeftWaiting   == {"fired", "playLock"}

\* The job thread is between arm(localDeviceID) and the end of its call, or in the stop()
\* of an earlier play thread there.
JobArmed      == pc["job"] \in ArmedLabels \/ (pc["job"] \in StopLabels /\ ret["job"] = "join")
JobTriggers   == pc["job"] \in TriggerLabels
PlayMayWait   == state = "WaitingForTrigger" \/ pc["play"] = "arm"

\* Where the calls of stop() return to.
Returns       == /\ ret["job"] \in {"idle", "complete", "join"}
                 /\ ret["play"] \in {"idle", "armStop", "final"}
                 /\ pc["job"] # "serverTrigger"
\* A thread past its wait has seen the engine leave WaitingForTrigger, for good.
WaitIsOver    == pc["play"] \in LeftWaiting => state # "WaitingForTrigger"
\* Every device is a key of the trigger the job thread waits on, and this engine too.
TargetsKnown  == mt.shot # 0 => \A t \in Targets : mt.status[t] # "None"
AllKnown      == JobArmed => mt.shot # 0 /\ \A i \in Ids : mt.status[i] # "None"
\* While the trigger may still start the shot, all wait for it.
TriggerIsDue  == JobTriggers /\ PlayMayWait => \A i \in Ids : mt.status[i] = "Waiting"

TrigInv == Owner => Returns /\ WaitIsOver /\ TargetsKnown /\ AllKnown /\ TriggerIsDue

\* What most steps do: they make nothing wait, take no id from the trigger, and bring the
\* job and the play thread no nearer to it.
StateKeeps == state' = "WaitingForTrigger" => state = "WaitingForTrigger"
TriggerKeeps ==
    /\ mt'.shot = mt.shot
    /\ \A i \in Ids : mt'.status[i] = mt.status[i]
                      \/ (mt.status[i] # "None" /\ mt'.status[i] = "Waiting")
JobKeeps   == (JobArmed' => JobArmed) /\ (JobTriggers' => JobTriggers)
PlayKeeps  == pc'["play"] \in LeftWaiting \cup {"arm"} => pc'["play"] = pc["play"]
Keeps      == StateKeeps /\ TriggerKeeps /\ JobKeeps /\ PlayKeeps /\ Returns'

LEMMA TrigKeeps == ASSUME TInv, TrigInv, Owner, Keeps PROVE TrigInv'
<1> USE DEF TrigInv, Keeps
<1>1. WaitIsOver'
  BY DEF WaitIsOver, StateKeeps, PlayKeeps, LeftWaiting
<1>2. TargetsKnown' /\ AllKnown'
  BY IdsFacts DEF TargetsKnown, AllKnown, TriggerKeeps, JobKeeps
<1>3. PlayMayWait' => PlayMayWait
  BY DEF PlayMayWait, StateKeeps, PlayKeeps
<1>4. TriggerIsDue'
  BY <1>3 DEF TriggerIsDue, TriggerKeeps, JobKeeps
<1> QED BY <1>1, <1>2, <1>4

\* No setState() but armTrigger's asks for WaitingForTrigger.
LEMMA SetStateNoWait ==
    ASSUME NEW from \in EngineState,
           NEW target \in {"Parsed", "PreparingPlay", "PlayReady", "Playing", "Error"}
    PROVE  /\ SetState(from, target) = "WaitingForTrigger" => from = "WaitingForTrigger"
           /\ SetStateOr(from, target, "Error") = "WaitingForTrigger"
                => from = "WaitingForTrigger"
BY DEF SetState, SetStateOr

\* The methods of the trigger that take no id from it.
LEMMA KeepsMethods ==
    ASSUME TInv
    PROVE  /\ UNCHANGED mt => TriggerKeeps
           /\ mt' = EnterWait(mt) => TriggerKeeps
           /\ mt' = StopWait(mt) => TriggerKeeps
           /\ \A i \in Ids : mt' = ReadyId(mt, i) => TriggerKeeps
BY DEF TriggerKeeps, TInv, MTType, MasterTriggerType, EnterWait, StopWait, ReadyId, SetKnown

LEMMA KeepsUnchanged ==
    /\ UNCHANGED state => StateKeeps
    /\ Returns /\ UNCHANGED <<pc, ret>> => JobKeeps /\ PlayKeeps /\ Returns'
BY DEF StateKeeps, Returns, JobKeeps, JobArmed, JobTriggers, PlayKeeps

\* A thread goes on, and not towards the trigger.
LEMMA KeepsMove ==
    ASSUME TInv, Returns, UNCHANGED ret, NEW th \in Threads, NEW from, NEW to,
           Move(th, from, to),
           th = "job" => to \notin ArmedLabels \cup StopLabels \cup {"serverTrigger"},
           th = "play" => to \notin LeftWaiting \cup {"arm"}
    PROVE  JobKeeps /\ PlayKeeps /\ Returns'
<1>1. /\ pc'["job"] = IF th = "job" THEN to ELSE pc["job"]
      /\ pc'["play"] = IF th = "play" THEN to ELSE pc["play"]
  BY DEF TInv, PcInv, PcType, Move, Goto, Threads
<1> QED BY <1>1 DEF JobKeeps, JobArmed, JobTriggers, PlayKeeps, Returns, ArmedLabels, TriggerLabels

\* A thread calls stop(), and not to go on towards the trigger.
LEMMA KeepsStopCall ==
    ASSUME TInv, Returns, NEW th \in Threads, NEW from, NEW back, StopCall(th, from, back),
           th = "job" => back \in {"idle", "complete"} \/ (from = "spawn" /\ back = "join"),
           th = "play" => back \in {"armStop", "final"}
    PROVE  JobKeeps /\ PlayKeeps /\ Returns'
<1>1. /\ pc'["job"] = IF th = "job" THEN "stopRead" ELSE pc["job"]
      /\ pc'["play"] = IF th = "play" THEN "stopRead" ELSE pc["play"]
      /\ pc[th] = from
  BY DEF TInv, PcInv, PcType, StopCall, Move, At, Goto, Threads
<1>2. /\ ret'["job"] = IF th = "job" THEN back ELSE ret["job"]
      /\ ret'["play"] = IF th = "play" THEN back ELSE ret["play"]
  BY DEF TInv, StopType, StopCall, Threads
<1> QED BY <1>1, <1>2 DEF JobKeeps, JobArmed, JobTriggers, PlayKeeps, Returns, ArmedLabels,
                          TriggerLabels, StopLabels, LeftWaiting

\* stop(), whoever calls it.
LEMMA KeepsStop ==
    ASSUME TInv, Returns, Owner, NEW th \in Threads, Stop(th) PROVE Keeps
<1> USE ThreadsFacts
<1>1. state \in EngineState
  BY DEF TInv, EngineType
<1>2. /\ StateKeeps /\ TriggerKeeps /\ UNCHANGED ret
  <2>1. CASE StopRead(th)
    BY <2>1, KeepsUnchanged, KeepsMethods DEF StopRead
  <2>2. CASE ~StopRead(th)
    BY <1>1, <2>2, SetStateNoWait, KeepsUnchanged, KeepsMethods, StopSteps DEF StopSet, StateKeeps
  <2> QED BY <2>1, <2>2
<1>3. /\ pc[th] \in StopLabels
      /\ pc'[th] = ret[th] \/ pc'[th] \in StopLabels
      /\ \A u \in Threads \ {th} : pc'[u] = pc[u]
  BY StopSteps
<1>4. PlayKeeps
  BY <1>3 DEF PlayKeeps, Returns, StopLabels, LeftWaiting
<1>5. JobKeeps /\ Returns'
  <2>1. CASE th = "job"
    BY <1>2, <1>3, <2>1 DEF JobKeeps, JobArmed, JobTriggers, Returns, StopLabels, ArmedLabels,
       TriggerLabels
  <2>2. CASE th # "job"
    BY <1>2, <1>3, <2>2 DEF JobKeeps, JobArmed, JobTriggers, Returns
  <2> QED BY <2>1, <2>2
<1> QED BY <1>2, <1>4, <1>5 DEF Keeps

\* The job thread's own steps, but for those that make and drop the trigger.
LEMMA KeepsJob ==
    ASSUME TInv, Returns, Owner, JobStep, ~Prepare, ~RefuseAbstract, ~MakeTrigger
    PROVE  Keeps
<1> USE ThreadsFacts DEF Keeps, ArmedLabels, TriggerLabels, StopLabels
<1>1. state \in EngineState
  BY DEF TInv, EngineType
<1>2. CASE WaitReady \/ ReadyWoken \/ ReadyTimeout \/ Complete \/ CompleteCheck \/ CompleteSleep
           \/ CompleteWoken
  BY <1>2, KeepsUnchanged, KeepsMethods, KeepsMove
     DEF WaitReady, ReadyWoken, ReadyTimeout, Complete, CompleteCheck, CompleteSleep,
         CompleteWoken, notLocks, engineVars, stopVars
<1>3. CASE ReadyQueried \/ SendReady \/ SendComplete \/ CancelLate
  BY <1>3, KeepsUnchanged, KeepsMethods, KeepsMove
     DEF ReadyQueried, SendReady, SendComplete, CancelLate, notPc, notEngine, engineVars, stopVars
<1>4. CASE SetReady
  <2>1. StateKeeps
    BY <1>1, <1>4, SetStateNoWait DEF SetReady, StateKeeps
  <2> QED BY <1>4, <2>1, KeepsMethods, KeepsMove DEF SetReady, notEngine, stopVars
<1>5. CASE CancelJob
  BY <1>5, KeepsUnchanged, KeepsMethods, KeepsStopCall DEF CancelJob
<1>6. CASE Save \/ Finish \/ EndJob
  BY <1>6, KeepsUnchanged, KeepsMethods, KeepsMove DEF Save, Finish, EndJob, engineVars, stopVars
<1> QED BY <1>2, <1>3, <1>4, <1>5, <1>6 DEF JobStep

\* The job makes its trigger, or has none, far from where it arms it.
LEMMA TrigMade ==
    ASSUME TInv, TrigInv, Owner, Prepare \/ RefuseAbstract \/ MakeTrigger
    PROVE  TrigInv'
<1> USE ThreadsFacts DEF TrigInv
<1>1. /\ UNCHANGED ret /\ pc'["job"] \in {"waitReady", "end", "sendReady"}
      /\ pc'["play"] = pc["play"]
  BY DEF Prepare, RefuseAbstract, MakeTrigger, notMt, stopVars, Move, Goto, TInv, PcInv, PcType
<1>2. StateKeeps
  BY SetStateNoWait DEF Prepare, RefuseAbstract, MakeTrigger, notMt, engineVars, StateKeeps, TInv,
     EngineType
<1>3. TargetsKnown'
  <2>1. mt' = NullTrigger(Ids) \/ mt' = NewArmed(Ids, shot, Targets) \/ mt' = mt
    BY DEF Prepare, RefuseAbstract, MakeTrigger
  <2> QED BY <2>1, IdsFacts DEF TargetsKnown, NullTrigger, NewArmed
<1>4. Returns' /\ ~JobArmed' /\ ~JobTriggers'
  BY <1>1 DEF Returns, JobArmed, JobTriggers, ArmedLabels, TriggerLabels, StopLabels
<1> QED BY <1>1, <1>2, <1>3, <1>4 DEF WaitIsOver, AllKnown, TriggerIsDue, StateKeeps, LeftWaiting

\* play(jobID): what leads neither into the armed part nor to the trigger.
CallNear == \/ ArmOwnedWait("job") \/ ArmedOwned("job") \/ Join("job")
            \/ ArmLocal("job") \/ ArmLocalWait("job") \/ ServerTrigger("job")

LEMMA KeepsCall ==
    ASSUME TInv, Returns, Owner, CallStep("job"), ~CallNear
    PROVE  Keeps
<1> USE ThreadsFacts DEF Keeps, ArmedLabels, TriggerLabels, StopLabels
<1>1. state \in EngineState /\ CallOver = "complete"
  BY DEF TInv, EngineType, CallOver
<1>2. CASE ClearMessages("job") \/ CheckReady("job") \/ Loaded("job") \/ ArmStopped("job")
           \/ ArmLate("job")
  BY <1>1, <1>2, KeepsUnchanged, KeepsMethods, KeepsMove
     DEF ClearMessages, CheckReady, Loaded, ArmStopped, ArmLate, notPc, notEngine, engineVars,
         stopVars
<1>3. CASE Load("job")
  <2>1. StateKeeps
    BY <1>1, <1>3, SetStateNoWait DEF Load, StateKeeps
  <2> QED BY <1>3, <2>1, KeepsMethods, KeepsMove DEF Load, stopVars
<1>4. CASE LoadFailed("job") \/ PlayAll("job") \/ NotifyTrigger("job")
  BY <1>1, <1>4, KeepsUnchanged, KeepsMethods, KeepsMove
     DEF LoadFailed, PlayAll, NotifyTrigger, engineVars, stopVars
<1>5. CASE CallCancel("job")
  BY <1>1, <1>5, KeepsUnchanged, KeepsMethods, KeepsStopCall DEF CallCancel
<1>6. CASE ArmOwned("job")
  BY <1>6, KeepsUnchanged, KeepsMethods, KeepsMove
     DEF ArmOwned, ArmWaitEnter, notMt, engineVars, stopVars
<1>7. CASE Spawn("job")
  <2>1. StateKeeps /\ TriggerKeeps
    BY <1>7, KeepsUnchanged, KeepsMethods DEF Spawn, engineVars
  <2>2. CASE StopCall("job", "spawn", "join")
    BY <2>1, <2>2, KeepsStopCall
  <2>3. CASE Move("job", "spawn", "join") /\ UNCHANGED stopVars
    <3>1. pc["job"] = "spawn" /\ pc'["job"] = "join" /\ pc'["play"] = pc["play"]
      BY <2>3 DEF TInv, PcInv, PcType, Move, At, Goto
    <3> QED BY <2>1, <2>3, <3>1 DEF JobKeeps, JobArmed, JobTriggers, PlayKeeps, Returns, stopVars
  <2> QED BY <1>7, <2>2, <2>3 DEF Spawn
<1>8. CASE RequestTrigger("job")
  <2>1. pc["job"] = "requestTrigger" /\ pc'["job"] = "trigger" /\ pc'["play"] = pc["play"]
    BY <1>8 DEF RequestTrigger, TInv, PcInv, PcType, Move, At, Goto
  <2> QED BY <1>8, <2>1, KeepsUnchanged, KeepsMethods
          DEF RequestTrigger, notPc, engineVars, stopVars, JobKeeps, JobArmed, JobTriggers,
              PlayKeeps, Returns
<1>9. CASE Trigger("job")
  <2>1. StateKeeps
    BY <1>1, <1>9, SetStateNoWait DEF Trigger, StateKeeps
  <2> QED BY <1>1, <1>9, <2>1, KeepsMethods, KeepsMove DEF Trigger, notEngine, stopVars
<1> QED BY <1>2, <1>3, <1>4, <1>5, <1>6, <1>7, <1>8, <1>9 DEF CallStep, CallNear

\* play(jobID), from the moment it arms this engine to the moment all are armed.
LEMMA TrigNear == ASSUME TInv, TrigInv, Owner, CallNear PROVE TrigInv'
<1> USE ThreadsFacts DEF TrigInv
<1>1. UNCHANGED <<ret, state>> /\ CallOver = "complete"
  BY DEF CallNear, ArmOwnedWait, ArmedOwned, Join, ArmLocal, ArmLocalWait, ServerTrigger,
         ArmWaitDone, ArmWaitEnter, notPc, notMt, engineVars, stopVars, Move, Goto, TInv, PcInv,
         PcType, CallOver
<1>2. CASE ArmOwnedWait("job")
  <2>1. /\ pc'["job"] \in {"crashed", "armLate", "armedOwned", "armStopped"}
        /\ pc'["play"] = pc["play"] /\ UNCHANGED mt
    BY <1>2 DEF ArmOwnedWait, ArmWaitDone, notPc, Move, Goto, TInv, PcInv, PcType
  <2>2. Keeps
    BY <1>1, <2>1, KeepsUnchanged, KeepsMethods
       DEF Keeps, JobKeeps, JobArmed, JobTriggers, PlayKeeps, Returns, ArmedLabels, TriggerLabels,
           StopLabels
  <2> QED BY <2>2, TrigKeeps
<1>3. CASE ArmedOwned("job")
  <2>1. pc'["play"] = pc["play"]
    BY <1>3 DEF ArmedOwned, Move, Goto, TInv, PcInv, PcType
  <2>2. CASE mt' = mt /\ pc'["job"] \in {"complete", "crashed"}
    <3>1. Keeps
      BY <1>1, <2>1, <2>2, KeepsUnchanged, KeepsMethods
         DEF Keeps, JobKeeps, JobArmed, JobTriggers, PlayKeeps, Returns, ArmedLabels,
             TriggerLabels, StopLabels
    <3> QED BY <3>1, TrigKeeps
  <2>3. CASE mt.shot # 0 /\ mt' = ArmId(mt, Self) /\ pc'["job"] = "spawn"
    <3>1. mt'.shot = mt.shot /\ mt'.status[Self] = "Arming"
          /\ \A t \in Targets : mt'.status[t] = mt.status[t]
      BY <2>3, TargetsAssumption, IdsFacts DEF ArmId, TInv, MTType, MasterTriggerType
    <3>2. TargetsKnown' /\ AllKnown'
      BY <2>3, <3>1 DEF TargetsKnown, AllKnown, Ids
    <3> QED BY <1>1, <2>1, <2>3, <3>2
            DEF Returns, WaitIsOver, TriggerIsDue, JobTriggers, TriggerLabels
  <2> QED BY <1>1, <1>3, <2>2, <2>3 DEF ArmedOwned, Move, Goto, TInv, PcInv, PcType
<1>4. CASE Join("job")
  <2>1. pc["job"] = "join" /\ pc'["job"] = "armLocal" /\ pc'["play"] = "arm" /\ UNCHANGED mt
    BY <1>4 DEF Join, At, TInv, PcInv, PcType
  <2>2. AllKnown' /\ TargetsKnown'
    BY <2>1 DEF AllKnown, TargetsKnown, JobArmed, ArmedLabels
  <2> QED BY <1>1, <2>1, <2>2 DEF Returns, WaitIsOver, TriggerIsDue, JobTriggers, TriggerLabels,
                                  LeftWaiting
<1>5. CASE ArmLocal("job")
  <2>1. pc["job"] = "armLocal" /\ mt.shot # 0
    BY <1>5 DEF ArmLocal, ArmWaitEnter, Move, At, AllKnown, JobArmed, ArmedLabels
  <2>2. pc'["job"] = "armLocalWait" /\ pc'["play"] = pc["play"] /\ mt' = EnterWait(mt)
    BY <1>5, <2>1 DEF ArmLocal, ArmWaitEnter, Move, Goto, TInv, PcInv, PcType
  <2>3. Keeps
    BY <1>1, <2>1, <2>2, KeepsUnchanged, KeepsMethods
       DEF Keeps, JobKeeps, JobArmed, JobTriggers, PlayKeeps, Returns, ArmedLabels, TriggerLabels
  <2> QED BY <2>3, TrigKeeps
<1>6. CASE ArmLocalWait("job")
  <2>1. mt.shot # 0 /\ \A i \in Ids : mt.status[i] # "None"
    BY <1>6 DEF ArmLocalWait, ArmWaitDone, Move, At, AllKnown, JobArmed, ArmedLabels
  <2>2. UNCHANGED mt /\ pc'["play"] = pc["play"]
    BY <1>6 DEF ArmLocalWait, ArmWaitDone, notPc, Move, Goto, TInv, PcInv, PcType
  <2>3. CASE pc'["job"] \in {"armLate", "armStopped"}
    <3>1. Keeps
      BY <1>1, <2>2, <2>3, KeepsUnchanged, KeepsMethods
         DEF Keeps, JobKeeps, JobArmed, JobTriggers, PlayKeeps, Returns, ArmedLabels,
             TriggerLabels, StopLabels
    <3> QED BY <3>1, TrigKeeps
  <2>4. CASE pc'["job"] = "requestTrigger" /\ AllWaiting(Ids, mt)
    <3>1. TriggerIsDue' /\ AllKnown' /\ TargetsKnown'
      BY <2>1, <2>2, <2>4 DEF AllWaiting, TriggerIsDue, AllKnown, TargetsKnown
    <3> QED BY <1>1, <2>2, <2>4, <3>1 DEF Returns, WaitIsOver
  <2>5. \/ pc'["job"] \in {"armLate", "armStopped"}
        \/ pc'["job"] = "requestTrigger" /\ AllWaiting(Ids, mt)
    BY <1>6, <2>1 DEF ArmLocalWait, ArmWaitDone, ArmWaitOver, Move, Goto, TInv, PcInv, PcType
  <2> QED BY <2>3, <2>4, <2>5
<1>7. CASE ServerTrigger("job")
  BY <1>7 DEF ServerTrigger, Move, At, Returns
<1> QED BY <1>2, <1>3, <1>4, <1>5, <1>6, <1>7 DEF CallNear

\* The play thread and the measurement: what does not enter or leave the wait.
PlayNear == Arm \/ TrigCheck \/ Fired

LEMMA KeepsPlay ==
    ASSUME TInv, Returns, Owner, PlayStep \/ MeasureStep, ~PlayNear
    PROVE  Keeps
<1> USE ThreadsFacts DEF Keeps, LeftWaiting
<1>1. state \in EngineState
  BY DEF TInv, EngineType
<1>2. CASE ArmError \/ After
  BY <1>2, KeepsUnchanged, KeepsMethods, KeepsStopCall, KeepsMove
     DEF ArmError, After, engineVars, stopVars
<1>3. CASE ArmStop \/ Ready
  BY <1>3, KeepsUnchanged, KeepsMethods, KeepsMove, IdsFacts
     DEF ArmStop, Ready, notMt, engineVars, stopVars
<1>4. CASE TrigLock \/ TrigSleep \/ TrigWoken \/ NextEvent \/ JoinMeasure \/ AllLock
           \/ AllWoken \/ AllTimeout \/ NotifyComplete
  BY <1>4, KeepsUnchanged, KeepsMethods, KeepsMove
     DEF TrigLock, TrigSleep, TrigWoken, NextEvent, JoinMeasure, AllLock, AllWoken, AllTimeout,
         NotifyComplete, notLocks, engineVars, stopVars
<1>5. CASE PlayLock
  <2>1. StateKeeps
    BY <1>1, <1>5, SetStateNoWait DEF PlayLock, StateKeeps
  <2>2. pc'["job"] = pc["job"] /\ pc'["play"] \in {"nextEvent", "allLock"} /\ UNCHANGED ret
    BY <1>5 DEF PlayLock, stopVars, TInv, PcInv, PcType
  <2> QED BY <1>5, <2>1, <2>2, KeepsMethods
          DEF PlayLock, JobKeeps, JobArmed, JobTriggers, PlayKeeps, Returns
<1>6. CASE Sleep \/ AllCheck \/ AllGiveUp \/ AllGrace \/ EventsDone \/ Collected
  BY <1>6, KeepsUnchanged, KeepsMethods, KeepsMove
     DEF Sleep, AllCheck, AllGiveUp, AllGrace, EventsDone, Collected, notPc, engineVars, stopVars
<1>7. CASE Fire \/ Final \/ Collect
  <2>1. StateKeeps
    BY <1>1, <1>7, SetStateNoWait DEF Fire, Final, Collect, StateKeeps
  <2> QED BY <1>7, <2>1, KeepsMethods, KeepsMove DEF Fire, Final, Collect, notEngine, stopVars
<1> QED BY <1>2, <1>3, <1>4, <1>5, <1>6, <1>7 DEF PlayStep, MeasureStep, PlayNear

\* The play thread begins to wait, and stops waiting.
LEMMA TrigWait == ASSUME TInv, TrigInv, Owner, PlayNear PROVE TrigInv'
<1> USE ThreadsFacts DEF TrigInv
<1>1. UNCHANGED ret /\ pc'["job"] = pc["job"]
  BY DEF PlayNear, Arm, TrigCheck, Fired, Move, Goto, TInv, PcInv, PcType, notEngine, notLocks,
         notMt, stopVars
<1>2. Returns' /\ JobArmed' = JobArmed /\ JobTriggers' = JobTriggers
  BY <1>1 DEF Returns, JobArmed, JobTriggers
<1>3. CASE Arm
  <2>1. pc["play"] = "arm" /\ pc'["play"] \in {"ready", "armError"} /\ UNCHANGED mt
    BY <1>3 DEF Arm, Move, At, Goto, TInv, PcInv, PcType, notEngine
  <2> QED BY <1>2, <2>1 DEF WaitIsOver, TargetsKnown, AllKnown, TriggerIsDue, PlayMayWait,
                            LeftWaiting
<1>4. CASE TrigCheck
  <2>1. UNCHANGED <<mt, state>> /\ pc'["play"] \in {"trigSleep", "fired"}
        /\ (pc'["play"] = "fired" => state # "WaitingForTrigger")
    BY <1>4 DEF TrigCheck, Move, At, Goto, TInv, PcInv, PcType, notLocks, engineVars
  <2> QED BY <1>2, <2>1 DEF WaitIsOver, TargetsKnown, AllKnown, TriggerIsDue, PlayMayWait,
                            LeftWaiting
<1>5. CASE Fired
  <2>1. state' = state /\ state # "WaitingForTrigger" /\ pc'["play"] \in {"playLock", "crashed"}
    BY <1>5 DEF Fired, Move, At, Goto, TInv, PcInv, PcType, notMt, engineVars, WaitIsOver,
                LeftWaiting
  <2>2. mt' = mt \/ mt' = FiredId(mt, Self)
    BY <1>5 DEF Fired
  <2>3. mt'.shot = mt.shot /\ \A i \in Ids : mt.status[i] # "None" => mt'.status[i] # "None"
    BY <2>2 DEF FiredId, SetKnown, TInv, MTType, MasterTriggerType
  <2>4. TargetsKnown' /\ AllKnown'
    BY <1>2, <2>3, IdsFacts DEF TargetsKnown, AllKnown
  <2> QED BY <1>2, <2>1, <2>4 DEF WaitIsOver, TriggerIsDue, PlayMayWait, LeftWaiting
<1> QED BY <1>3, <1>4, <1>5 DEF PlayNear

\* The others.
LEMMA KeepsOthers ==
    ASSUME TInv, Returns, Owner,
           StartJob \/ ServerCall \/ TargetStep \/ HandlerDone \/ UserStop \/ UNCHANGED vars
    PROVE  Keeps
<1> USE ThreadsFacts DEF Keeps, ArmedLabels, TriggerLabels, StopLabels
<1>1. CASE StartJob \/ ServerCall \/ HandlerDone
  BY <1>1, KeepsUnchanged, KeepsMethods, KeepsMove
     DEF StartJob, ServerCall, HandlerDone, notLocks, engineVars, stopVars
<1>2. CASE UserStop
  <2>1. /\ UNCHANGED <<state, mt>> /\ ret'["job"] = ret["job"] /\ ret'["play"] = ret["play"]
        /\ pc'["job"] = pc["job"] /\ pc'["play"] = pc["play"]
    BY <1>2 DEF UserStop, engineVars, Move, Goto, TInv, PcInv, PcType, StopType
  <2> QED BY <2>1, KeepsUnchanged, KeepsMethods
          DEF JobKeeps, JobArmed, JobTriggers, PlayKeeps, Returns
<1>3. CASE \E t \in Targets : TargetReady(t) \/ TargetArm(t) \/ TargetComplete(t)
  BY <1>3, KeepsUnchanged, KeepsMethods, IdsFacts
     DEF TargetReady, TargetArm, TargetComplete, engineVars, stopVars
<1>4. ASSUME NEW m \in inbox, DeliverReady(m) PROVE Keeps
  BY <1>4, KeepsUnchanged, KeepsMethods DEF DeliverReady, engineVars, stopVars
<1>5. ASSUME NEW m \in inbox, DeliverComplete(m) PROVE Keeps
  <2>1. CASE StopCall("handler", "idle", "handlerDone")
    BY <1>5, <2>1, KeepsUnchanged, KeepsMethods, KeepsStopCall DEF DeliverComplete, engineVars
  <2>2. CASE UNCHANGED <<stopVars, pc>>
    BY <1>5, <2>2, KeepsUnchanged, KeepsMethods DEF DeliverComplete, engineVars, stopVars
  <2> QED BY <1>5, <2>1, <2>2 DEF DeliverComplete
<1>6. CASE UNCHANGED vars
  BY <1>6, KeepsUnchanged, KeepsMethods DEF vars, engineVars, stopVars
<1> QED BY <1>1, <1>2, <1>3, <1>4, <1>5, <1>6 DEF TargetStep

LEMMA TrigNext == ASSUME TInv, TrigInv, Owner, [Next]_vars PROVE TrigInv'
<1>1. Returns
  BY DEF TrigInv
<1>2. CASE JobStep
  BY <1>1, <1>2, KeepsJob, TrigKeeps, TrigMade
<1>3. CASE CallStep(Caller)
  BY <1>1, <1>3, KeepsCall, TrigKeeps, TrigNear DEF Caller
<1>4. CASE PlayStep \/ MeasureStep
  BY <1>1, <1>4, KeepsPlay, TrigKeeps, TrigWait
<1>5. CASE \E th \in Threads \ {"measure"} : Stop(th)
  BY <1>1, <1>5, KeepsStop, TrigKeeps
<1>6. CASE StartJob \/ ServerCall \/ TargetStep \/ HandlerDone \/ UserStop \/ UNCHANGED vars
  BY <1>1, <1>6, KeepsOthers, TrigKeeps
<1> QED BY <1>2, <1>3, <1>4, <1>5, <1>6 DEF Next

\* Only trigger() and playDeviceEvents ask the state machine for Playing.
SetsPlaying == Trigger(Caller) \/ PlayLock

LEMMA PlayingIsSet ==
    ASSUME TInv, [Next]_vars, ~SetsPlaying, state = "WaitingForTrigger"
    PROVE  state' # "Playing"
<1>1. state \in EngineState
  BY DEF TInv, EngineType
<1>2. \A target \in {"Parsed", "PreparingPlay", "PlayReady", "WaitingForTrigger", "Error"} :
         SetState(state, target) # "Playing" /\ SetStateOr(state, target, "Error") # "Playing"
  BY DEF SetState, SetStateOr
<1>3. CASE StartJob \/ ServerCall \/ TargetStep \/ HandlerDone \/ UserStop \/ UNCHANGED vars
  BY <1>3 DEF StartJob, ServerCall, TargetStep, TargetReady, TargetArm, TargetComplete,
     DeliverReady, DeliverComplete, HandlerDone, UserStop, vars, notLocks, engineVars
<1>4. CASE JobStep
  BY <1>2, <1>4
     DEF JobStep, Prepare, RefuseAbstract, WaitReady, ReadyWoken, ReadyTimeout, ReadyQueried,
         SetReady, MakeTrigger, SendReady, CancelJob, Complete, CompleteCheck, CompleteSleep,
         CompleteWoken, Save, SendComplete, CancelLate, Finish, EndJob, notPc, notEngine,
         notLocks, notMt, engineVars
<1>5. CASE CallStep(Caller)
  BY <1>2, <1>5
     DEF SetsPlaying, CallStep, ClearMessages, CheckReady, Load, LoadFailed, Loaded, CallCancel,
         PlayAll, ArmOwned, ArmOwnedWait, ArmLocal, ArmLocalWait, ArmWaitEnter, ArmWaitDone,
         ArmStopped, ArmLate, ArmedOwned, Spawn, Join, RequestTrigger, ServerTrigger,
         NotifyTrigger, notPc, notEngine, notMt, engineVars
<1>6. CASE PlayStep \/ MeasureStep
  BY <1>2, <1>6
     DEF SetsPlaying, PlayStep, MeasureStep, Arm, ArmError, ArmStop, Ready, TrigLock, TrigCheck,
         TrigSleep, TrigWoken, Fired, NextEvent, Sleep, Fire, EventsDone, JoinMeasure, AllLock,
         AllCheck, AllWoken, AllTimeout, AllGrace, AllGiveUp, After, Final, NotifyComplete,
         Collect, Collected, notPc, notEngine, notLocks, notMt, engineVars
<1>7. CASE \E th \in Threads \ {"measure"} : Stop(th)
  BY <1>2, <1>7, StopSteps DEF StopSet
<1> QED BY <1>3, <1>4, <1>5, <1>6, <1>7 DEF Next

\* The play thread finds its wait over, so it is the trigger that starts a shot.
LEMMA TriggerSteps ==
    ASSUME TInv, TrigInv, [Next]_vars, Owner, state = "WaitingForTrigger", state' = "Playing"
    PROVE  \A i \in Ids : mt.status[i] = "Waiting"
<1>1. CASE PlayLock
  BY <1>1 DEF PlayLock, At, TrigInv, WaitIsOver, LeftWaiting
<1>2. CASE Trigger("job")
  BY <1>2 DEF Trigger, Move, At, TrigInv, TriggerIsDue, JobTriggers, TriggerLabels, PlayMayWait
<1> QED BY <1>1, <1>2, PlayingIsSet DEF SetsPlaying, Caller

\* The owner starts a shot only when each owned device and itself wait for the trigger,
\* whatever stops, timeouts and earlier play threads come in between, for any number of
\* devices: trigger() after waitForArmFor finds no device that still arms.
THEOREM TriggerFindsAllArmed == Spec => TriggerOnlyWhenArmed
<1>1. Init => TrigInv
  <2>1. "job" \in Threads /\ "play" \in Threads
    BY DEF Threads
  <2> QED BY <2>1 DEF Init, TrigInv, Returns, WaitIsOver, TargetsKnown, AllKnown, TriggerIsDue,
                      JobArmed, JobTriggers, ArmedLabels, TriggerLabels, StopLabels, LeftWaiting,
                      NullTrigger
<1>2. TInv /\ TrigInv /\ [Next]_vars => TrigInv'
  <2>1. CASE Owner
    BY <2>1, TrigNext
  <2>2. CASE ~Owner
    BY <2>2 DEF TrigInv
  <2> QED BY <2>1, <2>2
<1>3. TInv /\ TrigInv /\ [Next]_vars =>
         [Owner /\ state = "WaitingForTrigger" /\ state' = "Playing" =>
             \A i \in Ids : mt.status[i] = "Waiting"]_vars
  BY TriggerSteps
<1> QED BY <1>1, <1>2, <1>3, TInvHolds, PTL DEF Spec, TriggerOnlyWhenArmed

-----------------------------------------------------------------------------
(* The thread that fires events.  Every thread that is inside playMutex is     *)
(* known by its place, and a stop() returns where none is.                     *)

Holding(th, label) ==
    \/ th = "job" /\ label \in {"waitReady", "setReady", "makeTrigger", "sendReady",
                                "completeCheck", "completeSleep"}
    \/ th = "play" /\ label \in {"nextEvent", "fire", "eventsDone", "joinMeasure", "allCheck"}
    \/ th = "handler" /\ label # "idle"
Holds == \A th \in Threads : Holding(th, pc[th]) => playMutex = th

\* Where a thread's stop() may return to.
Back(th) == CASE th = "job"     -> {"complete", "join"}
              [] th = "play"    -> {"armStop", "final"}
              [] th = "server"  -> {"idle", "join"}
              [] th = "handler" -> {"handlerDone"}
              [] OTHER          -> {"idle"}
Backs == \A th \in Threads : pc[th] \in StopLabels => ret[th] \in Back(th)

LockInv == Holds /\ Backs

\* A thread goes on, with the lock, taking it or giving it up.
LEMMA HoldsMove ==
    ASSUME TInv, Holds, NEW th \in Threads, NEW from, NEW to, Move(th, from, to),
           \/ playMutex' = playMutex /\ (Holding(th, to) => Holding(th, from))
           \/ Free(playMutex) /\ playMutex' = th
           \/ playMutex' = "none" /\ Holding(th, from) /\ ~Holding(th, to)
    PROVE  Holds'
<1>1. pc[th] = from /\ pc'[th] = to /\ \A u \in Threads \ {th} : pc'[u] = pc[u]
  BY DEF TInv, PcInv, PcType, Move, At, Goto
<1>2. "none" \notin Threads
  BY DEF Threads
<1> SUFFICES ASSUME NEW u \in Threads, Holding(u, pc'[u]) PROVE playMutex' = u
  BY DEF Holds, Holding
<1>3. CASE playMutex' = playMutex /\ (Holding(th, to) => Holding(th, from))
  BY <1>1, <1>3 DEF Holds
<1>4. CASE Free(playMutex) /\ playMutex' = th
  BY <1>1, <1>2, <1>4 DEF Holds, Free
<1>5. CASE playMutex' = "none" /\ Holding(th, from) /\ ~Holding(th, to)
  BY <1>1, <1>2, <1>5 DEF Holds
<1> QED BY <1>3, <1>4, <1>5

LEMMA BacksMove ==
    ASSUME TInv, Backs, NEW th \in Threads, NEW from, NEW to, Move(th, from, to),
           UNCHANGED ret, to \in StopLabels => from \in StopLabels
    PROVE  Backs'
BY DEF TInv, PcInv, PcType, Move, At, Goto, Backs

\* A thread calls stop(): it holds no lock, or keeps it, or takes it.
LEMMA LockStopCall ==
    ASSUME TInv, LockInv, NEW th \in Threads, NEW from, NEW back \in Back(th),
           StopCall(th, from, back),
           \/ th # "handler" /\ playMutex' = playMutex
           \/ Free(playMutex) /\ playMutex' = th
    PROVE  LockInv'
<1>1. Backs'
  BY DEF TInv, PcInv, PcType, StopType, StopCall, Move, At, Goto, LockInv, Backs
<1>2. th # "handler" => ~Holding(th, "stopRead")
  BY DEF Holding
<1> QED BY <1>1, <1>2, HoldsMove DEF StopCall, LockInv

\* What the operations on the locks do to playMutex.
LEMMA MutexSteps ==
    /\ \A th : LockPlay(th) => Free(playMutex) /\ playMutex' = th
    /\ \A th : WaitPlay(th) => playMutex' = "none"
    /\ \A th : PlayTimeout(th) => playMutex' = playMutex
    /\ UnlockPlay => playMutex' = "none"
    /\ NotifyPlay => playMutex' = playMutex
    /\ \A th : LockTrigger(th) => playMutex' = playMutex
    /\ \A th : WaitTrigger(th) => playMutex' = playMutex
    /\ UnlockTrigger => playMutex' = playMutex
    /\ UNCHANGED lockVars => playMutex' = playMutex
BY DEF LockPlay, WaitPlay, PlayTimeout, UnlockPlay, NotifyPlay, LockTrigger, WaitTrigger,
       UnlockTrigger, lockVars

LEMMA LockJob == ASSUME TInv, LockInv, JobStep PROVE LockInv'
<1> USE ThreadsFacts, MutexSteps DEF LockInv
<1>1. CASE Prepare \/ RefuseAbstract \/ WaitReady \/ ReadyWoken \/ ReadyTimeout \/ ReadyQueried
  BY <1>1, HoldsMove, BacksMove
     DEF Prepare, RefuseAbstract, WaitReady, ReadyWoken, ReadyTimeout, ReadyQueried, notLocks,
         stopVars, Holding, StopLabels
<1>2. CASE SetReady \/ MakeTrigger \/ SendReady
  BY <1>2, HoldsMove, BacksMove
     DEF SetReady, MakeTrigger, SendReady, notEngine, notMt, stopVars, Holding, StopLabels
<1>3. CASE CancelJob
  <2>1. "complete" \in Back("job")
    BY DEF Back
  <2> QED BY <1>3, <2>1, LockStopCall DEF CancelJob
<1>4. CASE Complete \/ CompleteCheck \/ CompleteSleep \/ CompleteWoken
  BY <1>4, HoldsMove, BacksMove
     DEF Complete, CompleteCheck, CompleteSleep, CompleteWoken, notLocks, stopVars, Holding,
         StopLabels
<1>5. CASE Save \/ SendComplete \/ CancelLate \/ Finish \/ EndJob
  BY <1>5, HoldsMove, BacksMove
     DEF Save, SendComplete, CancelLate, Finish, EndJob, notPc, notEngine, stopVars, Holding,
         StopLabels
<1> QED BY <1>1, <1>2, <1>3, <1>4, <1>5 DEF JobStep

LEMMA LockCall == ASSUME TInv, LockInv, CallStep(Caller) PROVE LockInv'
<1> DEFINE c == Caller
<1> USE ThreadsFacts, MutexSteps DEF LockInv
<1>1. c \in {"job", "server"} /\ c \in Threads /\ CallOver \in Back(c) /\ "join" \in Back(c)
      /\ CallOver \in {"complete", "idle"}
  BY DEF Caller, CallOver, Back
<1>2. \A label \in CallLabels \cup {"complete", "idle", "crashed", "serverTrigger"} :
         ~Holding(c, label) /\ label \notin StopLabels
  BY <1>1 DEF Holding, StopLabels, CallLabels
<1> HIDE DEF c
<1>3. CASE ClearMessages(c) \/ CheckReady(c) \/ Load(c) \/ LoadFailed(c) \/ Loaded(c) \/ PlayAll(c)
  BY <1>1, <1>2, <1>3, HoldsMove, BacksMove
     DEF ClearMessages, CheckReady, Load, LoadFailed, Loaded, PlayAll, notPc, notEngine, stopVars,
         CallLabels
<1>4. CASE CallCancel(c)
  BY <1>1, <1>4, LockStopCall DEF CallCancel
<1>5. CASE ArmOwned(c) \/ ArmOwnedWait(c) \/ ArmLocal(c) \/ ArmLocalWait(c)
  BY <1>1, <1>2, <1>5, HoldsMove, BacksMove
     DEF ArmOwned, ArmOwnedWait, ArmLocal, ArmLocalWait, ArmWaitEnter, ArmWaitDone, notPc, notMt,
         stopVars, CallLabels
<1>6. CASE ArmStopped(c) \/ ArmLate(c) \/ ArmedOwned(c) \/ RequestTrigger(c) \/ ServerTrigger(c)
  BY <1>1, <1>2, <1>6, HoldsMove, BacksMove
     DEF ArmStopped, ArmLate, ArmedOwned, RequestTrigger, ServerTrigger, notPc, notEngine, notMt,
         stopVars, CallLabels
<1>7. CASE Spawn(c)
  <2>1. CASE StopCall(c, "spawn", "join")
    BY <1>1, <1>7, <2>1, LockStopCall DEF Spawn
  <2>2. CASE Move(c, "spawn", "join") /\ UNCHANGED stopVars
    BY <1>1, <1>2, <1>7, <2>2, HoldsMove, BacksMove DEF Spawn, stopVars, CallLabels
  <2> QED BY <1>7, <2>1, <2>2 DEF Spawn
<1>8. CASE Join(c)
  <2>1. /\ pc'[c] \in {"armLocal", "serverTrigger"} /\ pc'["play"] = "arm"
        /\ \A u \in Threads \ {c, "play"} : pc'[u] = pc[u]
        /\ UNCHANGED <<ret, playMutex>>
    BY <1>1, <1>8 DEF Join, TInv, PcInv, PcType, stopVars
  <2>2. Holds'
    BY <1>1, <2>1 DEF Holds, Holding
  <2>3. Backs'
    BY <1>1, <2>1 DEF Backs, StopLabels
  <2> QED BY <2>2, <2>3
<1>9. CASE Trigger(c) \/ NotifyTrigger(c)
  BY <1>1, <1>2, <1>9, HoldsMove, BacksMove
     DEF Trigger, NotifyTrigger, notEngine, stopVars, CallLabels
<1> QED BY <1>3, <1>4, <1>5, <1>6, <1>7, <1>8, <1>9 DEF CallStep, c

LEMMA LockPlayStep == ASSUME TInv, LockInv, PlayStep \/ MeasureStep PROVE LockInv'
<1> USE ThreadsFacts, MutexSteps DEF LockInv
<1>1. CASE Arm \/ ArmStop \/ Ready \/ Fired \/ Final
  BY <1>1, HoldsMove, BacksMove
     DEF Arm, ArmStop, Ready, Fired, Final, notEngine, notMt, stopVars, Holding, StopLabels
<1>2. CASE ArmError
  <2>1. "armStop" \in Back("play")
    BY DEF Back
  <2> QED BY <1>2, <2>1, LockStopCall DEF ArmError
<1>3. CASE TrigLock \/ TrigCheck \/ TrigSleep \/ TrigWoken
  BY <1>3, HoldsMove, BacksMove
     DEF TrigLock, TrigCheck, TrigSleep, TrigWoken, notLocks, stopVars, Holding, StopLabels
<1>4. CASE PlayLock
  <2>1. /\ pc["play"] = "playLock" /\ pc'["measure"] \notin StopLabels /\ UNCHANGED ret
        /\ \A u \in Threads \ {"play", "measure"} : pc'[u] = pc[u]
        /\ pc'["play"] \in {"nextEvent", "allLock"}
        /\ Free(playMutex) /\ (playMutex' = "play" \/ pc'["play"] = "allLock")
    BY <1>4 DEF PlayLock, At, TInv, PcInv, PcType, stopVars, LockPlay, StopLabels
  <2>2. Holds'
    BY <2>1 DEF Holds, Holding, Free
  <2>3. Backs'
    BY <2>1 DEF Backs, StopLabels
  <2> QED BY <2>2, <2>3
<1>5. CASE NextEvent \/ Sleep \/ Fire \/ EventsDone \/ JoinMeasure
  BY <1>5, HoldsMove, BacksMove
     DEF NextEvent, Sleep, Fire, EventsDone, JoinMeasure, notLocks, stopVars, Holding, StopLabels
<1>6. CASE AllLock \/ AllCheck \/ AllWoken \/ AllTimeout \/ AllGrace \/ AllGiveUp
  BY <1>6, HoldsMove, BacksMove
     DEF AllLock, AllCheck, AllWoken, AllTimeout, AllGrace, AllGiveUp, notLocks, notPc, stopVars,
         Holding, StopLabels
<1>7. CASE After
  <2>1. "final" \in Back("play")
    BY DEF Back
  <2>2. CASE StopCall("play", "after", "final")
    BY <1>7, <2>1, <2>2, LockStopCall DEF After
  <2>3. CASE Move("play", "after", "final") /\ UNCHANGED stopVars
    BY <1>7, <2>3, HoldsMove, BacksMove DEF After, stopVars, Holding, StopLabels
  <2> QED BY <1>7, <2>2, <2>3 DEF After
<1>8. CASE NotifyComplete
  BY <1>8, HoldsMove, BacksMove DEF NotifyComplete, notLocks, stopVars, Holding, StopLabels
<1>9. CASE Collect \/ Collected
  BY <1>9, HoldsMove, BacksMove DEF Collect, Collected, notPc, stopVars, Holding, StopLabels
<1> QED BY <1>1, <1>2, <1>3, <1>4, <1>5, <1>6, <1>7, <1>8, <1>9 DEF PlayStep, MeasureStep

LEMMA LockOthers ==
    ASSUME TInv, LockInv,
           \/ StartJob \/ ServerCall \/ TargetStep \/ HandlerDone \/ UserStop
           \/ \E th \in Threads \ {"measure"} : Stop(th)
           \/ UNCHANGED vars
    PROVE  LockInv'
<1> USE ThreadsFacts, MutexSteps DEF LockInv
<1>1. CASE StartJob \/ ServerCall \/ HandlerDone
  BY <1>1, HoldsMove, BacksMove
     DEF StartJob, ServerCall, HandlerDone, notLocks, stopVars, Holding, StopLabels
<1>2. CASE UserStop
  <2>1. "idle" \in Back("user")
    BY DEF Back
  <2>2. Backs'
    BY <1>2, <2>1 DEF UserStop, TInv, PcInv, PcType, StopType, Move, At, Goto, Backs
  <2> QED BY <1>2, <2>2, HoldsMove DEF UserStop, Holding
<1>3. CASE UNCHANGED vars
  BY <1>3 DEF vars, lockVars, stopVars, Holds, Backs
<1>4. CASE \E t \in Targets : TargetReady(t) \/ TargetArm(t) \/ TargetComplete(t)
  BY <1>4 DEF TargetReady, TargetArm, TargetComplete, lockVars, stopVars, Holds, Backs
<1>5. CASE \E m \in inbox : DeliverReady(m)
  BY <1>5 DEF DeliverReady, stopVars, Holds, Backs
<1>6. ASSUME NEW m \in inbox, DeliverComplete(m) PROVE LockInv'
  <2>1. "handlerDone" \in Back("handler")
    BY DEF Back
  <2>2. CASE LockPlay("handler") /\ StopCall("handler", "idle", "handlerDone")
    BY <2>1, <2>2, LockStopCall
  <2>3. CASE UNCHANGED <<stopVars, pc, playMutex>>
    BY <2>3 DEF stopVars, Holds, Backs
  <2> QED BY <1>6, <2>2, <2>3 DEF DeliverComplete
<1>7. ASSUME NEW th \in Threads, Stop(th) PROVE LockInv'
  <2>1. PICK from \in StopLabels, to \in StopLabels \cup {ret[th]} : Move(th, from, to)
    BY <1>7, StopSteps
  <2>2. ret[th] \in Back(th) /\ UNCHANGED <<ret, playMutex>>
    BY <1>7, StopSteps DEF Backs
  <2>3. Holding(th, to) => Holding(th, from)
    BY <2>2 DEF Back, Holding, StopLabels
  <2> QED BY <2>1, <2>2, <2>3, HoldsMove, BacksMove
<1> QED BY <1>1, <1>2, <1>3, <1>4, <1>5, <1>6, <1>7 DEF TargetStep

LEMMA LockNext == ASSUME TInv, LockInv, [Next]_vars PROVE LockInv'
BY LockJob, LockCall, LockPlayStep, LockOthers DEF Next

-----------------------------------------------------------------------------
(* Whose shot it is that the play thread plays.                                *)

\* The places of the job thread before and after a play, and those of a call of
\* play(jobID) after it has joined the earlier play thread.
OutLabels == {"idle", "prepare"} \cup ReportLabels
Joined    == {"armLocal", "armLocalWait", "requestTrigger", "trigger", "serverTrigger"}

\* The engine is in a play state only for the job in progress.
NoPlayOutside == pc["job"] \in OutLabels => state \notin PlayStates
PlayHasJob    == state \in PlayStates => activePlayJob
\* The job thread and the server work on the shot in progress.
JobsShot      == pc["job"] \notin {"idle", "prepare", "end"} => activeShot = shot
ServersShot   == invited \/ pc["server"] # "idle" => activeShot = shot
\* So do the play thread they start, the one that is playing, and the one at an event.
JoinedShot    == pc[Caller] \in Joined => playThread = activeShot
PlayingShot   == state = "Playing" => playThread = activeShot
FireShot      == pc["play"] = "fire" =>
                    activePlayJob /\ playThread = activeShot /\ ~Reporting

ShotInv == /\ NoPlayOutside /\ PlayHasJob /\ JobsShot /\ ServersShot
           /\ JoinedShot /\ PlayingShot /\ FireShot /\ WaitIsOver

\* What most steps do: they bring the engine into no play state, begin and end no job, invite
\* nobody, and start no thread and no event.
SteadyState == /\ state' \in PlayStates => state \in PlayStates
               /\ \A s \in {"Playing", "WaitingForTrigger"} : state' = s => state = s
SteadyJob   == /\ UNCHANGED <<shot, activePlayJob, activeShot, playThread>>
               /\ invited' => invited
SteadyPc    == /\ \/ pc'["job"] = pc["job"]
                  \/ pc'["job"] \notin OutLabels /\ pc["job"] \notin {"idle", "prepare", "end"}
               /\ pc'["server"] # "idle" => pc["server"] # "idle"
               /\ pc'[Caller] \in Joined => pc[Caller] \in Joined
               /\ pc'["play"] = "fire" => pc["play"] = "fire"
               /\ pc'["play"] \in LeftWaiting => pc["play"] \in LeftWaiting
Steady      == SteadyState /\ SteadyJob /\ SteadyPc

LEMMA ShotSteady == ASSUME TInv, ShotInv, Steady PROVE ShotInv'
<1> USE DEF ShotInv, Steady, SteadyState, SteadyJob, SteadyPc
<1>1. NoPlayOutside' /\ PlayHasJob' /\ PlayingShot' /\ WaitIsOver'
  BY DEF NoPlayOutside, PlayHasJob, PlayingShot, WaitIsOver
<1>2. JobsShot' /\ ServersShot' /\ JoinedShot'
  BY DEF JobsShot, ServersShot, JoinedShot, OutLabels, ReportLabels
<1>3. FireShot'
  BY DEF FireShot, Reporting, OutLabels
<1> QED BY <1>1, <1>2, <1>3

\* A state the machine reaches by setState, when neither a trigger nor an arm asks for it.
LEMMA SetStateSteady ==
    ASSUME NEW from \in EngineState, NEW target \in {"Parsed", "PlayReady", "Error"},
           NEW to \in {SetState(from, target), SetStateOr(from, target, "Error")}
    PROVE  /\ to \in PlayStates => from \in PlayStates
           /\ \A s \in {"Playing", "WaitingForTrigger"} : to = s => from = s
<1>1. \A s \in {"Playing", "WaitingForTrigger"} : to = s => from = s
  BY DEF SetState, SetStateOr
<1> QED BY <1>1, SetStateQuiet

LEMMA SteadyUnchanged ==
    /\ UNCHANGED engineVars => SteadyState
    /\ UNCHANGED state => SteadyState
    /\ UNCHANGED <<jobVars, loopVars, invited>> => SteadyJob
    /\ UNCHANGED pc => SteadyPc
BY DEF engineVars, jobVars, loopVars, SteadyState, SteadyJob, SteadyPc

\* A thread goes on, and not to where the next part of a shot begins.
LEMMA SteadyMove ==
    ASSUME TInv, NEW th \in Threads, NEW from, NEW to, Move(th, from, to),
           th = "job" => to \notin OutLabels /\ from \notin {"idle", "prepare", "end"},
           th = "server" => from # "idle",
           th = Caller => (to \in Joined => from \in Joined),
           th = "play" => to # "fire" /\ (to \in LeftWaiting => from \in LeftWaiting)
    PROVE  SteadyPc
<1>1. pc[th] = from /\ pc'[th] = to /\ \A u \in Threads \ {th} : pc'[u] = pc[u]
  BY DEF TInv, PcInv, PcType, Move, At, Goto
<1> QED BY <1>1, ThreadsFacts DEF SteadyPc, Caller

LEMMA SteadyStopCall ==
    ASSUME TInv, NEW th \in Threads, NEW from, NEW back, StopCall(th, from, back),
           from \notin {"idle", "prepare", "end"} \/ th \notin {"job", "server"}
    PROVE  SteadyPc
BY SteadyMove DEF StopCall, OutLabels, ReportLabels, Joined, LeftWaiting

LEMMA SteadyStop == ASSUME TInv, LockInv, NEW th \in Threads, Stop(th) PROVE Steady
<1> USE ThreadsFacts
<1>1. PICK from \in StopLabels, to \in StopLabels \cup {ret[th]} : Move(th, from, to)
  BY StopSteps
<1>2. ret[th] \in Back(th)
  BY StopSteps DEF LockInv, Backs
<1>3. /\ th = "job" => to \notin OutLabels
      /\ th \in {"job", "server"} => to \notin Joined
      /\ th = "play" => to \notin LeftWaiting \cup {"fire"}
  BY <1>2 DEF Back, StopLabels, OutLabels, ReportLabels, Joined, LeftWaiting
<1>4. SteadyPc
  BY <1>1, <1>3, SteadyMove DEF StopLabels, Caller
<1>5. SteadyState
  BY SetStateSteady, SteadyUnchanged, StopSteps DEF StopSet, SteadyState, TInv, EngineType
<1> QED BY <1>4, <1>5, SteadyUnchanged, StopSteps DEF targetVars, Steady

LEMMA SteadyCall ==
    ASSUME TInv, CallStep(Caller), ~Join(Caller), ~Trigger(Caller)
    PROVE  Steady
<1> DEFINE c == Caller
<1> USE ThreadsFacts
<1>1. c \in {"job", "server"} /\ c \in Threads /\ c = Caller
      /\ (c = "job" => CallOver = "complete") /\ CallOver \notin Joined
  BY DEF Caller, CallOver, Joined
<1>2. state \in EngineState
  BY DEF TInv, EngineType
<1> HIDE DEF c
<1> USE DEF OutLabels, ReportLabels, Joined, Steady
<1>3. CASE ClearMessages(c) \/ CheckReady(c) \/ LoadFailed(c) \/ Loaded(c) \/ PlayAll(c)
  BY <1>1, <1>3, SteadyUnchanged, SteadyMove
     DEF ClearMessages, CheckReady, LoadFailed, Loaded, PlayAll, notPc, notEngine, targetVars,
         engineVars
<1>4. CASE Load(c)
  <2>1. SteadyState
    BY <1>2, <1>4, SetStateSteady DEF Load, SteadyState
  <2> QED BY <1>1, <1>4, <2>1, SteadyUnchanged, SteadyMove DEF Load, targetVars
<1>5. CASE CallCancel(c)
  BY <1>1, <1>5, SteadyUnchanged, SteadyStopCall DEF CallCancel, targetVars
<1>6. CASE ArmOwned(c) \/ ArmOwnedWait(c) \/ ArmLocal(c) \/ ArmLocalWait(c)
  BY <1>1, <1>6, SteadyUnchanged, SteadyMove
     DEF ArmOwned, ArmOwnedWait, ArmLocal, ArmLocalWait, ArmWaitEnter, ArmWaitDone, notPc, notMt,
         targetVars
<1>7. CASE ArmStopped(c) \/ ArmLate(c) \/ ArmedOwned(c)
  BY <1>1, <1>7, SteadyUnchanged, SteadyMove
     DEF ArmStopped, ArmLate, ArmedOwned, notPc, notEngine, notMt, targetVars
<1>8. CASE RequestTrigger(c) \/ ServerTrigger(c)
  BY <1>1, <1>8, SteadyUnchanged, SteadyMove DEF RequestTrigger, ServerTrigger, notPc, targetVars
<1>9. CASE Spawn(c)
  <2>1. SteadyPc
    BY <1>1, <1>9, SteadyMove, SteadyStopCall DEF Spawn
  <2> QED BY <1>9, <2>1, SteadyUnchanged DEF Spawn, targetVars
<1>10. CASE NotifyTrigger(c)
  BY <1>1, <1>10, SteadyUnchanged, SteadyMove DEF NotifyTrigger, engineVars
<1> QED BY <1>3, <1>4, <1>5, <1>6, <1>7, <1>8, <1>9, <1>10 DEF CallStep, c

\* The steps of the play thread that the invariant is about.
FireNear == Arm \/ TrigCheck \/ PlayLock \/ NextEvent \/ Sleep

LEMMA SteadyPlay ==
    ASSUME TInv, PlayStep \/ MeasureStep, ~FireNear
    PROVE  Steady
<1> USE ThreadsFacts DEF OutLabels, ReportLabels, Joined, LeftWaiting, Steady
<1>0. "play" # Caller /\ "measure" # Caller
  BY DEF Caller
<1>1. state \in EngineState
  BY DEF TInv, EngineType
<1>2. CASE ArmError \/ After
  BY <1>0, <1>2, SteadyUnchanged, SteadyMove, SteadyStopCall DEF ArmError, After, targetVars
<1>3. CASE ArmStop \/ Ready \/ Fired
  BY <1>0, <1>3, SteadyUnchanged, SteadyMove DEF ArmStop, Ready, Fired, notMt, targetVars
<1>4. CASE TrigLock \/ TrigSleep \/ TrigWoken \/ JoinMeasure \/ AllLock \/ AllWoken \/ AllTimeout
           \/ NotifyComplete
  BY <1>0, <1>4, SteadyUnchanged, SteadyMove
     DEF TrigLock, TrigSleep, TrigWoken, JoinMeasure, AllLock, AllWoken, AllTimeout,
         NotifyComplete, notLocks, targetVars
<1>5. CASE Fire \/ Final \/ Collect
  <2>1. SteadyState
    BY <1>1, <1>5, SetStateSteady DEF Fire, Final, Collect, SteadyState
  <2>2. SteadyJob
    BY <1>5 DEF Fire, Final, Collect, notEngine, targetVars, jobVars, loopVars, SteadyJob
  <2> QED BY <1>0, <1>5, <2>1, <2>2, SteadyMove DEF Fire, Final, Collect
<1>6. CASE EventsDone \/ AllGrace \/ Collected
  BY <1>0, <1>6, SteadyUnchanged, SteadyMove DEF EventsDone, AllGrace, Collected, notPc, targetVars
<1>7. CASE AllCheck \/ AllGiveUp
  <2>1. SteadyJob
    BY <1>7 DEF AllCheck, AllGiveUp, targetVars, jobVars, SteadyJob
  <2> QED BY <1>0, <1>7, <2>1, SteadyUnchanged, SteadyMove DEF AllCheck, AllGiveUp
<1> QED BY <1>2, <1>3, <1>4, <1>5, <1>6, <1>7 DEF PlayStep, MeasureStep, FireNear

LEMMA SteadyOthers ==
    ASSUME TInv, TargetStep \/ HandlerDone \/ UserStop \/ UNCHANGED vars
    PROVE  Steady
<1> USE ThreadsFacts DEF OutLabels, ReportLabels, Joined, LeftWaiting, Steady
<1>0. "handler" # Caller /\ "user" # Caller
  BY DEF Caller
<1>1. CASE HandlerDone
  BY <1>0, <1>1, SteadyUnchanged, SteadyMove DEF HandlerDone, notLocks, targetVars
<1>2. CASE UserStop
  BY <1>0, <1>2, SteadyUnchanged, SteadyMove DEF UserStop, targetVars
<1>3. CASE \E t \in Targets : TargetReady(t) \/ TargetArm(t) \/ TargetComplete(t)
  BY <1>3, SteadyUnchanged DEF TargetReady, TargetArm, TargetComplete
<1>4. CASE \E m \in inbox : DeliverReady(m)
  BY <1>4, SteadyUnchanged DEF DeliverReady
<1>5. ASSUME NEW m \in inbox, DeliverComplete(m) PROVE Steady
  BY <1>0, <1>5, SteadyUnchanged, SteadyStopCall DEF DeliverComplete
<1>6. CASE UNCHANGED vars
  BY <1>6, SteadyUnchanged DEF vars, targetVars
<1> QED BY <1>1, <1>2, <1>3, <1>4, <1>5, <1>6 DEF TargetStep

\* The job thread outside the beginning and the end of its job.
JobNear == Prepare \/ RefuseAbstract \/ SendReady \/ CompleteCheck \/ Save \/ SendComplete
           \/ CancelLate \/ Finish \/ EndJob

LEMMA SteadyJobStep == ASSUME TInv, JobStep, ~JobNear PROVE Steady
<1> USE ThreadsFacts DEF OutLabels, ReportLabels, Joined, Steady
<1>1. CASE WaitReady \/ ReadyWoken \/ ReadyTimeout \/ Complete \/ CompleteSleep \/ CompleteWoken
  BY <1>1, SteadyUnchanged, SteadyMove
     DEF WaitReady, ReadyWoken, ReadyTimeout, Complete, CompleteSleep, CompleteWoken, notLocks,
         targetVars
<1>2. CASE ReadyQueried \/ MakeTrigger
  BY <1>2, SteadyUnchanged, SteadyMove DEF ReadyQueried, MakeTrigger, notMt, targetVars
<1>3. CASE SetReady
  <2>1. SteadyState
    BY <1>3, SetStateSteady DEF SetReady, SetStateOk, SteadyState, TInv, EngineType
  <2> QED BY <1>3, <2>1, SteadyUnchanged, SteadyMove DEF SetReady, notEngine, targetVars
<1>4. CASE CancelJob
  BY <1>4, SteadyUnchanged, SteadyStopCall DEF CancelJob, targetVars
<1> QED BY <1>1, <1>2, <1>3, <1>4 DEF JobStep, JobNear

\* The beginning and the end of a job.
LEMMA ShotJob == ASSUME TInv, LockInv, ShotInv, JobNear PROVE ShotInv'
<1> USE ThreadsFacts DEF ShotInv
<1>0. /\ state \in EngineState /\ Caller \in {"job", "server"}
      /\ Free(playMutex) => pc["play"] # "fire"
  BY DEF TInv, EngineType, Caller, LockInv, Holds, Holding, Free
<1>1. ASSUME NEW from, NEW to, Move("job", from, to)
      PROVE  pc["job"] = from /\ pc'["job"] = to /\ \A u \in Threads \ {"job"} : pc'[u] = pc[u]
  BY <1>1 DEF TInv, PcInv, PcType, Move, At, Goto
<1>2. CASE Prepare
  <2>1. /\ pc["job"] = "prepare" /\ pc'["job"] = "waitReady" /\ Free(playMutex)
        /\ \A u \in Threads \ {"job"} : pc'[u] = pc[u]
        /\ UNCHANGED <<shot, playThread, invited>> /\ activePlayJob' /\ activeShot' = shot
    BY <1>1, <1>2 DEF Prepare, LockPlay, loopVars
  <2>2. state \notin PlayStates
    BY <2>1 DEF NoPlayOutside, OutLabels
  <2>3. state' \notin {"Playing", "WaitingForTrigger"}
    BY <1>0, <1>2, <2>2 DEF Prepare, SetState, PlayStates
  <2>4. NoPlayOutside' /\ PlayHasJob' /\ JobsShot' /\ PlayingShot' /\ FireShot' /\ WaitIsOver'
    BY <1>0, <2>1, <2>3 DEF NoPlayOutside, OutLabels, ReportLabels, PlayHasJob, JobsShot,
       PlayingShot, FireShot, WaitIsOver
  <2>5. ServersShot' /\ JoinedShot'
    BY <1>0, <2>1 DEF ServersShot, JoinedShot, Joined
  <2> QED BY <2>4, <2>5
<1>3. CASE RefuseAbstract
  <2>1. /\ pc["job"] = "prepare" /\ pc'["job"] = "end" /\ Free(playMutex)
        /\ \A u \in Threads \ {"job"} : pc'[u] = pc[u]
        /\ UNCHANGED <<shot, playThread, invited, activePlayJob, activeShot>>
    BY <1>1, <1>3 DEF RefuseAbstract, loopVars, jobVars, targetVars
  <2>2. state \notin PlayStates /\ state' \notin PlayStates
    BY <1>0, <1>3, <2>1, SetStateQuiet DEF RefuseAbstract, NoPlayOutside, OutLabels
  <2> QED BY <1>0, <2>1, <2>2
          DEF NoPlayOutside, PlayHasJob, JobsShot, ServersShot, JoinedShot, Joined, PlayingShot,
              FireShot, WaitIsOver, PlayStates
<1>4. CASE SendReady
  <2>1. /\ pc["job"] = "sendReady" /\ pc'["job"] \in {"cancelJob", "clearMessages", "complete"}
        /\ \A u \in Threads \ {"job"} : pc'[u] = pc[u]
        /\ UNCHANGED <<state, shot, playThread, activePlayJob, activeShot>>
    BY <1>1, <1>4 DEF SendReady, loopVars, jobVars
  <2>2. activeShot = shot
    BY <2>1 DEF JobsShot
  <2> QED BY <1>0, <2>1, <2>2
          DEF NoPlayOutside, OutLabels, ReportLabels, PlayHasJob, JobsShot, ServersShot,
              JoinedShot, Joined, PlayingShot, FireShot, Reporting, WaitIsOver
<1>5. CASE CompleteCheck
  <2>1. /\ pc["job"] = "completeCheck"
        /\ pc'["job"] = "completeSleep" \/ (pc'["job"] = "save" /\ state \notin PlayStates)
        /\ \A u \in Threads \ {"job"} : pc'[u] = pc[u]
        /\ UNCHANGED <<state, shot, playThread, invited, activePlayJob, activeShot>>
    BY <1>1, <1>5
       DEF CompleteCheck, PlayNotOver, notLocks, engineVars, targetVars, loopVars, jobVars
  <2>2. pc["play"] # "fire"
    BY <2>1 DEF LockInv, Holds, Holding
  <2> QED BY <1>0, <2>1, <2>2
          DEF NoPlayOutside, OutLabels, ReportLabels, PlayHasJob, JobsShot, ServersShot,
              JoinedShot, Joined, PlayingShot, FireShot, WaitIsOver
<1>6. CASE Save \/ SendComplete \/ CancelLate \/ Finish \/ EndJob
  <2>1. /\ pc["job"] \in ReportLabels /\ pc'["job"] \in ReportLabels \cup {"idle"}
        /\ pc["job"] = "end" => pc'["job"] = "idle"
        /\ \A u \in Threads \ {"job"} : pc'[u] = pc[u]
        /\ UNCHANGED <<state, shot, playThread, invited, activeShot>>
    BY <1>1, <1>6
       DEF Save, SendComplete, CancelLate, Finish, EndJob, notPc, notEngine, engineVars,
           targetVars, loopVars, jobVars, ReportLabels
  <2>2. state \notin PlayStates /\ pc["play"] # "fire"
    BY <2>1 DEF NoPlayOutside, OutLabels, FireShot, Reporting
  <2> QED BY <1>0, <2>1, <2>2
          DEF NoPlayOutside, PlayHasJob, JobsShot, ServersShot, JoinedShot, Joined, PlayingShot,
              FireShot, WaitIsOver, ReportLabels, PlayStates
<1> QED BY <1>2, <1>3, <1>4, <1>5, <1>6 DEF JobNear

\* The job is handed over, the server begins its call, the call joins the earlier play
\* thread and triggers.
LEMMA ShotCall ==
    ASSUME TInv, ShotInv, StartJob \/ ServerCall \/ Join(Caller) \/ Trigger(Caller)
    PROVE  ShotInv'
<1> USE ThreadsFacts DEF ShotInv
<1>0. state \in EngineState /\ Caller \in {"job", "server"}
  BY DEF TInv, EngineType, Caller
<1>1. CASE StartJob
  <2>1. /\ state = "Parsed" /\ pc["server"] = "idle" /\ ~invited' /\ pc'["job"] = "prepare"
        /\ \A u \in Threads \ {"job"} : pc'[u] = pc[u]
        /\ UNCHANGED <<state, playThread, activePlayJob, activeShot>>
    BY <1>1 DEF StartJob, TInv, PcInv, PcType, Move, At, Goto, engineVars, loopVars
  <2> QED BY <1>0, <2>1
          DEF NoPlayOutside, PlayHasJob, JobsShot, ServersShot, JoinedShot, Joined, PlayingShot,
              FireShot, Reporting, ReportLabels, WaitIsOver, PlayStates
<1>2. CASE ServerCall
  <2>1. /\ invited /\ ~invited' /\ pc'["server"] = "clearMessages"
        /\ \A u \in Threads \ {"server"} : pc'[u] = pc[u]
        /\ UNCHANGED <<state, shot, playThread, activePlayJob, activeShot>>
    BY <1>2 DEF ServerCall, TInv, PcInv, PcType, Move, At, Goto, engineVars, loopVars, jobVars
  <2> QED BY <1>0, <2>1
          DEF NoPlayOutside, PlayHasJob, JobsShot, ServersShot, JoinedShot, Joined, PlayingShot,
              FireShot, Reporting, WaitIsOver
<1>3. CASE Join(Caller)
  <2>1. /\ pc[Caller] = "join" /\ pc'[Caller] \in {"armLocal", "serverTrigger"}
        /\ pc'["play"] = "arm" /\ \A u \in Threads \ {Caller, "play"} : pc'[u] = pc[u]
        /\ playThread' = shot /\ UNCHANGED <<state, shot, invited, activePlayJob, activeShot>>
    BY <1>0, <1>3 DEF Join, At, TInv, PcInv, PcType, engineVars, targetVars, jobVars
  <2>2. activeShot = shot
    BY <1>0, <2>1 DEF JobsShot, ServersShot
  <2> QED BY <1>0, <2>1, <2>2
          DEF NoPlayOutside, OutLabels, ReportLabels, PlayHasJob, JobsShot, ServersShot,
              JoinedShot, PlayingShot, FireShot, WaitIsOver, LeftWaiting
<1>4. CASE Trigger(Caller)
  <2>1. /\ pc[Caller] = "trigger" /\ pc'[Caller] \in {CallOver, "notifyTrigger"}
        /\ \A u \in Threads \ {Caller} : pc'[u] = pc[u]
        /\ UNCHANGED <<shot, playThread, invited, activePlayJob, activeShot>>
        /\ state' = SetStateOr(state, "Playing", "Error")
    BY <1>0, <1>4 DEF Trigger, TInv, PcInv, PcType, Move, At, Goto, notEngine, targetVars,
                      loopVars, jobVars
  <2>2. playThread = activeShot
    BY <2>1 DEF JoinedShot, Joined
  <2>3. /\ state' \in PlayStates => state \in PlayStates
        /\ state' # "WaitingForTrigger" \/ state = "WaitingForTrigger"
    BY <1>0, <2>1, SetStateQuiet, SetStateNoWait
  <2>4. Caller = "job" => CallOver = "complete"
    BY DEF Caller, CallOver
  <2> QED BY <1>0, <2>1, <2>2, <2>3, <2>4
          DEF NoPlayOutside, OutLabels, ReportLabels, PlayHasJob, JobsShot, ServersShot,
              JoinedShot, Joined, PlayingShot, FireShot, Reporting, WaitIsOver, CallOver
<1> QED BY <1>1, <1>2, <1>3, <1>4

\* The play thread, on its way to an event.
LEMMA ShotPlay == ASSUME TInv, ShotInv, FireNear PROVE ShotInv'
<1> USE ThreadsFacts DEF ShotInv
<1>0. /\ state \in EngineState /\ Caller \in {"job", "server"}
      /\ \A u \in {"job", "server"} : pc'[u] = pc[u]
      /\ UNCHANGED <<shot, playThread, invited, activePlayJob, activeShot>>
  BY DEF FireNear, Arm, TrigCheck, PlayLock, NextEvent, Sleep, TInv, EngineType, PcInv, PcType,
         Move, Goto, Caller, notEngine, notLocks, targetVars, loopVars, jobVars
<1>1. JobsShot' /\ ServersShot' /\ JoinedShot'
  BY <1>0 DEF JobsShot, ServersShot, JoinedShot
<1>2. CASE Arm \/ TrigCheck \/ PlayLock
  <2>1. /\ pc["play"] \in {"arm", "trigCheck", "playLock"}
        /\ pc'["play"] \in {"ready", "armError", "trigSleep", "fired", "nextEvent", "allLock"}
        /\ pc'["play"] = "fired" => state' # "WaitingForTrigger"
    BY <1>2 DEF Arm, TrigCheck, PlayLock, TInv, PcInv, PcType, Move, At, Goto, notLocks, engineVars
  <2>2. /\ state' \in PlayStates => state \in PlayStates
        /\ state' = "Playing" => state = "Playing"
    <3>1. CASE Arm
      BY <1>0, <3>1, SetStateQuiet DEF Arm, SetState
    <3>2. CASE TrigCheck
      BY <3>2 DEF TrigCheck, notLocks, engineVars
    <3>3. CASE PlayLock
      <4>1. state # "WaitingForTrigger"
        BY <3>3 DEF PlayLock, At, WaitIsOver, LeftWaiting
      <4>2. state' = "Playing" => state = "Playing"
        BY <1>0, <3>3, <4>1
           DEF PlayLock, SetStateOr, SetStateOk, SetState, IsAllowedTransition, Edges,
               EngineState, NormalStates
      <4> QED BY <1>0, <3>3, <4>2, SetStateQuiet DEF PlayLock
    <3> QED BY <1>2, <3>1, <3>2, <3>3
  <2> QED BY <1>0, <1>1, <2>1, <2>2
          DEF NoPlayOutside, PlayHasJob, PlayingShot, FireShot, WaitIsOver, LeftWaiting
<1>3. CASE NextEvent \/ Sleep
  <2>1. /\ UNCHANGED state /\ pc'["play"] \in {"eventsDone", "fire", "sleep", "nextEvent"}
        /\ pc'["play"] = "fire" => state = "Playing"
    BY <1>3 DEF NextEvent, Sleep, TInv, PcInv, PcType, Move, Goto, notLocks, engineVars
  <2>2. state = "Playing" => activePlayJob /\ playThread = activeShot /\ ~Reporting
    BY DEF PlayHasJob, PlayingShot, NoPlayOutside, OutLabels, Reporting, PlayStates
  <2> QED BY <1>0, <1>1, <2>1, <2>2
          DEF NoPlayOutside, PlayHasJob, PlayingShot, FireShot, Reporting, WaitIsOver, LeftWaiting
<1> QED BY <1>2, <1>3 DEF FireNear

LEMMA ShotNext == ASSUME TInv, LockInv, ShotInv, [Next]_vars PROVE ShotInv'
<1>1. CASE JobStep
  BY <1>1, SteadyJobStep, ShotSteady, ShotJob
<1>2. CASE StartJob \/ ServerCall \/ CallStep(Caller)
  BY <1>2, SteadyCall, ShotSteady, ShotCall
<1>3. CASE PlayStep \/ MeasureStep
  BY <1>3, SteadyPlay, ShotSteady, ShotPlay
<1>4. CASE \E th \in Threads \ {"measure"} : Stop(th)
  BY <1>4, SteadyStop, ShotSteady
<1>5. CASE TargetStep \/ HandlerDone \/ UserStop \/ UNCHANGED vars
  BY <1>5, SteadyOthers, ShotSteady
<1> QED BY <1>1, <1>2, <1>3, <1>4, <1>5 DEF Next

\* No lock is taken and no shot is in progress at the start.
LEMMA ShotInit == Init => LockInv /\ ShotInv
<1>1. Caller \in Threads
  BY DEF Caller, Threads
<1> QED BY <1>1
        DEF Init, LockInv, Holds, Holding, Backs, StopLabels, ShotInv, NoPlayOutside, PlayHasJob,
            JobsShot, ServersShot, JoinedShot, Joined, PlayingShot, FireShot, WaitIsOver,
            LeftWaiting, PlayStates, Threads

\* Only evt->play() makes an event played.
LEMMA OnlyFirePlays ==
    ASSUME TInv, [Next]_vars, NEW e \in Events, evts[e] # "played", evts'[e] = "played"
    PROVE  Fire
<1> USE DEF StoppedEvents
<1>1. CASE JobStep
  BY <1>1 DEF JobStep, Prepare, RefuseAbstract, WaitReady, ReadyWoken, ReadyTimeout,
     ReadyQueried, SetReady, MakeTrigger, SendReady, CancelJob, Complete, CompleteCheck,
     CompleteSleep, CompleteWoken, Save, SendComplete, CancelLate, Finish, EndJob, notPc,
     notEngine, notLocks, notMt
<1>2. CASE CallStep(Caller)
  BY <1>2 DEF CallStep, ClearMessages, CheckReady, Load, LoadFailed, Loaded, CallCancel, PlayAll,
     ArmOwned, ArmOwnedWait, ArmLocal, ArmLocalWait, ArmWaitEnter, ArmWaitDone, ArmStopped,
     ArmLate, ArmedOwned, Spawn, Join, RequestTrigger, ServerTrigger, Trigger, NotifyTrigger,
     notPc, notEngine, notMt
<1>3. CASE PlayStep \/ MeasureStep
  BY <1>3 DEF PlayStep, MeasureStep, Arm, ArmError, ArmStop, Ready, TrigLock, TrigCheck,
     TrigSleep, TrigWoken, Fired, PlayLock, NextEvent, Sleep, EventsDone, JoinMeasure, AllLock,
     AllCheck, AllWoken, AllTimeout, AllGrace, AllGiveUp, After, Final, NotifyComplete, Collect,
     Collected, notPc, notEngine, notLocks, notMt
<1>4. CASE \E th \in Threads \ {"measure"} : Stop(th)
  BY <1>4, StopSteps DEF StopEvents
<1>5. CASE StartJob \/ ServerCall \/ TargetStep \/ HandlerDone \/ UserStop \/ UNCHANGED vars
  BY <1>5 DEF StartJob, ServerCall, TargetStep, TargetReady, TargetArm, TargetComplete,
     DeliverReady, DeliverComplete, HandlerDone, UserStop, vars, notLocks
<1> QED BY <1>1, <1>2, <1>3, <1>4, <1>5 DEF Next

\* No event reaches the hardware but by the play thread of the shot in progress, before the
\* job thread has stopped waiting for it, whatever stops come in between: a play thread left
\* over from an earlier shot finds in playDeviceEvents that the engine is not Playing, or
\* is joined by resetPlayThread before the engine plays again.
THEOREM EventsAreOfTheirShot == Spec => EventsOnlyInTheirShot
<1>1. Init => LockInv /\ ShotInv
  BY ShotInit
<1>2. TInv /\ LockInv /\ ShotInv /\ [Next]_vars => LockInv' /\ ShotInv'
  BY LockNext, ShotNext
<1>3. TInv /\ LockInv /\ ShotInv /\ [Next]_vars =>
         [\A e \in Events : evts[e] # "played" /\ evts'[e] = "played" =>
             activePlayJob /\ playThread = activeShot /\ ~Reporting]_vars
  BY OnlyFirePlays DEF Fire, Move, At, ShotInv, FireShot
<1> QED BY <1>1, <1>2, <1>3, TInvHolds, PTL DEF Spec, EventsOnlyInTheirShot

==============================================================================
