---------------------------- MODULE TaskScheduler ----------------------------
(***************************************************************************)
(* STI::Utils::TaskScheduler: a loop runs the tasks that are due, clients  *)
(* add, replace, remove and switch tasks, and one of them runs a task at   *)
(* once.  A task's own code is called without schedulerMutex, so a task    *)
(* may be replaced or removed while it runs.  A task is a pair of its id   *)
(* and the number of the addTask that brought it; every critical section   *)
(* is one action.  The events sent to the listeners are left out.          *)
(***************************************************************************)
EXTENDS Naturals, FiniteSets

CONSTANTS TaskIDs,
          MaxAdds,    \* calls of addTask
          MaxChanges, \* other calls that change a task
          MaxRuns     \* calls of runNow

TaskObjects == TaskIDs \X (1 .. MaxAdds)
NoTask == <<0, 0>>

VARIABLES
    tasks,        \* the task of each id, or NoTask
    activeTasks,  \* the tasks the loop considers
    taskStatus,   \* TaskStatus of every task
    runningTasks, \* ids whose task is being run
    revised,      \* schedulerRevision differs from the loop's observedRevision
    ticking,      \* running
    loopAt,       \* where the loop is
    scheduled,    \* the due tasks of this round, still to be run
    sleepsLong,   \* the loop found no task: it sleeps until it is notified
    ranTask,      \* the loop has run a task in this round
    calling,      \* by thread: the task whose code it is in, or NoTask
    fetched,      \* the task runNow has looked up, or NoTask
    due,          \* tasks whose secondsToNextRun is not positive
    adds, changes, runs  \* history: calls

tVars == <<tasks, activeTasks, taskStatus, runningTasks, revised, ticking, loopAt, scheduled,
           sleepsLong, ranTask, calling, fetched, due, adds, changes, runs>>
loopVars == <<loopAt, scheduled, sleepsLong, ranTask>>
counters == <<adds, changes, runs>>

\* The map, the list of active tasks and the set of running ids have their types.
TaskTypeOK ==
    /\ tasks \in [TaskIDs -> TaskObjects \cup {NoTask}] /\ activeTasks \in SUBSET TaskObjects
    /\ taskStatus \in [TaskObjects -> {"New", "Active", "Inactive"}]
    /\ runningTasks \in SUBSET TaskIDs /\ revised \in BOOLEAN /\ ticking \in BOOLEAN
    /\ loopAt \in {"snap", "round", "asleep", "off"}
    /\ scheduled \in SUBSET TaskObjects /\ sleepsLong \in BOOLEAN /\ ranTask \in BOOLEAN
    /\ calling \in [{"loop", "user"} -> TaskObjects \cup {NoTask}]
    /\ fetched \in TaskObjects \cup {NoTask} /\ due \in SUBSET TaskObjects
    /\ adds \in Nat /\ changes \in Nat /\ runs \in Nat

TaskInit ==
    /\ tasks = [id \in TaskIDs |-> NoTask] /\ activeTasks = {}
    /\ taskStatus = [o \in TaskObjects |-> "New"] /\ runningTasks = {}
    /\ revised = TRUE /\ ticking = TRUE /\ loopAt = "snap"
    /\ scheduled = {} /\ sleepsLong = FALSE /\ ranTask = FALSE
    /\ calling = [t \in {"loop", "user"} |-> NoTask] /\ fetched = NoTask
    /\ due = {} /\ adds = 0 /\ changes = 0 /\ runs = 0

OfID(id) == {o \in activeTasks : o[1] = id}

-----------------------------------------------------------------------------
(* The clients. *)

\* Every change raises the revision and notifies.
Changed == revised' = TRUE

\* addTask: a task with the same id is replaced.
AddTask == \E id \in TaskIDs :
    LET o == <<id, adds + 1>> IN
    /\ adds < MaxAdds /\ adds' = adds + 1
    /\ tasks' = [tasks EXCEPT ![id] = o]
    /\ taskStatus' = [taskStatus EXCEPT ![o] = "Active"]
    /\ activeTasks' = (activeTasks \ OfID(id)) \cup {o}
    /\ Changed
    /\ UNCHANGED <<runningTasks, ticking, loopVars, calling, fetched, due, changes, runs>>

\* deactivateTask_.  Mutant: the status alone.
DeactivatedStatus(id) ==
    /\ taskStatus' = IF tasks[id] = NoTask THEN taskStatus
                     ELSE [taskStatus EXCEPT ![tasks[id]] = "Inactive"]
    /\ UNCHANGED activeTasks
Deactivated(id) ==
    /\ taskStatus' = IF tasks[id] = NoTask THEN taskStatus
                     ELSE [taskStatus EXCEPT ![tasks[id]] = "Inactive"]
    /\ activeTasks' = activeTasks \ OfID(id)

RemoveTask(id) == Deactivated(id) /\ tasks' = [tasks EXCEPT ![id] = NoTask]

DeactivateTask(id) == Deactivated(id) /\ UNCHANGED tasks

ActivateTask(id) ==
    /\ IF tasks[id] # NoTask
       THEN /\ taskStatus' = [taskStatus EXCEPT ![tasks[id]] = "Active"]
            /\ activeTasks' = IF OfID(id) = {} THEN activeTasks \cup {tasks[id]} ELSE activeTasks
       ELSE activeTasks' = activeTasks \ OfID(id) /\ UNCHANGED taskStatus
    /\ UNCHANGED tasks

ClearTasks ==
    /\ taskStatus' = [o \in TaskObjects |-> IF o \in {tasks[id] : id \in TaskIDs}
                                            THEN "Inactive" ELSE taskStatus[o]]
    /\ tasks' = [id \in TaskIDs |-> NoTask] /\ activeTasks' = {}

ChangeTask ==
    /\ changes < MaxChanges /\ changes' = changes + 1
    /\ \/ \E id \in TaskIDs : RemoveTask(id) \/ DeactivateTask(id) \/ ActivateTask(id)
       \/ ClearTasks
    /\ Changed
    /\ UNCHANGED <<runningTasks, ticking, loopVars, calling, fetched, due, adds, runs>>

StopTasks ==
    /\ ticking /\ ticking' = FALSE /\ Changed
    /\ UNCHANGED <<tasks, activeTasks, taskStatus, runningTasks, loopVars, calling, fetched,
                   due, counters>>

\* Time passes.
BecomeDue == \E o \in TaskObjects \ due :
    /\ o \in activeTasks /\ due' = due \cup {o}
    /\ UNCHANGED <<tasks, activeTasks, taskStatus, runningTasks, revised, ticking, loopVars,
                   calling, fetched, counters>>

-----------------------------------------------------------------------------
(* run(), by the loop and by runNow. *)

\* The first critical section.  Mutant: a task that is running may be run again.
MayRunTwice(o, requireActive) ==
    /\ tasks[o[1]] = o
    /\ requireActive => OfID(o[1]) # {}
MayRun(o, requireActive) ==
    /\ tasks[o[1]] = o /\ o[1] \notin runningTasks
    /\ requireActive => OfID(o[1]) # {}

Enter(t, o) ==
    /\ runningTasks' = runningTasks \cup {o[1]} /\ Changed
    /\ calling' = [calling EXCEPT ![t] = o]

\* The second one: a task that does not repeat is deactivated, if it is still the task of
\* its id.  Mutant: whatever the task of its id is now.
StillThereID(o) == tasks[o[1]] # NoTask
StillThere(o) == tasks[o[1]] = o

Leave(t) ==
    LET o == calling[t] IN
    /\ o # NoTask
    /\ calling' = [calling EXCEPT ![t] = NoTask]
    /\ runningTasks' = runningTasks \ {o[1]} /\ Changed
    /\ due' = due \ {o}
    /\ \/ UNCHANGED <<taskStatus, activeTasks>>
       \/ StillThere(o) /\ Deactivated(o[1])
    /\ UNCHANGED <<tasks, ticking, loopAt, scheduled, sleepsLong, fetched, counters>>

RunNow == \E id \in TaskIDs :
    /\ runs < MaxRuns /\ runs' = runs + 1
    /\ fetched = NoTask /\ calling["user"] = NoTask /\ fetched' = tasks[id]
    /\ UNCHANGED <<tasks, activeTasks, taskStatus, runningTasks, revised, ticking, loopVars,
                   calling, due, adds, changes>>

UserEnter ==
    /\ fetched # NoTask /\ fetched' = NoTask
    /\ IF MayRun(fetched, FALSE) THEN Enter("user", fetched)
       ELSE UNCHANGED <<runningTasks, revised, calling>>
    /\ UNCHANGED <<tasks, activeTasks, taskStatus, ticking, loopVars, due, counters>>

UserLeave == Leave("user") /\ UNCHANGED ranTask

\* The task's code throws: runNow's caller gets the exception.
UserThrow ==
    LET o == calling["user"] IN
    /\ o # NoTask /\ calling' = [calling EXCEPT !["user"] = NoTask]
    /\ runningTasks' = runningTasks \ {o[1]} /\ Changed
    /\ UNCHANGED <<tasks, activeTasks, taskStatus, ticking, loopVars, fetched, due, counters>>

-----------------------------------------------------------------------------
(* taskLoop. *)

Snapshot ==
    /\ loopAt = "snap"
    /\ IF ticking
       THEN /\ loopAt' = "round" /\ scheduled' = activeTasks \cap due
            /\ sleepsLong' = (activeTasks = {}) /\ ranTask' = FALSE /\ revised' = FALSE
       ELSE loopAt' = "off" /\ UNCHANGED <<scheduled, sleepsLong, ranTask, revised>>
    /\ UNCHANGED <<tasks, activeTasks, taskStatus, runningTasks, ticking, calling, fetched,
                   due, counters>>

LoopEnter == \E o \in scheduled :
    /\ loopAt = "round" /\ calling["loop"] = NoTask
    /\ scheduled' = scheduled \ {o}
    /\ IF MayRun(o, TRUE) THEN Enter("loop", o)
       ELSE UNCHANGED <<runningTasks, revised, calling>>
    /\ UNCHANGED <<tasks, activeTasks, taskStatus, ticking, loopAt, sleepsLong, ranTask,
                   fetched, due, counters>>

LoopLeave == Leave("loop") /\ ranTask' = TRUE

\* A round in which a task ran is followed by another; so is one in which anything changed.
\* Mutant: the loop sleeps whatever changed.
SleepyAnyway == ~ranTask /\ ticking
Sleepy == ~ranTask /\ ~revised /\ ticking

EndRound ==
    /\ loopAt = "round" /\ scheduled = {} /\ calling["loop"] = NoTask
    /\ loopAt' = IF Sleepy THEN "asleep" ELSE IF ranTask \/ ticking THEN "snap" ELSE "off"
    /\ revised' = (revised /\ ~Sleepy)
    /\ UNCHANGED <<tasks, activeTasks, taskStatus, runningTasks, ticking, scheduled,
                   sleepsLong, ranTask, calling, fetched, due, counters>>

\* Notified, or the time of the next task has come.
WakeLoop ==
    /\ loopAt = "asleep" /\ (revised \/ ~ticking \/ ~sleepsLong) /\ loopAt' = "snap"
    /\ UNCHANGED <<tasks, activeTasks, taskStatus, runningTasks, revised, ticking, scheduled,
                   sleepsLong, ranTask, calling, fetched, due, counters>>

TaskLoop == Snapshot \/ LoopEnter \/ LoopLeave \/ EndRound \/ WakeLoop
TaskUser == UserEnter \/ UserLeave \/ UserThrow

TaskNext == AddTask \/ ChangeTask \/ StopTasks \/ BecomeDue \/ RunNow \/ TaskUser \/ TaskLoop

TaskSpec == TaskInit /\ [][TaskNext]_tVars

\* The loop runs; tasks come to an end.
TaskFairSpec == TaskSpec /\ WF_tVars(TaskLoop) /\ WF_tVars(TaskUser)

-----------------------------------------------------------------------------
(* Properties. *)

\* The list of active tasks and the map agree, through every replacement, removal and end
\* of a run: a task is in the list exactly if it is its id's and its status is Active.
TaskListsAgree ==
    \A o \in TaskObjects : o \in activeTasks <=> tasks[o[1]] = o /\ taskStatus[o] = "Active"

\* The code of two tasks with one id never runs at the same time, not even when the first
\* was replaced while it ran; and an id is released by the run that took it.
TaskRunsAlone ==
    /\ calling["loop"] # NoTask /\ calling["user"] # NoTask
           => calling["loop"][1] # calling["user"][1]
    /\ runningTasks = {calling[t][1] : t \in {u \in {"loop", "user"} : calling[u] # NoTask}}

\* The end of a run takes no task out of the list but the one that ran: a replacement that
\* came meanwhile stays active, though the old task does not repeat.
TaskReplacementStays ==
    [][\A o \in activeTasks \ activeTasks' :
        adds' = adds /\ changes' = changes => o \in {calling["loop"], calling["user"]}]_tVars

\* An active task that is due is run, or is not active any more: no change gets lost between
\* the loop's look at the list and its sleep.
TaskDueRuns ==
    activeTasks \cap due # {} ~> ~ticking \/ activeTasks \cap due = {}

=============================================================================
