# STI3: a verification project for the device layer

STI3 runs timed experiments on a tree of *devices*: a user writes a *shot* (timed events
on channels of devices), the root device *parses* it (every device turns its part into
hardware events) and *plays* it (every device waits for one trigger, then fires its events
and collects its measurements). The core is `src/src/device`: each device has event
*engines* that parse and play, and a *scheduler* that gives jobs to the engines. Nearly
everything there is done by threads that share flags, lists and condition variables, and a
stop request may come at any moment.

This directory holds TLA+ models of that core, TLC configurations that check them on small
instances, and theorems that TLAPS checks for every value of the constants.

Paths below are relative to the repository's root directory `src/`; `LocalEventEngine.cpp`
and its neighbours are in `src/device/src`, public headers in `include/sti`.

## 1. The system's parts

| part | state | operations | what is hard | what makes it correct |
|---|---|---|---|---|
| **LocalEventEngine, play path** (`LocalEventEngine.cpp:1108-2406`) | state machine, `cancelled`, `playMutex`/`playCondition`, `triggerMutex`/`triggerCondition`, play messages, answers of owned devices, play thread | `play(job)`, `play(jobID)`, `playShot`, `measureData`, `trigger`, `stop`, PlayReady and PlayComplete handlers | six threads; `stop()` holds no lock and acts on a state it read before; timeouts race late answers | results and reports say what happened; no event outside its shot; nobody waits for ever |
| **LocalEventEngine, parse path** (`:745-1106`) | event lists, dependency subtree, answers of owned devices | `parse(job)`, `parseDevice`, `handleParseMessage`, `cancelParseJob` | partner events travel while devices finish; an answer to an earlier parse comes late | every event is with its device when that gets its job; Parsed means all have parsed; a parse ends |
| **EventEngineStateMachine** | one state | `setState`, `isState` | - | only the table's edges are taken |
| **MasterTrigger** | arming list, `running` | `arm`, `ready`, `triggerFired`, `stop`, `waitForArmFor` | a `stop()` before the wait is forgotten; the object is replaced by the next job | a trigger comes when all wait |
| **LocalEventEngineScheduler, jobs** | queued, running and completed lists, managers, `jobMutex`/`jobCondition` | `parse`, `play`, `addJob`, `cancelJob`, `assignJobs`, `jobComplete`, `jobCanceled` | cancellation holds no lock; a job is in no list while it moves | a play meets its parse; plays do not overlap; every job ends |
| **LocalEventEngineScheduler, sequences** | queued, current and completed sequences, their entries, the mode | `addSequence`, `closeSequence`, `cancelSequence`, `setSequenceSchedulingMode`, the filter of `assignJobs` | a sequence keeps the engine between two of its jobs; entries are marked after the job was reported | sequences do not interleave; completed means played; jobs that wait get their turn |
| **EventEngineManager** | `running`, `currentJob`, job thread | `submitJob`, `abortJob`, `runJob` | the job thread reports before it clears `running` | one job at a time, reported once |
| **Ticket managers** (`include/sti/engine/*TicketManager.h`) | tickets by job id | `makeTicket`, the handlers of four messages | a job ends between the registration and the status query; messages come through a queue | a ticket tells the truth, and ends |
| **EventQueue** (`include/sti/utils/EventQueue.h`) | list, running flag, the handler's copy | `addEvent`, `addPriorityEvent`, `clearEvents`, `start`, `stop` | the handler works on a copy without the lock | each event is handled once; `stop` returns |
| **MessageGrouper** (`include/sti/device/MessageGrouper.h`) | the group, a cached message, the loop's phase | `addMessage`, `start`, `stop` | messages that come between warmup, dispatch and cooldown; ones that cannot be grouped | all are sent, once, in order |
| **TaskScheduler, LocalTaskManager** | task map, active list, running ids, revision | `addTask`, `removeTask`, `clear`, `activateTask`, `deactivateTask`, `runNow`, `run`, `stop` | callbacks outside the lock, while their task is replaced | one run of an id at a time; a replacement survives; what is due runs |
| **Hubs and Distributer** (`include/sti/network/LocalHub.h`, `NetworkDeviceHub.cpp`) | references to hubs and to devices, who collects what | `addNode`, `removeNode`, `refresh`, `distribute`, `connect`, the refresh task | processes crash and come back; calls time out but go on; a ping is missed | devices find each other; an owner keeps its devices; hubs reconnect |
| LocalEventEngineDependencyParser, DependencyTree | tree of device ids | passes over targets, topological sort | cycles, missing devices | the order respects the tree |
| LocalResultsCollector | results of the owned devices | collect after a shot | late or missing devices | all that is there is collected |
| EvaluationBarrier, SynchronizedMap, CachedValue | one value or map under a lock | wait, set, get | a barrier is reset while somebody waits | - |
| RemoteEventEngineScheduler, CORBA layer, Python and Java bindings | connections | forwarding | I/O | - |
| Persistence, log repository, attributes, profiles, monitors, post-processing | tables under one lock; files | get, set, save | I/O | - |

How they interact. A client calls `parse` and `play` of the root's scheduler. The scheduler
thread assigns a job to an `EventEngineManager`, whose job thread calls `parse(job)` or
`play(job)` of its engine. A play of a device that owns others adds a play job to *their*
schedulers; each owned engine sends PlayReady with a reference to itself, then the owner
calls `play(jobID, callback)` on every reference, the owned engine arms and calls
`ready()`, the owner calls `trigger()`, and each owned engine sends PlayComplete when it is
done. `stop()` goes down the same tree. The job thread reports to the scheduler, which
tells the clients by update messages, which travel
through an EventQueue to the ticket managers, where a client may wait for its job. The
root finds the schedulers of the devices it owns through the hubs: one per process, which
hand references to devices on to each other.

`PROJECT.json` lists every part with its status, and under `hazards` the places where this
code can go wrong in a way a test would hardly reach.

## 2. Modules

| module | models | |
|---|---|---|
| `EngineStates` | `EventEngineStateMachine.cpp` | the table, `setState` and its fallback, as operators |
| `MasterTrigger` | `MasterTrigger.cpp` | the arming list as a value, one operator per method |
| `PlayEngine` | the play path of one engine | composes the two above; the threads as actions |
| `ParseEngine` | the parse path of an engine that serves others | uses `EngineStates` |
| `JobLedger` | what the scheduler's clients see of a job | abstract |
| `JobScheduler` | the scheduler's job handling with the managers | an engine is a state and a last parse |
| `JobOrder` | `EngineJobID.h`, the order of the job lists | pure operators |
| `SequenceScheduler` | the scheduler's sequences, and `play`'s search for the parse | uses `JobOrder` |
| `Tickets` | both ticket managers | with scheduler and engine as far as they see them |
| `Mailbox` | what a queue with one handler promises | abstract |
| `EventQueue` | `EventQueue.h` | implements `Mailbox` |
| `MessageGrouper` | `MessageGrouper.h` | |
| `TaskScheduler` | `TaskScheduler.cpp`, `LocalTaskManager.h` | |
| `DeviceHub` | the hubs and the Distributer | processes that crash |
| `*_proofs` | | theorems: `PlayEngine` (in `PlayEngine_proofs`, and `PlayResult_proofs`, which extends it), `ParseEngine`, `JobScheduler` with `JobOrder`, `SequenceScheduler`, `Tickets`, `DeviceHub`; `Services_proofs` is about `EventQueue`, `MessageGrouper`, `TaskScheduler` and the composition `MCServices` |
| `MCPlayEngine`, `MCJobScheduler` | | instances for TLC |
| `MCSchedulers` | the scheduler's jobs, and its sequences | two systems in one run |
| `MCServices` | queue, grouper, tasks, tickets, parse | several systems in one run |
| `MCNetwork` | a laboratory of hubs, in three parts, and a `PlayEngine` that plays for a server | several systems in one run |

`MCSchedulers`, `MCServices` and `MCNetwork` check systems that do not touch each other: a
variable `part`, chosen in the beginning, says which one a behaviour is about, and the variables
of the others rest. No state is lost or added by that; each part is explored in full. The
laboratory of `MCNetwork` as a whole has too many states: each of its parts leaves some steps out
(crashes, or removals and missed pings) or a hub that never starts.

### PlayEngine

One engine (`Self`) that owns the devices `Targets`, plays `NShots` jobs of `NEvents` events,
one after the other. `Owner` tells whether this device owns the jobs (then its job thread
calls `play(jobID)` and triggers) or a server above it does.

Threads, and where each is in `pc`:

- `job`: `EventEngineManager::runJob` in `play(job)` (1384-1611), then the report;
- `play`: `playShot` (1800-1828), left running when a stop ends the job early;
- `measure`: `measureData` (2255-2311), joined by `play` with `playMutex` held;
- `handler`: delivers PlayReady and PlayComplete (1108-1208);
- `server`: the caller of `play(jobID)` and `trigger` when `Owner` is false;
- `user`: `stop()` through `abortJob`, `stopEngine` or `stopAll`, `MaxStops` times.

A step is what a thread does between two points where another can be seen to act: taking or
releasing a lock, testing the state machine, sleeping, notifying. Several tests of flags
under one lock are one step, a test and the sleep that follows it are two where the notifier
takes no lock (`completeSleep`, `trigSleep`): in between a wakeup is lost, and the history
variable `missed` records it. `stop()` is up to six steps
that work on the state read by the first, as the code's local variable does: the message and the
trigger object (`StopRead`), the state (`StopSet`), the flag `cancelled` (`StopCancel`), the
notifies of the trigger and of the play (`StopTrigger`, `StopRelease`; `ReleasesTrigger` says of
which states the first is due), and the events (`StopEvents`, if `StopsEvents`). Anything
may happen between two of them, the end of the shot and the beginning of the next included; the
history variable `strayed` has the shots whose events were stopped by a `stop()` of an earlier
one. The loop of `stopDeviceEvents` over the events is one step.
`Next` is over once a thread uses the trigger objects of a job that is gone (`crashed`):
the code has then a freed object in its hands and anything may follow.

Owned devices are seen through their messages and callbacks: asked, ready, called, armed,
playing. Messages are a set: delivered in any order, or never.

Abstractions: messages in `playReadyMessages` and `localPlayMessages` are the set of kinds
of error that are among them (`Ready`, `Play`, `Canceled`), which is all the code asks of
them; times are gone, so a timed wait may end at any step (an event that is not due, a
deadline that has passed); of an event only loaded, played or stopped is kept.

Not in the model: pause and unpause, a trigger delegated to another device, a
`play(jobID)` with a foreign parse id, `unload`, post-processing.

### JobLedger, JobScheduler

`SyncEngines` synchronous engines and the asynchronous one (id 0), `NParses` parses and
`NPlays` plays submitted in that order, `MaxCancels` calls of `cancelJob` (`stopEngine`
cancels the manager's job the same way). `assignJobs` is cut at the points where
`_cancelJob`, which takes no lock, or a manager's job thread can be seen: the scan, each
play, each parse, and the two list changes that end `assignJob` (`LeaveQueue`,
`EnterRunning`) after `submitJob` has already started the job's thread. `mutex` is
`jobMutex`; the scheduler holds it from one wait to the next.

`JobLedger` is what all of this looks like from outside, by the update messages (`told`) and the
completed lists (`done`): a job is accepted, started or given up, finished once, at the head of
the ledger of its type, and archived when the ledger is full of later ones. There are no threads
in it and no locks. A job that was withdrawn is exempt, because a cancellation holds no lock: it
may be told of as running when it was already recorded as cancelled (finding 5), and enters
the ledger again when `_cancelJob` comes late.

What an engine does with a job is two steps, `Begin` and `End`; `stop()` is one step here (its
parts are `PlayEngine`'s subject), and the writes that `_cancelJob` makes to the status, the lists
and the messages between two of its locks are taken together. `End` may fail, and after a failed
play the engine is in Error or back in Parsed, as `PlayEngine` shows.

Not in the model: sequences (`SequenceScheduler` has them), `cancelAll` and
`stopAll` (each is `cancelJob` or `stop` for every job), `clearEngine`, adding engines,
shutdown.

### ParseEngine

The engine of a device that serves `NDevices` others, through `NParses` parses. The parse
thread sends each device its job once every device that may generate events for it has
answered (the dependency subtree, in the order `sortTree` gives); between two of its waits it
holds `parseMutex`, so such a stretch is one step, and the wait is two, because `stop()`
notifies without the mutex: `missedStop` records the wakeup that falls between. The answers
are a set of records with the parse they are about, which the handler takes in any order;
devices may fail to answer (`silent`) or answer after the parse was aborted. An answer may
bring events for a device that is still to come. `stop()` is three steps (`AbortRead`,
`AbortSet`, `AbortFlag`), as in `PlayEngine`.

Not in the model: what the device's own parser does with an event, partner events that pass
by this device, post-processing requests.

### SequenceScheduler, JobOrder

Sequences with a table (`Sequences` without `OpenSequences`) and open ones, each with the same
`Entries`; every entry is parsed and then played, on the one synchronous engine. A round of
`assignJobs` (one action, under `jobMutex`) refreshes the current sequence, filters the queued
jobs in the Normal mode, and assigns the foremost by `EngineJobID::operator<`. That order has
a cycle (theorem `OrderHasCycle`), so the model takes any job that has no other before it. A
play is submitted in three steps: `play(parseID)` marks the entry of its sequence without
`jobMutex` (`MarkEntry`), looks for the parse under it (`FindParse`), and adds the job later, or
returns NotFound and leaves the entry New. The parse is found in the queue, on the engine, or
among the last `LastParses` that are done (`keptParses`, the code's `completedParseJobs`).

Not in the model: `parse(shot, SequenceID)`, which appends an entry New when it is parsed
(`LocalEventEngineScheduler.cpp:889-904`; for the first one `SequenceResult::append` reads the last
element of an empty map, which is undefined); an index that is not in the table; more than one
synchronous engine; an entry submitted again; what is done with failed parses on disk.

### Tickets

One parse and one play of it, `MaxTickets` tickets, of either job, made at any moment: before
the job is queued, while it runs, after it has left the lists. `makeTicket` holds
`managerMutex` and so do the handlers. The update messages wait in `mail`, an EventQueue, and
are handled in order; the steps of the scheduler and the engine (status, list, message, result)
are separate, in the order of the code, so that a ticket meets every one of them.

### Mailbox, EventQueue

`Mailbox` is the promise: events are put in line (an urgent one in front), delivered one by one,
and forgotten only when the box is emptied. `EventQueue` is the code: `wait`, the copy of the
front element under `fifoMutex`, the handling without it, `clearEvents` in between, and `stop()`,
which joins the thread. The refinement maps the list to the line and the handler's fresh copy to
the event in the postman's hand.

### MessageGrouper

Senders add messages, some of which cannot be grouped with what waits; the loop goes through
warmup, dispatch and cooldown. Time is not measured: a phase may end at any step, which
covers every choice of the three durations.

### TaskScheduler

Tasks are pairs of an id and the number of their `addTask`, so that a task and its
replacement are told apart, as two objects are in the code. The loop copies the list of active
tasks and runs what is due; a client adds, replaces, changes, removes and runs tasks. A task's
code is two steps, `Enter` and `Leave` (or a throw), and everything else may happen between
them. `revised` says that the revision number is no longer the one the loop has seen: what
was notified between the copy and the sleep is not lost.

### DeviceHub

One hub per process. A call between hubs is synchronous in the code, but its caller gives up
after a time-out and the call goes on, while locks are held that make such waits happen. The
model is an over-approximation: a call is put into `calls`, from which any may begin next; one
step is a call up to those that it makes itself. References are numbers of lives: one that
leads to a process that has ended is dead, and a call through it fails, which is what prompts
`removeNode`. `expelled`, `refused`, `killed` and `misses` are history: whether a living device
was taken from its owner without a removal by it, which devices were taken for dead, which
were removed, and how many pings were missed.

Assumed: a process takes longer to start again than the calls of its earlier life take; a device
that was killed is not added again in the same life of its process; a hub does not rebind its own
name, nor prune names (off by default). Not in the model: a living hub that misses a ping, which
the refresh task disconnects and connects again in the next round
(`NetworkDeviceHub.cpp:597-605`); pings of devices may be missed. `redistributeNodes` has no
caller. The periodic maintenance does not refresh devices, so that a dead reference may stay until
the next `addNode` or a new link: `DevicesAreFound` is about partners that live.

## 3. What the runs check

| run | instance | shows |
|---|---|---|
| `play_leaf` | no owned devices, 2 shots, 2 events, 1 stop, failures | `TypeOK`, `JobReturnsQuiescent`, `SuccessMeansPlayed`, `ReportMatchesResult`, `EventsOnlyInTheirShot` |
| `play_server` | owner of the job, 1 device, 1 shot, 1 event, 1 stop, fair | `TriggerOnlyWhenArmed`, and that the measurement drains and the job ends |
| `job_sched` | 2 engines (one asynchronous), 2 parses, 2 plays, 1 cancel, failures | `TypeOK`, `OnePlayAtATime`, `MessagesFollowLists`, `PlaysWhatWasParsed`, `PlayNotLost`, `ClientsSeeALedger`: the scheduler implements `JobLedger` |
| `schedulers` | `MCSchedulers`, fair: 2 engines, 2 parses, 1 play, 1 cancel; or a table and an open sequence of 1 entry, 1 parse of neither, 1 call | `JobsEnd`; `SequencesDoNotInterleave`, `CompletedMeansPlayed`, `QueuedJobsRun` |
| `services` | `MCServices`, five parts (below), fair | their types, and what each of them promises |
| `network` | `MCNetwork`, a laboratory of three hubs, in three parts, and an engine that plays for a server | `HubTypeOK`, `DevicesAreFound`, `OwnersKeepDevices`, `HubsReconnect`; `PlayReadyMeansAllAnswered` |
| `lost_wakeup`, `shots_overlap`, `stop_success`, `job_livelock`, `job_recompleted`, `hub_replacement` | | the six findings of section 5 |

The parts of `services` and their properties:

| part | instance | safety | liveness |
|---|---|---|---|
| queue | 3 events, 1 clear, 2 starts | `QueueAtMostOnce`; `QueueIsMailbox`: the queue implements `Mailbox` | `QueueHandles`: what is in the queue is handled or cleared; `QueueStops`: `stop` returns |
| grouper | 2 senders, 4 messages, 1 stop | `GrouperOrder`: sent once, in the order of each sender | `GrouperSends` |
| tasks | 1 id, 2 adds, 2 changes, 1 run by a client | `TaskListsAgree`, `TaskRunsAlone`, `TaskReplacementStays`: the end of a task's last run does not remove its replacement | `TaskDueRuns` |
| tickets | a parse and its play, 2 tickets | `TicketsTellTruth`, `TicketsInMap` | `TicketsEnd`: nobody waits for ever for a job that ends |
| parse | 2 devices, 2 parses, 1 stop | `ParsedMeansAllParsed`, `EventsReachTheirDevice` | `ParseEnds` |

Bounds and why they are enough. *Engine.* Two shots are needed for anything that one shot leaves
to the next (a thread, a message, a trigger object), and a third adds nobody new: only two play
threads are ever concerned, the one being joined and the one being started. One stop meets every
step of every thread; a second one meets only what the first has left, and the engine's own
threads call `stop()` too. Two events tell "all", "some" and "none" apart; one owned device tells
"all have answered" from "none has". `SuccessMeansPlayed` is checked over two shots with failures
and no owned device, since what one shot does to the next is in the engine itself; with a device,
failures and one shot it has been checked by hand, and it is proved for all of these together.
*Scheduler.* `completedParseJobs` holds three jobs in the code and one (`ParsesKept`) in the runs,
so that two parses are enough to drive a job out; `completedPlayJobs` keeps its six. An engine
parses twice, so that a parse is lost to the next one. The safety properties have also been
checked with three parses and two plays (15 million states), which takes too long to repeat each
time, and are proved for all sizes. *Queue.* An urgent event, one that it overtakes, and one that
a queue started again handles. *Grouper.* A group that is sent, one that waits, and one that
cannot join either. *Tasks.* A task and the one that replaces it, while the loop and a client want
to run it. *Tickets.* Two for one job, or one for each. *Sequences.* One that ends by its table
and one that is closed, and a parse that waits for both; a single entry is enough for its parse
and its play to have something in between. One parse that is done is found (`LastParses`; three in
the code), so that the next one drives it out. By hand the same properties were checked with two
calls (744,393 states), and with two entries of one table (126,961 states), where a play whose
parse has left the list meets its sequence's other entry. *Parse.* The second device waits for the
first one's events; an answer to the first parse meets the second. *Hubs.* In `crashing` two
processes live up to twice each; in `failing` a device ends and a ping is missed; in `growing` a
hub joins two that are connected, which is the first case in which a reference is handed on. A hub
that was never started is not waited for: the hubs are at rest when those that were started run
and are linked to the server.

No run checks for deadlock: after the last shot, job or call everything rests. That nothing
rests too early is what the liveness properties are for, and `HubsReconnect`.

### Fairness

`PlayEngine`: weak fairness of each thread, timers included (a deadline passes), because
the operating system runs every thread; nothing of the user, the owned devices, the
delivery of messages or the server. `AllGiveUp` is strongly fair: the grace given to owned
devices that still play is bounded in the code by `measurementDeadline` and one delivery
grace (`LocalEventEngine.cpp:1931-2000`), so the wait is given up in the end. A hardware
trigger that was requested is assumed to return. `JobEnds` is stated up to a lost wakeup
(finding 1): whatever else happens, the job ends.

`JobScheduler`: weak fairness of a cancellation that was begun; strong fairness of the
threads that wait for `jobMutex`, because the scheduler leaves it again and again, in waits
of 100 ms. Where it does not (finding 4), `JobsEnd` has no instance: `schedulers` has a free
engine at all times, and `job_livelock` shows the other case. Nobody has to submit or
cancel anything.

`MCServices` and the sequences: each part keeps the fairness of its own module, weak in all of
them: a thread that can go on does (the loops of queue, grouper and tasks, a round of the
scheduler, the parse thread, a call that was begun), a job on an engine ends, a message in a queue
is delivered. Nobody has to call anything. In `ParseEngine` a device answers or never will
(`silent`), and in `TaskScheduler` a client that entered a task's code leaves it. What the
promises leave out is named in them, most by a history variable: a parse that waits for a device
that is silent, or that lost its wakeup (`missedStop`); a play's ticket that was made when
`PlayComplete` had been handled (`late`) or was replaced by a second one for the same job
(`replaced`); the jobs that wait for a current sequence that is never done, for one of four
reasons. It is open and nobody closed it (`LeftOpen`); it was open, had an entry and was cancelled
(`CancelledOpen`); an entry of its table was not submitted for play (`NeverPlayed`); or was, and
its parse was not found (`ParseNotFound`). A current sequence that is not done for any other
reason would be a violation. All four happen in the code (section 5).

`DeviceHub` assumes no fairness, since a process may be down for good: `HubsReconnect` says
instead that when no call is left, a running hub that is not linked to the running server both
ways has a refresh task to come, its own or the server's, that connects them (`CanConnect`,
`CanRefresh`: what the actions `ConnectToTarget` and `RefreshConnection` ask for).

## 4. What is proved

`PlayEngine_proofs`, for every finite set of owned devices that does not contain the device
itself (`TargetsAssumption`), any number of shots, events and stops (`BoundsAssumption`),
with and without faults and ownership (`FlagsAssumption`):

- `TypeCorrect`: `Spec => []TypeOK`. `TypeOK` is not inductive by itself: a message carries
  the shot of its device, and a result is stored under the shot of the job, so the
  strengthening `TInv` adds that the job in progress and every device at work have one
  (`PcInv`, `TargetInv`).
- `QuiescentReturn`: `Spec => []JobReturnsQuiescent`. Once the job thread has left
  `waitForPlayComplete`, no thread takes the engine back into a play state before the job is
  reported: every `setState` to a play state starts from one, except `Prepare`, which is the
  job thread's own.
- `ReportFollowsResult`: `Spec => ReportMatchesResult`. A shot reported Completed was saved
  as Success or CompletedWithErrors, unless a stop is half done at that moment. The
  invariant `ReportInv` adds three facts to the two above: a `stop()` called by the job thread
  returns to a place before the report (`StopsBack`); a "Play canceled" message is among the
  errors only if the job is cancelled or the stop that wrote it is still on its way to
  saying so (`StopRecorded`); and what was saved agrees with `cancelled` as long as nobody
  has raised it since (`SavedResult`). Most actions touch none of this: `Calm` says what such a
  step leaves alone, one lemma per thread shows that its steps are calm (`CalmCall`,
  `CalmPlay`, `CalmJob`, `CalmOthers`), and only `stop()` and the five steps in
  `ReportStep` are looked at one by one.

In the second part of `PlayEngine_proofs`, about what an engine and its owned devices know of
each other:

- `ReadyMeansAnswered`: `Spec => PlayReadyMeansAllAnswered`. `SetReady` tests a flag per device;
  that the flag is true of the device needs `AnswerInv`: the job that begins is newer than all
  that the devices work on (`JobAhead`, `TargetsBehind`), and a message is of the job its device
  works on, which it has then answered, or of an earlier one (`AnswersTrue`). So what
  `DeliverReady` accepts, by the job's number alone, is an answer to this job
  (`ReadyAnswered`). Every other step is `Quiet`.
- `TriggerFindsAllArmed`: `Spec => TriggerOnlyWhenArmed`. Between `waitForArmFor` and `trigger()`
  the job thread holds no lock and tests nothing again. `TrigInv`: from `arm(localDeviceID)` to
  `trigger()` it has a trigger of which every device is a key (`AllKnown`), also while it
  stops an earlier play thread (`JobArmed`); while the engine waits, or its play thread is about
  to, nothing takes a device back from Waiting (`TriggerIsDue`), because `triggerFired()`
  comes only from a thread that has seen the wait end (`WaitIsOver`), and a new play thread begins
  only after the earlier one is joined. This also rules out that `playDeviceEvents` itself
  takes the engine from waiting to playing.
- `EventsAreOfTheirShot`: `Spec => EventsOnlyInTheirShot`. The test in `playDeviceEvents` and
  `evt->play()` are two steps, between which the state may change; what does not is who has
  `playMutex`: every thread inside it is known by its place (`Holds`), and a stop returns where
  none is (`Backs`), so the job thread cannot leave `waitForPlayComplete`, nor the next job
  begin, while an event is played. That the engine is Playing for the shot of the play thread
  (`PlayingShot`) holds because `trigger()` comes from a call that has joined the earlier
  thread (`JoinedShot`), of a job thread or a server that works on the shot in progress
  (`JobsShot`, `ServersShot`). A play thread left over from an earlier shot may still take the
  engine to WaitingForTrigger, but nothing starts it from there.

`PlayResult_proofs`, on the same assumptions:

- `SuccessIsPlayed`: `Spec => SuccessMeansPlayed`. What `save` looks at is a flag and two lists of
  messages, long after the events; that they speak for the play is an argument about everything
  that may go wrong on the way. A shot is `Clean` while no stop and no error has touched it,
  and `CleanBefore` shows that nothing takes either back: a stop that has read the state
  stays on its way until it has cancelled the job (`StoppedStays`), and the messages that
  `play(jobID)` clears are of no play of this job (`ErrorStays`, which needs `CallInv`: the server
  calls once per invitation, a job's play thread is begun once, the call that begins it joins
  the earlier one first, and the measurement thread lives only inside the loop). Of a clean shot
  `Good` says how far it has come: the trigger is this shot's, the state follows the play
  thread, no event was stopped since it was loaded, the loop has played all it has passed, and
  `waitForPlayAll` has ended with every device done; so if the engine is out of the play
  states, all of it was played (`Over`), and by `NoPlayOutside` it is when the result is saved.
  `trigger()` starts the engine only where its play thread waits (`Triggers`). Most steps are
  `Minor`; the rest is one lemma per thread (`GoodJob`, `GoodCall`, `GoodPlay`, `GoodOthers`,
  `GoodStop`). The property has three exceptions, in which a shot may be saved as Success that was
  not played: those of findings 2 and 3, and the shots whose events a late `stop()` has stopped
  (`strayed`, section 5). That there is no fourth is what the theorem says.

`JobScheduler_proofs`, for any number of engines, parses, plays and cancellations
(`SizesAssumption`), with and without failing jobs and an asynchronous engine
(`AsyncAssumption`): all five safety properties of the module.

- `TypeCorrect`: `Spec => []TypeOK`, through `TypeInv`, which adds that the threads that are in
  the middle of a call have a job in hand.
- `PlaysAlone`: `Spec => []OnePlayAtATime`. The obvious argument, that `assignPlayJobs` looks
  at the running list, fails: an engine is busy before its job is on that list and may be after
  it has left. `ListInv` says where the job of a busy engine is: on the running list, in the
  scheduler's hand (which has the mutex), or cancelled, and that a job number never returns
  to the queue.
- `PlayFindsItsParse`: `Spec => PlaysWhatWasParsed`. `EngineInv`: a play that was assigned has
  found its engine Parsed with its parse (`PlayReady`), and only the engine's own job changes
  that (`PlayingBusy`); a parse that an engine holds is known to be parsed there (`ParsedHere`).
- `PlaysGivenUpAreLost`: `Spec => PlayNotLost`, from `ParsedHere`.
- `ClientsKnowTheList`: `Spec => MessagesFollowLists`. `MsgInv` follows a job nobody cancelled
  from list to list: it is on exactly one, or in the hand of the one thread that holds the mutex
  and moves it (`AllPlaced`, `HandQueued`, `Locked`), and was last told of where it is
  (`ToldKnown`); a job is completed once (`DoneOnce`).
- `SchedulerKeepsALedger`: `Spec => ClientsSeeALedger`, the refinement of `JobLedger`. Every step
  is one of a ledger or none (`StepIsLedgerStep`). It needs of `MsgInv` that a job in a list is
  pending unless it was cancelled, and two facts more: the completed lists are never longer than
  they may be (`Bounded`; `addAndRemove` compares with equality, so a list that was once too long
  would grow for ever), and a job that was cancelled has been told of (`CancelledTold`), so that it
  is not accepted a second time. Both are kept by the steps of the ledger themselves, whatever the
  scheduler does (`LedgerKeeps`), so they are proved about the abstract specification. That
  `EnterDone` cuts the list as `Finish` does is `HeadOfList`, about any list and any room.

`ParseEngine_proofs`, for any number of devices, parses and stops and any relation of devices
and targets (`Sizes`): `ParseTypeCorrect`, through `Base`, which says where the parse thread is
in its turn (`Turns`: a job has been sent only to devices it has come to).

- `ParsedMeansParsed`: `ParseSpec => []ParsedMeansAllParsed`. `Words`: of a device in the parse
  under way there is one word at most, the job it was asked, its answer, what the engine
  was told, or silence (`OneWord`), only owned devices have one (`OwnedOnly`), and all of
  later parses are still to come (`Numbered`).
- `EventsAreInTime`: `ParseSpec => []EventsReachTheirDevice`. `InTime`: a device that may still
  generate events for another stays in the tree until its answer was handled (`AnswersGoDown`,
  `InSubtree`), and the parse thread leaves none of its sources behind (`NoneBehind`), so
  nothing can be generated for a device that has its job.

`Tickets_proofs`, for any number of tickets (`Bound`): `TicketsTypeCorrect`, `TicketsAreTrue`
(`TicketsTellTruth`) and `TicketsAreFound` (`TicketsInMap`). A ticket is written by messages
that come late, so the argument runs over the messages on their way. `JobInv` relates the list,
the status and the engine of a job; what is said of a job once is never taken back (`GoesOn`;
`Gone`: cancelled, failed or forgotten), so a message that was true when it was sent still is
(`MailTrue`). A message about the play takes the parse's ticket for cancelled if it still waits:
while it does, and the parse is not gone, the parse's own Completed is on its way
(`Announced`), and before any about the play (`InOrder`).

`Services_proofs` has four chapters. *The queue*, for any number of events, clears and starts
(`Bounds`): `QueueTypeCorrect`; `QueueHandlesOnce`; and the refinement `QueueImplementsMailbox`:
the initial state of the queue is one of the mailbox, and every step is a step of the mailbox
or none. Both rest on `Protocol` (where the handler is, and that it holds a copy it has not
handled only between taking it and handling it); the second also on `InOnePlace`: an event
number is in the list, in the handler's hand or handled, in one of them, and none is handled
twice while nobody has cleared the queue.

*The grouper*, for any messages, senders and number of stops (`GrouperBounds`):
`GrouperTypeCorrect`; `GroupsLeaveInOrder` (`GrouperOrder`) and `NoMessageIsLost`. Only what was
sent shows whether the order is right, but it is decided earlier: a message waits in the cache,
leaves with the loop's group, or is in the hands of a sender who passes it on alone.
`GrouperInv` adds that a message is in one of them (`MessageInOnePlace`), and that what is sent now
leaves before what waits, and both after all that was sent except what went alone (`InTurn`);
the cached group stays in its variable after it was sent, so all of this is about `Waiting`. That
no message is lost while nobody stops the grouper (`NothingLost`) needs besides that the loop is
idle only when nothing is cached and makes a group only when the last has left (`LoopInOrder`).
It is the safety that `GrouperSends` rests on.

*The tasks*, for any ids and any number of calls, of which those of `addTask` are finitely many
(`TaskBound`): `TaskListsAgree` by `ListInv`, which adds that the task stored under an id has that
id (`Keyed`); `TaskReplacementLives` (`TaskReplacementStays`); `TaskRunsAlone` by `AloneInv`: an
id is in `runningTasks` exactly while one of the two threads has taken it (`UserFetches`,
`TakenIDs`), and no two have the same (`OneEach`).

*The services beside each other*, as `MCServices` composes them, for bounds that fit them all
(`ServicesBounds`): `ServicesAreParts`, that a behaviour of the composition is one of each of the
five specifications (a step of one is a stutter of the others, `PartSteps`), so that every theorem
about one of them holds there; and from it `ServicesTypeCorrect`: `Spec => []ServicesTypeOK`.

`SequenceScheduler_proofs`, for any sequences, entries and other jobs and any number of calls that
close, cancel or change the mode, and any number of parses that are still found (`SequenceIDs`):
`SequenceTypeCorrect` (the type invariant of this module is proved and no longer in a run), and

- `SequencesTakeTurns`: `SequenceSpec => []SequencesDoNotInterleave`, which is about the Normal
  mode. A round of the scheduler gives the engine whichever job comes first in the order of the
  ids, among those of all sequences unless a current one has jobs. So `NoInterleaving` keeps that
  a sequence that has begun and was not found done is the current one and has jobs
  (`BegunIsCurrent`), which needs that a job in the queue keeps its sequence's `hasJobs`
  (`ListsAreTrue`) and that a play being submitted is in no list yet (`JobsAreKnown`), though its
  entry is already marked.
- `CompletedWasPlayed`: `SequenceSpec => []CompletedMeansPlayed`. `isDone` asks for the entries'
  results, which `play()` and the ends of jobs write without a common lock; `PlayedInv` says of a
  sequence that nobody closed or cancelled that each result of an entry has a job that tells it: a
  play that ended, or a cancelled parse (`Witnesses`), and jobs never leave the list of those that
  are done. Whether the sequence was found done is asked once, the result of an entry can be set
  back by a later `play()`, so the witness, not the result, is what is kept (`UnclosedIsPlayed`).

`DeviceHub_proofs`, for any hubs, devices and partners and any number of crashes, removals and
missed pings (`Laboratory`; one process at least starts, and one device is there):

- `HubTypeCorrect`: `HubSpec => []HubTypeOK`, through `HubTyped`, which also types what the
  calls on their way carry (`CallTypeOK`): no reference is to a life that has not begun.
- `DevicesStayWithOwners`: `HubSpec => []OwnersKeepDevices`. A hub that finds a dead reference asks
  the owner to remove the device by name; that the owner then removes only what it does not have
  is a matter of where the dead reference can come from. `OwnDevices`: a drop at the device's
  own hub, or a removal that began there, is of a device its owner removed, a call that makes one
  known started there with the present life (`OwnCall`), and a device's reference to one of
  its own hub is alive until the owner has removed that (`OwnReference`).
- `DevicesMeetAtRest`: `HubSpec => []DevicesAreFound`, where no process crashes, every living
  device answers and no device is its own partner (`Undisturbed`: the last is what a Distributer
  sees to; devices still come and go, and processes start and hubs join in any order and number).
  That the property is about rest is no help in a proof: `DevicesMeet` says of two devices that
  stay, at all times, that each has found the other, or that one's hub is not joined to the server
  yet, or that a call is on its way that brings one to the other's hub (`WillMeet`, `Brings`). It
  is inductive together with `Calm`: only what its owner removed is taken out, and that removal is
  itself on its way.
- `HubsComeBack`: `HubSpec => []HubsReconnect`. Two hubs that each believe they are connected do
  nothing more, so a link that is alive one way only would last. `connect` makes the link at
  the other hub first, and at its own when the call returns; `Links` says of two hubs that run
  that where one has the other's living reference, or a connect under way that brings it, so has
  the other. With what a refresh does about a dead reference, one of the two always has
  something to do.
- `DevicesMeetAgain`: `HubSpec => []DevicesAreFound` once more, now with crashes, restarts,
  removals and missed pings, of the server's hub and one other with any devices and partners
  (`TwoHubs`). Here a dead reference is really taken out, by name and late, and `Calm` is false.
  `MeetAgainInv` replaces it by three facts. Of two devices that stay, one has found the other, or
  the owner has refused to remove it, or their hubs do not have each other's living reference (so
  that connecting them will bring every device), or a call on its way settles it (`DevicesFind`).
  A call offers living references only, and a removal that comes from the owner's hub is of a
  device that has left it (`Current`), so it costs nobody a device that is there. And `Links`,
  because it is a connect that offers all devices again. That a drop reaches only the hub next to
  the owner's is what two hubs have and three do not (section 5).

At the end of `JobScheduler_proofs`, about `EngineJobID::operator<` (`JobOrder`) for all numbers:
it is irreflexive, asymmetric and total (`OrderIsStrict`); it is transitive among parses and among
plays (`OrderIsTransitive`), and in the queue, where both are, as long as plays were submitted in
the order of their parses (`OrderOfQueueIsTransitive`); but in general it is not, and
`OrderHasCycle` gives three jobs the program can generate.

Only model-checked: all liveness (`JobEnds`, `MeasurementDrains`, `JobsEnd`, `QueuedJobsRun` and
the liveness column of the table of `services`), which is out of the prover's reach. Every
invariant, action property and refinement that a passing run checks is the subject of a theorem.
For `DevicesAreFound` there are two, on different assumptions: the run checks small laboratories
with crashes in which it holds, and of three hubs that crash it does not hold.

## 5. Findings

Each is a run in which TLC finds the code's behaviour against a sentence of the repository.

1. `lost_wakeup`: `playShot` sets Parsed and notifies `playCondition` without `playMutex`
   (`LocalEventEngine.cpp:1827`). The job thread, between the test in
   `waitForPlayComplete` and its wait, is not woken, and `play(job)` never returns.
   `releasePlayLock` and `releaseTriggerLock` notify in the same way.
2. `shots_overlap`: after a stop the job ends, and the engine is given the next one, while the
   play thread of the stopped shot still runs; it is joined only when the next play
   thread is started (1743). `docs/todo/stopEngine.md:10` says that the engine is not
   reused while that thread is unwinding.
3. `stop_success`: `play(jobID)` clears `localPlayMessages` (1632), and with them the message
   a stop has just recorded; if the job thread reads `cancelled` before the stop sets it, the
   shot that was cut short is saved as Success (`docs/todo/stopEngine.md:13`).
4. `job_livelock`: with every engine busy and a job queued, the scheduler waits with a
   predicate that already holds (`LocalEventEngineScheduler.cpp:1615`), so it never lets go of
   `jobMutex`; the jobs that end cannot report, and no engine becomes free.
5. `job_recompleted`: a job cancelled between `submitJob` and its move to the running list
   (1744-1747) is recorded as cancelled but not stopped, and is marked Completed later
   (`docs/todo/stopEngine.md:105`).

6. `hub_replacement`: a hub that gets no answer to one ping takes a device for dead and asks
   its owner to remove it. The owner, which knows better, wants to send out a fresh reference
   (`LocalHub.h:294`, `:301`), but calls `distribute` with an empty trace (303), and
   `distribute` returns at once when the trace is empty (434): nothing is sent, and the other
   hub misses the device until the next `addNode` or link.

Behaviours that the properties name and leave out:

- *A stop of one shot stops the events of the next.* `stop()` sets `cancelled` and notifies
  (`LocalEventEngine.cpp:2358-2359`), the shot ends, `prepare` of the next one resets `cancelled`
  (1398) and loads its events (1712), and only then `stopDeviceEvents` (2360) runs. A stopped
  event returns silently from `play()` (`SynchronousEvent.cpp:82`), nothing is recorded, and the
  shot is saved as Success. To see it, take `\cup strayed` out of `SuccessMeansPlayed` and run
  `play_leaf`: a trace of 95 states. No document speaks of it.
- *An idle sequence keeps the engine.* The comment at `LocalEventEngineScheduler.cpp:1174-1176`
  says that a current sequence without jobs yields to others; the code does not do so
  (`hasPriority` stays true once a job was submitted), and the tests of the sequence modes want what
  the code does. `SequencesDoNotInterleave` and `QueuedJobsRun` follow the code; with the comment's
  rule (the mutant `MakesWayIdle`) sequences interleave. Everything else waits while the
  current sequence is left open, or has an entry nobody plays.
- *An open sequence that is cancelled may never be done.* `cancel` closes it but sets no status
  (`SequenceJob.cpp:81-106`), and `refreshJobStatus` compares the number of entries with the
  table, which is empty (31-32): with one entry it is never done, and as the current
  sequence it starves all other jobs. `closeSequence` sets the status and has no such trouble;
  `versions.md:256` speaks of `cancelSequence` making the status terminal. To see it, take
  `CancelledOpen` out of `QueuedJobsRun` and run `schedulers`: 10 states.
- *A play that is not found leaves its entry New.* `play` marks the entry (628) before it looks for
  the parse (642); when that has left the list of the last three the entry has no job, and a
  sequence with a table is not done until somebody submits it again (`ParseNotFound`).

Others, which no document excludes: a stop while the engine waits for the
hardware trigger leaves it in Error, since `trigger()` then finds it Parsed (2050-2056);
`abortJob` marks and stops whatever job its manager has by then, which may be the next one; a
play is given up if its parse leaves the list of the last three while its engine is playing it
(`LocalEventEngineScheduler.cpp:1490`).

`DevicesAreFound` does not hold of three hubs where one crashes, as the search for an invariant
showed. Hub 2 refreshes while the server's process starts again, finds its reference to the server's
device dead and asks the server to remove it; the server, which has not added the device again
yet, tells hub 3 to drop it. The device is added, the new reference reaches hub 3, and then the
drop does, which goes by name (`LocalHub.h:384`). `distributerMutex` is held over these calls, so
that they overlap only when one has outlived its caller's wait. The counterexample has 47
states, which is too long for a run to find each time; no document says that it cannot happen.

## 6. Plan

In this order, the most important behaviour first.

1. `DistributedPlay`: two or three `PlayEngine`-like devices in a tree, messages between
   them and `stop()` going down; abstract specification `Shot`: all devices play once, after
   one trigger, or the shot is reported as stopped or failed. To be shown: the tree
   implements `Shot`, and an engine's owned devices behave as `PlayEngine` assumes.
2. Of the scheduler: more than one synchronous engine in `SequenceScheduler`, and a `JobLedger`
   that also tells what a completed job was (played, failed, cancelled).
3. Shutdown of the scheduler; searches of results, over a store with `save` and `find`;
   `LocalResultsCollector`; the dependency tree as a pure algorithm against a
   reference definition.
4. `EvaluationBarrier`, `CachedValue`, the refreshes of the device collections.

Theorems, next: that the grouper and the task loop each implement an abstract specification, as
the queue and the scheduler do; `DevicesAreFound` among three hubs, if it
holds where no call outlives the wait of its caller, which TLC is to say first.

## 7. Not modelled

CORBA stubs and conversions, Python and Java bindings, files, XML and serialization,
attribute and profile tables, drivers and examples: I/O, generated code, or state behind one
lock. Vendored libraries (`extern/`, `CLI11`, `tinyxml2`) are third-party code. These are most
of the repository's lines: one generated file (`stijava/sti_wrap.cpp`) has a third of them, and
the conversions between the two sides of the CORBA interface most of the network directory.
What has state that several threads share is a few thousand lines around
`LocalEventEngine.cpp`, `LocalEventEngineScheduler.cpp`, `LocalHub.h` and the utilities they
stand on, and those are the ones the modules are about.

`PROJECT.json` gives the reason part by part, and what is left out of a part that is
modelled is said under its module above.
