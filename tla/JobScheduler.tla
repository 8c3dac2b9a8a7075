---------------------------- MODULE JobScheduler ----------------------------
(***************************************************************************)
(* LocalEventEngineScheduler with one EventEngineManager per engine: the   *)
(* scheduler thread that assigns queued jobs to free engines, the job      *)
(* threads of the managers, the caller who submits parses and plays, and   *)
(* another caller who cancels.  jobMutex is held by assignJobs from one    *)
(* wait to the next, by addJob, jobComplete and jobCanceled; _cancelJob    *)
(* holds nothing, so its steps fall anywhere between theirs.  A job list   *)
(* is synchronized by itself: one operation on it is atomic.  What an      *)
(* engine does with a job is PlayEngine's subject: here it has four        *)
(* states, and a job is a step that begins and a step that ends.           *)
(***************************************************************************)
EXTENDS Naturals, Sequences, FiniteSets

CONSTANTS SyncEngines,   \* Engine Count: engine 0 is the asynchronous one
          NParses,       \* parse jobs submitted, in the order of their ids
          NPlays,        \* play jobs submitted, in the order of their ids
          AsyncParses,   \* the parses whose targetEnginePool is 0
          ParsesKept,    \* size of completedParseJobs (3 in the code)
          PlaysKept,     \* size of completedPlayJobs (6 in the code)
          MaxCancels,    \* calls of cancelJob
          Faults         \* jobs may fail

ASSUME SizesAssumption ==
    /\ SyncEngines \in Nat \ {0} /\ NParses \in Nat /\ NPlays \in Nat
    /\ ParsesKept \in Nat \ {0} /\ PlaysKept \in Nat \ {0} /\ MaxCancels \in Nat
ASSUME AsyncAssumption == AsyncParses \subseteq 1 .. NParses /\ Faults \in BOOLEAN

Engines   == 0 .. SyncEngines
ParseJobs == [type : {"Parse"}, n : 1 .. NParses]
PlayJobs  == [type : {"Play"}, n : 1 .. NPlays]
Jobs      == ParseJobs \cup PlayJobs

NoJob    == [type |-> "None", n |-> 0]
NoEngine == SyncEngines + 1

VARIABLES
    queued,      \* queuedJobs
    running,     \* runningJobs
    done,        \* completedParseJobs and completedPlayJobs, newest first, by type
    status,      \* the jobs' EngineJobStatus
    engineID,    \* the engine a job was marked running on
    told,        \* the list the last update message moved the job to
    playPid,     \* the parse a play job refers to, 0 before it is submitted
    mgrRunning,  \* EventEngineManager::running
    currentJob,  \* EventEngineManager::currentJob
    state,       \* the engine's state
    lastParse,   \* the engine's lastParseID, 0 before the first
    aborted,     \* the engine's cancelled flag
    mutex,       \* what holds jobMutex
    asleep,      \* the scheduler sleeps on jobCondition
    thread,      \* where each engine's job thread is
    pc,          \* where the scheduler and the two callers are
    ids,         \* job ids assignJobs has still to look at
    free,        \* freeEngines
    counts,      \* assignableJobCount and freeEngineCount
    jobID,       \* the job assignJobs is at
    submitted,   \* jobs the caller has submitted, by type
    cancelID,    \* the job cancelJob was called for
    cancelled    \* history: jobs cancelJob was called for

jobVars    == <<status, engineID, told, playPid>>
listVars   == <<queued, running, done>>
engineVars == <<mgrRunning, currentJob, state, lastParse, aborted>>
schedVars  == <<ids, free, counts, jobID>>
callVars   == <<submitted, cancelID, cancelled>>
vars == <<listVars, jobVars, engineVars, schedVars, callVars, mutex, asleep, thread, pc>>

Labels == {"idle", "lock", "scan", "plays", "refresh", "dequeue", "enqueue", "parses",
           "rest", "blocked", "timed", "add", "abort", "fromRunning", "fromQueued"}

TypeOK ==
    /\ queued \in SUBSET Jobs /\ running \in SUBSET Jobs
    /\ done \in [{"Parse", "Play"} -> Seq(Jobs)]
    /\ status \in [Jobs -> {"New", "Running", "Completed", "Canceled", "Archived"}]
    /\ engineID \in [Jobs -> Engines \cup {NoEngine}]
    /\ told \in [Jobs -> {"None", "Queued", "Running", "Complete", "Archive"}]
    /\ playPid \in [1 .. NPlays -> 0 .. NParses]
    /\ mgrRunning \in [Engines -> BOOLEAN]
    /\ currentJob \in [Engines -> Jobs \cup {NoJob}]
    /\ state \in [Engines -> {"Idle", "Parsing", "Parsed", "Playing", "Error"}]
    /\ lastParse \in [Engines -> 0 .. NParses]
    /\ aborted \in [Engines -> BOOLEAN]
    /\ mutex \in {"none", "sched"} /\ asleep \in BOOLEAN
    /\ thread \in [Engines -> {"idle", "start", "work", "judge", "complete", "canceled",
                              "clear"}]
    /\ pc \in [{"sched", "caller", "canceller"} -> Labels]
    /\ ids \in SUBSET Jobs /\ free \in SUBSET Engines
    /\ counts \in Nat \X Nat /\ jobID \in Jobs \cup {NoJob}
    /\ submitted \in [{"Parse", "Play"} -> Nat]
    /\ cancelID \in Jobs \cup {NoJob} /\ cancelled \in SUBSET Jobs

Init ==
    /\ queued = {} /\ running = {} /\ done = [k \in {"Parse", "Play"} |-> <<>>]
    /\ status = [j \in Jobs |-> "New"] /\ engineID = [j \in Jobs |-> NoEngine]
    /\ told = [j \in Jobs |-> "None"] /\ playPid = [k \in 1 .. NPlays |-> 0]
    /\ mgrRunning = [e \in Engines |-> FALSE] /\ currentJob = [e \in Engines |-> NoJob]
    /\ state = [e \in Engines |-> "Idle"] /\ lastParse = [e \in Engines |-> 0]
    /\ aborted = [e \in Engines |-> FALSE]
    /\ mutex = "none" /\ asleep = FALSE
    /\ thread = [e \in Engines |-> "idle"]
    /\ pc = [a \in {"sched", "caller", "canceller"} |-> IF a = "sched" THEN "lock" ELSE "idle"]
    /\ ids = {} /\ free = {} /\ counts = <<0, 0>> /\ jobID = NoJob
    /\ submitted = [k \in {"Parse", "Play"} |-> 0]
    /\ cancelID = NoJob /\ cancelled = {}

-----------------------------------------------------------------------------
(* Helpers. *)

At(a, label) == pc[a] = label
Goto(a, label) == pc' = [pc EXCEPT ![a] = label]
Move(a, from, to) == At(a, from) /\ Goto(a, to) /\ UNCHANGED thread
Step(e, from, to) == thread[e] = from /\ thread' = [thread EXCEPT ![e] = to] /\ UNCHANGED pc

ParseOf(j) == IF j.type = "Parse" THEN j ELSE [type |-> "Parse", n |-> playPid[j.n]]
InDone(j)  == \E i \in DOMAIN done[j.type] : done[j.type][i] = j

\* The job with the highest priority: ids of one type are ordered by time, but plays by the
\* time of their parse first.
Sooner(i, j) ==
    IF i.type = "Parse" \/ playPid[i.n] = playPid[j.n] THEN i.n < j.n
    ELSE playPid[i.n] < playPid[j.n]
First(S) == CHOOSE j \in S : \A i \in S : ~Sooner(i, j)
Least(S) == CHOOSE e \in S : \A f \in S : e <= f

\* EventEngineManager::isParsed, on an engine that runs no job.
\* Mutant: any parse will do.
IsParsedAny(e, p) == ~mgrRunning[e] /\ state[e] = "Parsed"
IsParsed(e, p)    == ~mgrRunning[e] /\ state[e] = "Parsed" /\ lastParse[e] = p

\* The job enters its completed list (OrderedBufferMap::addAndRemove) with status st;
\* a full list drops its oldest job, which is archived.  A job that is there stays.
\* Mutants: nobody is told of the job that is dropped; a list is full with one job more.
KeptOneMore(type) == IF type = "Parse" THEN ParsesKept + 1 ELSE PlaysKept + 1
Kept(type) == IF type = "Parse" THEN ParsesKept ELSE PlaysKept
EnterDoneSilent(j, st) ==
    /\ done' = IF InDone(j) THEN done
               ELSE [done EXCEPT ![j.type] =
                       SubSeq(<<j>> \o @, 1, Least({Len(@) + 1, Kept(j.type)}))]
    /\ status' = [status EXCEPT ![j] = st]
    /\ told' = [told EXCEPT ![j] = "Complete"]
EnterDone(j, st) ==
    LET list    == done[j.type]
        full    == ~InDone(j) /\ Len(list) = Kept(j.type)
        dropped == IF full THEN {list[Len(list)]} ELSE {}
        kept    == IF full THEN SubSeq(list, 1, Len(list) - 1) ELSE list IN
    /\ done' = IF InDone(j) THEN done ELSE [done EXCEPT ![j.type] = <<j>> \o kept]
    /\ status' = [i \in Jobs |-> IF i \in dropped THEN "Archived"
                                 ELSE IF i = j THEN st ELSE status[i]]
    /\ told' = [i \in Jobs |-> IF i \in dropped THEN "Archive"
                               ELSE IF i = j THEN "Complete" ELSE told[i]]

-----------------------------------------------------------------------------
(* The callers. *)

\* addJob.  Mutant: it does not notify.
AddJobSilent(j) ==
    /\ mutex = "none"
    /\ queued' = queued \cup {j}
    /\ told' = [told EXCEPT ![j] = "Queued"]
    /\ UNCHANGED asleep
AddJob(j) ==
    /\ mutex = "none"
    /\ queued' = queued \cup {j}
    /\ told' = [told EXCEPT ![j] = "Queued"]
    /\ asleep' = FALSE

\* parse(shot)
Parse ==
    LET j == [type |-> "Parse", n |-> submitted["Parse"] + 1] IN
    /\ submitted["Parse"] < NParses /\ At("caller", "idle")
    /\ AddJob(j)
    /\ submitted' = [submitted EXCEPT !["Parse"] = @ + 1]
    /\ UNCHANGED <<running, done, status, engineID, playPid, engineVars, schedVars,
                   cancelID, cancelled, mutex, thread, pc>>

\* play(parseID): the lookup holds jobMutex, then lets it go before addJob.
PlayLookup ==
    /\ submitted["Play"] < NPlays /\ mutex = "none"
    /\ Move("caller", "idle", "add")
    /\ \E p \in ParseJobs :
        /\ InDone(p) \/ p \in running \cup queued
        /\ playPid' = [playPid EXCEPT ![submitted["Play"] + 1] = p.n]
    /\ submitted' = [submitted EXCEPT !["Play"] = @ + 1]
    /\ UNCHANGED <<listVars, status, engineID, told, engineVars, schedVars, cancelID,
                   cancelled, mutex, asleep>>

PlayAdd ==
    /\ Move("caller", "add", "idle")
    /\ AddJob([type |-> "Play", n |-> submitted["Play"]])
    /\ UNCHANGED <<running, done, status, engineID, playPid, engineVars, schedVars,
                   callVars, mutex>>

\* cancelJob(jobID): a running job is aborted first.  stopEngine does the same for the
\* job its manager runs.
Cancel ==
    \E j \in queued \cup running :
        /\ Cardinality(cancelled) < MaxCancels
        /\ Move("canceller", "idle", IF j \in running THEN "abort" ELSE "fromQueued")
        /\ cancelID' = j /\ cancelled' = cancelled \cup {j}
        /\ UNCHANGED <<listVars, jobVars, engineVars, schedVars, submitted, mutex, asleep>>

\* The state LocalEventEngine::stop leaves.
\* Mutant: as EventEngineStateMachine::stop does it.
StoppedUnknown(s) ==
    CASE s = "Parsing" -> "Idle" [] s = "Playing" -> "Parsed" [] OTHER -> "Unknown"
Stopped(s) == CASE s = "Parsing" -> "Idle" [] s = "Playing" -> "Parsed" [] OTHER -> s

\* abortJob of the job's manager: whatever job it has now is marked, and if it is running
\* its engine is stopped.
CancelAbort ==
    LET e == engineID[cancelID] IN
    /\ Move("canceller", "abort", "fromRunning")
    /\ status' = [status EXCEPT ![currentJob[e]] = "Canceled"]
    /\ IF mgrRunning[e]
       THEN /\ state' = [state EXCEPT ![e] = Stopped(@)]
            /\ aborted' = [aborted EXCEPT ![e] =
                             @ \/ state[e] \in {"Parsing", "Playing", "Error"}]
       ELSE UNCHANGED <<state, aborted>>
    /\ UNCHANGED <<engineID, told, playPid, mgrRunning, currentJob, lastParse, listVars,
                   schedVars, callVars, mutex, asleep>>

\* The job found running leaves the list for the completed one, even if it is done by now.
CancelRunning ==
    /\ Move("canceller", "fromRunning", "fromQueued")
    /\ running' = running \ {cancelID}
    /\ EnterDone(cancelID, "Canceled")
    /\ UNCHANGED <<queued, engineID, playPid, engineVars, schedVars, callVars, mutex, asleep>>

CancelQueued ==
    /\ Move("canceller", "fromQueued", "idle")
    /\ asleep' = FALSE
    /\ IF cancelID \in queued
       THEN queued' = queued \ {cancelID} /\ EnterDone(cancelID, "Canceled")
       ELSE UNCHANGED <<queued, done, status, told>>
    /\ UNCHANGED <<running, engineID, playPid, engineVars, schedVars, callVars, mutex>>

-----------------------------------------------------------------------------
(* The scheduler thread: assignJobs.  Only "blocked" and "timed" are without the mutex. *)

Lock ==
    /\ Move("sched", "lock", "scan") /\ mutex = "none" /\ mutex' = "sched"
    /\ UNCHANGED <<listVars, jobVars, engineVars, schedVars, callVars, asleep>>

\* The queued ids, the free engines, and the counts before the assignment.
Scan ==
    LET idle == {e \in Engines : ~mgrRunning[e]} IN
    /\ Move("sched", "scan", IF queued # {} /\ idle # {} THEN "plays" ELSE "rest")
    /\ ids' = queued /\ free' = idle /\ counts' = <<Cardinality(queued), Cardinality(idle)>>
    /\ UNCHANGED <<jobID, listVars, jobVars, engineVars, callVars, mutex, asleep>>

\* satisfiesConflictPolicy, under EngineConflictPolicyDefault, for every running job.
\* Mutant: a play on another engine does not count.
NoConflictHere(j, e) ==
    \A r \in running : ~(r.type = "Play" /\ j.type = "Play" /\ engineID[r] = e)
NoConflict(j, e) == \A r \in running : ~(r.type = "Play" /\ j.type = "Play")

\* assignJob, as far as submitJob: the job's thread starts, the lists are still to change.
AssignJob(j, e, next) ==
    IF ~mgrRunning[e] /\ NoConflict(j, e) /\ j \in queued
       /\ (IsParsed(e, ParseOf(j).n) <=> j.type = "Play")
    THEN /\ status' = [status EXCEPT ![j] = "Running"]
         /\ engineID' = [engineID EXCEPT ![j] = e]
         /\ mgrRunning' = [mgrRunning EXCEPT ![e] = TRUE]
         /\ currentJob' = [currentJob EXCEPT ![e] = j]
         /\ free' = free \ {e}
         /\ thread' = [thread EXCEPT ![e] = "start"]
         /\ Goto("sched", "dequeue")
         /\ UNCHANGED <<queued, done, told>>
    ELSE /\ Goto("sched", next)
         /\ UNCHANGED <<queued, done, status, told, engineID, mgrRunning, currentJob, free,
                        thread>>

\* _cancelJob, called for a play: it is not running.
CancelPlay(j) ==
    /\ IF j \in queued THEN queued' = queued \ {j} /\ EnterDone(j, "Canceled")
       ELSE UNCHANGED <<queued, done, status, told>>
    /\ Goto("sched", "plays")
    /\ UNCHANGED <<engineID, mgrRunning, currentJob, free, thread>>

Defer(to) ==
    /\ Goto("sched", to)
    /\ UNCHANGED <<queued, done, status, told, engineID, mgrRunning, currentJob, free, thread>>

\* assignPlayJobs: the next play, or on to the parses.
PlayNext ==
    LET plays == {j \in ids : j.type = "Play"}
        j     == First(plays)
        p     == ParseOf(j)
        able  == {e \in free : IsParsed(e, p.n)} IN
    /\ At("sched", "plays")
    /\ IF plays = {} THEN Defer("parses") /\ UNCHANGED <<ids, jobID>>
       ELSE /\ ids' = ids \ {j} /\ jobID' = j
            /\ IF InDone(p) /\ status[p] = "Canceled" THEN CancelPlay(j)
               ELSE IF able # {} THEN AssignJob(j, Least(able), "plays")
               ELSE Defer("refresh")
    /\ UNCHANGED <<running, playPid, state, lastParse, aborted, counts, callVars, mutex,
                   asleep>>

\* No free engine has the play's parse: it waits while the parse is still to come or its
\* engine is busy; otherwise nothing can play it.
\* Mutant: the engine that parsed it is not looked at again.
StillComing(p) == p \in queued \cup running
EngineBusyNever(p) == FALSE
EngineBusy(p) == InDone(p) /\ engineID[p] # NoEngine /\ mgrRunning[engineID[p]]
EngineHas(p)  == InDone(p) /\ engineID[p] # NoEngine /\ IsParsed(engineID[p], p.n)

PlayRefresh ==
    LET p == ParseOf(jobID) IN
    /\ At("sched", "refresh")
    /\ IF StillComing(p) \/ EngineBusy(p) THEN Defer("plays")
       ELSE IF EngineHas(p) THEN AssignJob(jobID, engineID[p], "plays")
       ELSE CancelPlay(jobID)
    /\ UNCHANGED <<running, playPid, state, lastParse, aborted, ids, jobID, counts, callVars,
                   mutex, asleep>>

\* The end of assignJob: the job changes lists, one after the other.
LeaveQueue ==
    /\ Move("sched", "dequeue", "enqueue")
    /\ queued' = queued \ {jobID}
    /\ UNCHANGED <<running, done, jobVars, engineVars, schedVars, callVars, mutex, asleep>>

EnterRunning ==
    /\ Move("sched", "enqueue", IF jobID.type = "Play" THEN "plays" ELSE "parses")
    /\ running' = running \cup {jobID}
    /\ told' = [told EXCEPT ![jobID] = "Running"]
    /\ UNCHANGED <<queued, done, status, engineID, playPid, engineVars, schedVars, callVars,
                   mutex, asleep>>

\* assignParseJobs: the next parse, on engine 0 if it is asynchronous, else on the
\* synchronous engine whose parse is the oldest (findOldestParsedEngine).
ParseNext ==
    LET parses == {j \in ids : j.type = "Parse"}
        j      == First(parses)
        pool   == IF j.n \in AsyncParses /\ j \in queued THEN free \cap {0} ELSE free \ {0}
        oldest == {e \in pool : \A f \in pool : lastParse[e] <= lastParse[f]} IN
    /\ At("sched", "parses")
    /\ IF parses = {} THEN Defer("rest") /\ UNCHANGED <<ids, jobID>>
       ELSE /\ ids' = ids \ {j} /\ jobID' = j
            /\ IF pool # {} THEN AssignJob(j, Least(oldest), "parses") ELSE Defer("parses")
    /\ UNCHANGED <<running, playPid, state, lastParse, aborted, counts, callVars, mutex,
                   asleep>>

\* The end of one round.  A wait whose predicate holds already does not let go of the
\* mutex, and neither does a round that assigned something.
Rest ==
    LET wait   == queued = {} \/ free = {}
        unused == counts = <<Cardinality(queued), Cardinality(free)>>
        to     == IF wait THEN (IF queued = {} THEN "blocked" ELSE "scan")
                  ELSE IF unused THEN "timed" ELSE "scan" IN
    /\ Move("sched", "rest", to)
    /\ mutex' = IF to = "scan" THEN "sched" ELSE "none"
    /\ asleep' = (to = "blocked")
    /\ UNCHANGED <<listVars, jobVars, engineVars, schedVars, callVars>>

Wake ==
    /\ At("sched", "blocked") /\ ~asleep /\ mutex = "none"
    /\ IF queued # {} THEN Goto("sched", "scan") /\ mutex' = "sched" /\ UNCHANGED asleep
       ELSE asleep' = TRUE /\ UNCHANGED <<pc, mutex>>
    /\ UNCHANGED thread
    /\ UNCHANGED <<listVars, jobVars, engineVars, schedVars, callVars>>

\* Notified, or the 100 ms have passed.
Timed ==
    /\ Move("sched", "timed", "scan") /\ mutex = "none" /\ mutex' = "sched"
    /\ UNCHANGED <<listVars, jobVars, engineVars, schedVars, callVars, asleep>>

Scheduler ==
    \/ Lock \/ Scan \/ PlayNext \/ PlayRefresh \/ LeaveQueue \/ EnterRunning
    \/ ParseNext \/ Rest \/ Wake \/ Timed

-----------------------------------------------------------------------------
(* The job threads: runJob, one per engine. *)

\* The engine takes the job up: a parse clears it first, a play asks for its parse.
Begin(e) ==
    LET j == currentJob[e]
        mine == state[e] = "Parsed" /\ lastParse[e] = ParseOf(j).n IN
    /\ Step(e, "start", "work")
    /\ IF j.type = "Parse"
       THEN /\ state' = [state EXCEPT ![e] = "Parsing"]
            /\ lastParse' = [lastParse EXCEPT ![e] = j.n]
            /\ aborted' = [aborted EXCEPT ![e] = FALSE]
       ELSE /\ state' = [state EXCEPT ![e] = IF mine THEN "Playing" ELSE @]
            /\ aborted' = [aborted EXCEPT ![e] = ~mine]
            /\ UNCHANGED lastParse
    /\ UNCHANGED <<mgrRunning, currentJob, listVars, jobVars, schedVars, callVars, mutex,
                   asleep>>

\* It succeeds if its state was left alone, or fails and has marked its job, except
\* after some failures of a play that leave the engine Parsed.
End(e) ==
    LET j      == currentJob[e]
        parse  == j.type = "Parse"
        failed == {"Error"} \cup IF ~parse /\ state[e] \in {"Playing", "Parsed"}
                                 THEN {"Parsed"} ELSE {} IN
    /\ Step(e, "work", "judge")
    /\ \/ /\ state[e] = IF parse THEN "Parsing" ELSE "Playing"
          /\ state' = [state EXCEPT ![e] = "Parsed"]
          /\ UNCHANGED <<aborted, status>>
       \/ /\ Faults \/ aborted[e]
          /\ \E s \in failed, marked \in BOOLEAN :
                /\ parse \/ s = "Error" => marked
                /\ state' = [state EXCEPT ![e] = s]
                /\ status' = IF marked THEN [status EXCEPT ![j] = "Canceled"] ELSE status
          /\ aborted' = [aborted EXCEPT ![e] = TRUE]
    /\ UNCHANGED <<mgrRunning, currentJob, lastParse, listVars, engineID, told, playPid,
                   schedVars, callVars, mutex, asleep>>

\* jobCancelled() is read before jobMutex is taken.
Judge(e) ==
    /\ Step(e, "judge", IF aborted[e] THEN "canceled" ELSE "complete")
    /\ UNCHANGED <<listVars, jobVars, engineVars, schedVars, callVars, mutex, asleep>>

\* jobComplete, jobCanceled: nothing happens to a job that is not running any more.
Report(e) ==
    LET j == currentJob[e] IN
    /\ thread[e] \in {"complete", "canceled"}
    /\ mutex = "none"
    /\ IF j \in running
       THEN /\ running' = running \ {j}
            /\ EnterDone(j, IF thread[e] = "complete" THEN "Completed" ELSE "Canceled")
       ELSE UNCHANGED <<running, done, status, told>>
    /\ asleep' = FALSE
    /\ thread' = [thread EXCEPT ![e] = "clear"]
    /\ UNCHANGED <<queued, engineID, playPid, engineVars, schedVars, callVars, mutex, pc>>

\* Only now may the manager take another job; the scheduler is not told.
Clear(e) ==
    /\ Step(e, "clear", "idle")
    /\ mgrRunning' = [mgrRunning EXCEPT ![e] = FALSE]
    /\ UNCHANGED <<currentJob, state, lastParse, aborted, listVars, jobVars, schedVars,
                   callVars, mutex, asleep>>

JobThread(e) == Begin(e) \/ End(e) \/ Judge(e) \/ Report(e) \/ Clear(e)
Canceller == CancelAbort \/ CancelRunning \/ CancelQueued

Next ==
    \/ Parse \/ PlayLookup \/ PlayAdd
    \/ Cancel \/ Canceller
    \/ Scheduler
    \/ \E e \in Engines : JobThread(e)

Spec == Init /\ [][Next]_vars

\* Threads keep running and jobs end.  A thread that waits for jobMutex gets it if the
\* mutex comes free again and again: the scheduler lets go of it for a wait of 100 ms.
\* Nobody has to submit or cancel anything, but a call that was begun returns.
Fairness ==
    /\ SF_vars(Scheduler) /\ SF_vars(PlayAdd) /\ WF_vars(Canceller)
    /\ \A e \in Engines : SF_vars(JobThread(e))

FairSpec == Spec /\ Fairness

-----------------------------------------------------------------------------
(* Properties. *)

Runs(e, type) == thread[e] \in {"start", "work", "judge"} /\ currentJob[e].type = type

\* The engine a play is given still holds its parse when the job's thread takes it up,
\* whatever was parsed, played or cancelled meanwhile: play() need not refuse it.
PlaysWhatWasParsed ==
    [][\A e \in Engines :
        thread[e] = "start" /\ thread'[e] = "work" /\ currentJob[e].type = "Play"
            => state'[e] = "Playing" /\ lastParse[e] = ParseOf(currentJob[e]).n]_vars

\* Two engines never play at once, unless the job of one of them has been cancelled: a
\* cancelled job leaves the running list before its engine is done with it.
OnePlayAtATime ==
    \A e, f \in Engines :
        Runs(e, "Play") /\ Runs(f, "Play") /\ e # f
            => {currentJob[e], currentJob[f]} \cap cancelled # {}

\* The scheduler gives up a play only when its parse was cancelled or has left the completed
\* list, or when no engine holds it any more: not for one that is just finishing it.
PlayNotLost ==
    [][\A j \in (queued \ queued') \ cancelled :
        At("sched", "plays") \/ At("sched", "refresh")
            => LET p == ParseOf(j) IN
               \/ status[p] = "Canceled" \/ ~InDone(p)
               \/ \A e \in Engines :
                     lastParse[e] = p.n => state[e] \notin {"Parsed", "Playing"}]_vars

\* What the update messages told the clients of a job nobody cancelled is where it is: in
\* one list, or none while the scheduler moves it, and archived once it is in none.
MessagesFollowLists ==
    \A j \in Jobs \ cancelled :
        /\ j \in queued => told[j] = "Queued" /\ j \notin running /\ ~InDone(j)
        /\ j \in running => told[j] = "Running" /\ ~InDone(j)
        /\ InDone(j) <=> told[j] = "Complete"
        /\ told[j] = "Queued" /\ j \notin queued => At("sched", "enqueue") /\ jobID = j
        /\ status[j] = "Archived" => told[j] = "Archive"

\* The clients see a ledger (JobLedger): a job that nobody cancelled is accepted, runs or is
\* given up, and is completed once, in the list of its type, which keeps the newest in their
\* order; whoever cancels, and whenever, takes none of this from any other job.
Ledger == INSTANCE JobLedger WITH
    Room <- [Parse |-> ParsesKept, Play |-> PlaysKept],
    notice <- told, ledger <- done, withdrawn <- cancelled
ClientsSeeALedger == Ledger!LedgerSpec

\* Every job that is queued comes to its end, completed or cancelled: a play whose parse is
\* still queued or running, or which waits for another play, is looked at again.
JobsEnd == \A j \in Jobs : j \in queued ~> told[j] \in {"Complete", "Archive"}

\* A job that has ended is reported, though every engine is busy and another job is queued:
\* assignJobs waits "for job completion or new job".
FinishedJobsReport ==
    \A e \in Engines : thread[e] \in {"complete", "canceled"} ~> thread[e] = "clear"

\* A job that was cancelled and is in the completed list is not completed later by the
\* thread that ran it.
CanceledStaysCanceled ==
    [][\A j \in Jobs : status[j] = "Canceled" /\ InDone(j) => status'[j] # "Completed"]_vars

=============================================================================
