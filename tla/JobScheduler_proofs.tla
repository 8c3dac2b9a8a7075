-------------------------- MODULE JobScheduler_proofs --------------------------
(***************************************************************************)
(* Proofs about JobScheduler for any number of engines, jobs and           *)
(* cancellations: the types, that two engines do not play at once, that an *)
(* engine that is given a play still has its parse, that a play is given   *)
(* up only when no engine has, and that the clients are told of a job      *)
(* where it is.  At the end, about the order of the ids that the lists of  *)
(* the code are sorted by, from which the numbers of JobScheduler abstract.*)
(***************************************************************************)
EXTENDS JobScheduler, JobOrder, FiniteSetTheorems, WellFoundedInduction, TLAPS

-----------------------------------------------------------------------------
(* Jobs and engines. *)

Types == {"Parse", "Play"}
Statuses == {"New", "Running", "Completed", "Canceled", "Archived"}

\* A job is its type and its number.
LEMMA JobFacts ==
    /\ \A j \in Jobs : /\ j.type \in Types
                       /\ j.type = "Parse" => j.n \in 1 .. NParses
                       /\ j.type = "Play" => j.n \in 1 .. NPlays
    /\ \A i, j \in Jobs : i.type = j.type /\ i.n = j.n => i = j
    /\ \A k \in 1 .. NParses : [type |-> "Parse", n |-> k] \in Jobs
    /\ \A k \in 1 .. NPlays : [type |-> "Play", n |-> k] \in Jobs
    /\ NoJob \notin Jobs /\ NoJob.type = "None"
BY DEF Jobs, ParseJobs, PlayJobs, NoJob, Types

\* There are finitely many.
LEMMA JobsFinite == IsFiniteSet(Jobs) /\ IsFiniteSet(Engines)
<1>1. IsFiniteSet(Engines) /\ IsFiniteSet(1 .. NParses) /\ IsFiniteSet(1 .. NPlays)
  BY FS_Interval, SizesAssumption DEF Engines
<1> DEFINE parse == [k \in 1 .. NParses |-> [type |-> "Parse", n |-> k]]
           play  == [k \in 1 .. NPlays |-> [type |-> "Play", n |-> k]]
<1>2. parse \in Surjection(1 .. NParses, ParseJobs)
  BY DEF Surjection, ParseJobs
<1>3. play \in Surjection(1 .. NPlays, PlayJobs)
  BY DEF Surjection, PlayJobs
<1> HIDE DEF parse, play
<1>4. IsFiniteSet(ParseJobs) /\ IsFiniteSet(PlayJobs)
  BY <1>1, <1>2, <1>3, FS_Surjection
<1> QED BY <1>1, <1>4, FS_Union DEF Jobs

\* A set of numbers has a least one.
LEMMA LeastExists ==
    ASSUME NEW S \in SUBSET Nat, S # {}
    PROVE  \E x \in S : \A y \in S : x <= y
<1>1. PICK x \in S : \A y \in S : ~(<<y, x>> \in OpToRel(<, Nat))
  BY NatLessThanWellFounded, WFMin
<1>2. \A y \in S : ~(y < x)
  BY <1>1 DEF OpToRel
<1> QED BY <1>2

\* Least is one of the engines it is applied to.
LEMMA LeastEngine ==
    ASSUME NEW S \in SUBSET Engines, S # {}
    PROVE  Least(S) \in S
<1>1. S \in SUBSET Nat
  BY SizesAssumption DEF Engines
<1> QED BY <1>1, LeastExists DEF Least

PidType == playPid \in [1 .. NPlays -> 0 .. NParses]

\* First is one of the jobs it is applied to: the plays of the oldest parse come first, and
\* of those the oldest.
LEMMA FirstJob ==
    ASSUME PidType, NEW ty \in Types, NEW S \in SUBSET {j \in Jobs : j.type = ty}, S # {}
    PROVE  First(S) \in S
<1> DEFINE key(j) == IF ty = "Parse" THEN 0 ELSE playPid[j.n]
           Keys == {key(j) : j \in S}
<1>1. Keys \in SUBSET Nat /\ Keys # {}
  BY JobFacts DEF PidType, Types
<1>2. PICK m \in Keys : \A k \in Keys : m <= k
  BY <1>1, LeastExists
<1> DEFINE T == {j \in S : key(j) = m}
           Numbers == {j.n : j \in T}
<1>3. Numbers \in SUBSET Nat /\ Numbers # {}
  BY <1>2, JobFacts DEF Types
<1>4. PICK k \in Numbers : \A l \in Numbers : k <= l
  BY <1>3, LeastExists
<1>5. PICK j \in T : j.n = k
  BY <1>4
<1>6. \A i \in S : ~Sooner(i, j)
  <2> SUFFICES ASSUME NEW i \in S, Sooner(i, j) PROVE FALSE
    OBVIOUS
  <2>1. i.type = ty /\ j.type = ty /\ i.n \in Nat /\ j.n \in Nat /\ key(i) \in Nat
        /\ key(j) \in Nat
    BY JobFacts DEF Types, PidType
  <2>2. key(j) <= key(i)
    BY <1>2, <1>5
  <2>3. key(i) = key(j) => j.n <= i.n
    BY <1>4, <1>5
  <2>4. (key(i) = key(j) /\ i.n < j.n) \/ key(i) < key(j)
    BY <2>1 DEF Sooner, Types
  <2> QED BY <2>1, <2>2, <2>3, <2>4
<1> QED BY <1>6 DEF First

-----------------------------------------------------------------------------
(* Types.  A call of cancelJob that is under way is for a job, and so is one of play and  *)
(* one of assignJob.                                                                      *)

Actors == {"sched", "caller", "canceller"}
Places == {"idle", "start", "work", "judge", "complete", "canceled", "clear"}
States == {"Idle", "Parsing", "Parsed", "Playing", "Error"}

ListType   == queued \in SUBSET Jobs /\ running \in SUBSET Jobs /\ done \in [Types -> Seq(Jobs)]
StatusType == /\ status \in [Jobs -> Statuses]
              /\ told \in [Jobs -> {"None", "Queued", "Running", "Complete", "Archive"}]
OnType     == engineID \in [Jobs -> Engines \cup {NoEngine}]
MgrType    == /\ mgrRunning \in [Engines -> BOOLEAN]
              /\ currentJob \in [Engines -> Jobs \cup {NoJob}]
StateType  == /\ state \in [Engines -> States] /\ lastParse \in [Engines -> 0 .. NParses]
              /\ aborted \in [Engines -> BOOLEAN]
LockType   == mutex \in {"none", "sched"} /\ asleep \in BOOLEAN
ThreadType == thread \in [Engines -> Places]
PcType     == pc \in [Actors -> Labels]
SchedType  == ids \in SUBSET Jobs /\ free \in SUBSET Engines /\ jobID \in Jobs \cup {NoJob}
CountType  == counts \in Nat \X Nat
CallType   == /\ submitted \in [Types -> Nat]
              /\ cancelID \in Jobs \cup {NoJob} /\ cancelled \in SUBSET Jobs
CallsHaveJobs == /\ At("canceller", "idle") \/ cancelID \in Jobs
                 /\ At("caller", "add") => submitted["Play"] \in 1 .. NPlays
AssignsJob == pc["sched"] \in {"dequeue", "enqueue"} => jobID \in Jobs

TypeInv == /\ ListType /\ StatusType /\ OnType /\ PidType /\ MgrType /\ StateType /\ LockType
           /\ ThreadType /\ PcType /\ SchedType /\ CountType /\ CallType /\ CallsHaveJobs
           /\ AssignsJob

LEMMA TypeInvMeans == TypeInv => TypeOK
BY DEF TypeInv, TypeOK, ListType, StatusType, OnType, PidType, MgrType, StateType, LockType,
       ThreadType, PcType, SchedType, CountType, CallType, Types, Statuses, Actors, Places, States

\* What a step leaves alone keeps its type.
LEMMA Unchanged ==
    ASSUME TypeInv
    PROVE  /\ UNCHANGED listVars => ListType'
           /\ UNCHANGED <<status, told>> => StatusType'
           /\ UNCHANGED engineID => OnType'
           /\ UNCHANGED playPid => PidType'
           /\ UNCHANGED <<mgrRunning, currentJob>> => MgrType'
           /\ UNCHANGED <<state, lastParse, aborted>> => StateType'
           /\ UNCHANGED mutex /\ UNCHANGED asleep => LockType'
           /\ UNCHANGED thread => ThreadType'
           /\ UNCHANGED pc => PcType'
           /\ UNCHANGED <<ids, free, jobID>> => SchedType'
           /\ UNCHANGED counts => CountType'
           /\ UNCHANGED callVars => CallType'
           /\ UNCHANGED pc /\ UNCHANGED callVars => CallsHaveJobs'
           /\ UNCHANGED pc /\ UNCHANGED jobID => AssignsJob'
BY DEF TypeInv, ListType, StatusType, OnType, PidType, MgrType, StateType, LockType, ThreadType,
       PcType, SchedType, CountType, CallType, CallsHaveJobs, AssignsJob, At, listVars, callVars

\* A move of an actor.
LEMMA GotoType ==
    ASSUME TypeInv, NEW a \in Actors, NEW to \in Labels, Goto(a, to)
    PROVE  PcType' /\ (a = "sched" /\ UNCHANGED callVars => CallsHaveJobs')
                   /\ (a # "sched" /\ UNCHANGED jobID => AssignsJob')
                   /\ \A b \in Actors \ {a} : pc'[b] = pc[b]
                   /\ pc'[a] = to
BY DEF TypeInv, PcType, Goto, CallsHaveJobs, AssignsJob, At, Actors, callVars

LEMMA StepType ==
    ASSUME TypeInv, NEW e \in Engines, NEW from, NEW to \in Places, Step(e, from, to)
    PROVE  ThreadType' /\ PcType' /\ (UNCHANGED callVars => CallsHaveJobs')
           /\ (UNCHANGED jobID => AssignsJob')
           /\ thread[e] = from /\ thread' = [thread EXCEPT ![e] = to]
BY DEF TypeInv, PcType, ThreadType, Step, CallsHaveJobs, AssignsJob, At, callVars

\* A job enters its completed list, and the one that is dropped is a job as well.
LEMMA EnterDoneType ==
    ASSUME TypeInv, NEW j \in Jobs, NEW st \in Statuses, EnterDone(j, st)
    PROVE  StatusType' /\ done' \in [Types -> Seq(Jobs)]
<1>1. j.type \in Types /\ done[j.type] \in Seq(Jobs)
  BY JobFacts DEF TypeInv, ListType
<1> DEFINE list == done[j.type]
           kept == IF ~InDone(j) /\ Len(list) = Kept(j.type) THEN SubSeq(list, 1, Len(list) - 1)
                   ELSE list
<1>2. kept \in Seq(Jobs)
  BY <1>1
<1>3. done' = IF InDone(j) THEN done ELSE [done EXCEPT ![j.type] = <<j>> \o kept]
  BY Zenon DEF EnterDone
<1>4. <<j>> \o kept \in Seq(Jobs)
  BY <1>2
<1> HIDE DEF kept
<1>5. done' \in [Types -> Seq(Jobs)]
  BY <1>1, <1>3, <1>4 DEF TypeInv, ListType
<1>6. StatusType'
  <2> DEFINE full == ~InDone(j) /\ Len(list) = Kept(j.type)
             dropped == IF full THEN {list[Len(list)]} ELSE {}
  <2>1. status' = [i \in Jobs |-> IF i \in dropped THEN "Archived" ELSE IF i = j THEN st
                                  ELSE status[i]]
    BY Zenon DEF EnterDone
  <2>2. told' = [i \in Jobs |-> IF i \in dropped THEN "Archive" ELSE IF i = j THEN "Complete"
                                ELSE told[i]]
    BY Zenon DEF EnterDone
  <2> HIDE DEF dropped
  <2> QED BY <2>1, <2>2 DEF StatusType, TypeInv, Statuses
<1> QED BY <1>5, <1>6

LEMMA TypeInvInit == Init => TypeInv
<1> SUFFICES ASSUME Init PROVE TypeInv
  OBVIOUS
<1>1. ListType /\ StatusType /\ OnType /\ PidType /\ StateType
  <2>1. ListType
    BY DEF Init, ListType, Types
  <2>2. StatusType /\ OnType
    BY DEF Init, StatusType, OnType, Statuses
  <2>3. PidType /\ StateType
    BY SizesAssumption DEF Init, PidType, StateType, States
  <2> QED BY <2>1, <2>2, <2>3
<1>2. MgrType /\ ThreadType /\ SchedType /\ CallType /\ LockType
  BY DEF Init, MgrType, ThreadType, SchedType, CallType, LockType, Types, Places
<1>3. PcType /\ CallsHaveJobs /\ AssignsJob
  BY DEF Init, PcType, CallsHaveJobs, AssignsJob, Actors, Labels, At
<1>4. CountType
  <2>1. counts = <<0, 0>>
    BY Zenon DEF Init
  <2> QED BY <2>1 DEF CountType
<1> QED BY <1>1, <1>2, <1>3, <1>4 DEF TypeInv

\* addJob and the calls that lead to it.
LEMMA CallersType == ASSUME TypeInv, Parse \/ PlayLookup \/ PlayAdd PROVE TypeInv'
<1> USE DEF listVars, engineVars, schedVars, callVars
<1>1. CASE Parse
  <2> DEFINE j == [type |-> "Parse", n |-> submitted["Parse"] + 1]
  <2>1. j \in Jobs
    <3>1. submitted["Parse"] \in Nat /\ submitted["Parse"] < NParses
      BY <1>1 DEF Parse, TypeInv, CallType, Types
    <3> QED BY <3>1, JobFacts, SizesAssumption
  <2>2. AddJob(j)
    BY <1>1, Zenon DEF Parse
  <2> HIDE DEF j
  <2>3. queued' = queued \cup {j} /\ told' = [told EXCEPT ![j] = "Queued"] /\ asleep' = FALSE
    BY <2>2 DEF AddJob
  <2>4. UNCHANGED <<running, done, status, engineID, playPid, engineVars, schedVars, cancelID,
                    cancelled, mutex, thread, pc>>
    BY <1>1, Zenon DEF Parse
  <2>5. CallType' /\ CallsHaveJobs'
    <3>1. submitted' = [submitted EXCEPT !["Parse"] = @ + 1]
      BY <1>1, Zenon DEF Parse
    <3> QED BY <2>4, <3>1 DEF TypeInv, CallType, CallsHaveJobs, At, Types
  <2>6. ListType' /\ StatusType'
    BY <2>1, <2>3, <2>4 DEF TypeInv, ListType, StatusType
  <2>7. LockType'
    BY <2>3, <2>4 DEF TypeInv, LockType
  <2> QED BY <2>4, <2>5, <2>6, <2>7, Unchanged DEF TypeInv
<1>2. CASE PlayLookup
  <2>1. /\ UNCHANGED <<listVars, status, engineID, told, engineVars, schedVars, cancelID, cancelled,
                       mutex, asleep>>
        /\ Goto("caller", "add") /\ UNCHANGED thread
        /\ submitted' = [submitted EXCEPT !["Play"] = @ + 1]
    BY <1>2, Zenon DEF PlayLookup, Move
  <2>2. PcType' /\ AssignsJob' /\ pc'["caller"] = "add" /\ pc'["canceller"] = pc["canceller"]
    BY <2>1, GotoType DEF Actors, Labels
  <2>3. PidType'
    <3>1. PICK p \in ParseJobs : playPid' = [playPid EXCEPT ![submitted["Play"] + 1] = p.n]
      BY <1>2, Zenon DEF PlayLookup
    <3>2. p.n \in 0 .. NParses
      BY DEF ParseJobs
    <3> QED BY <3>1, <3>2 DEF TypeInv, PidType
  <2>4. CallType' /\ submitted'["Play"] \in 1 .. NPlays
    <3>1. submitted["Play"] < NPlays
      BY <1>2, Zenon DEF PlayLookup
    <3> QED BY <2>1, <3>1, SizesAssumption DEF TypeInv, CallType, Types
  <2>5. CallsHaveJobs'
    BY <2>1, <2>2, <2>4 DEF TypeInv, CallsHaveJobs, At
  <2> QED BY <2>1, <2>2, <2>3, <2>4, <2>5, Unchanged DEF TypeInv
<1>3. CASE PlayAdd
  <2> DEFINE j == [type |-> "Play", n |-> submitted["Play"]]
  <2>1. /\ AddJob(j) /\ Goto("caller", "idle") /\ UNCHANGED thread
        /\ UNCHANGED <<running, done, status, engineID, playPid, engineVars, schedVars, callVars,
                       mutex>>
    BY <1>3, Zenon DEF PlayAdd, Move
  <2>4. j \in Jobs
    BY <1>3, JobFacts DEF PlayAdd, Move, TypeInv, CallsHaveJobs
  <2> HIDE DEF j
  <2>2. queued' = queued \cup {j} /\ told' = [told EXCEPT ![j] = "Queued"] /\ asleep' = FALSE
    BY <2>1 DEF AddJob
  <2>3. PcType' /\ CallsHaveJobs' /\ AssignsJob'
    <3>1. /\ PcType' /\ AssignsJob' /\ pc'["caller"] = "idle"
          /\ pc'["canceller"] = pc["canceller"]
      BY <2>1, GotoType DEF Actors, Labels
    <3> QED BY <2>1, <3>1 DEF TypeInv, CallsHaveJobs, At
  <2>5. ListType' /\ StatusType' /\ LockType'
    BY <2>1, <2>2, <2>4 DEF TypeInv, ListType, StatusType, LockType
  <2> QED BY <2>1, <2>3, <2>5, Unchanged DEF TypeInv
<1> QED BY <1>1, <1>2, <1>3

\* cancelJob.
LEMMA CancellersType == ASSUME TypeInv, Cancel \/ Canceller PROVE TypeInv'
<1> USE DEF listVars, jobVars, engineVars, schedVars
<1>1. ASSUME NEW to \in Labels, Goto("canceller", to), UNCHANGED submitted,
             to = "idle" \/ cancelID' \in Jobs, UNCHANGED jobID
      PROVE  PcType' /\ CallsHaveJobs' /\ AssignsJob'
  <2>1. PcType' /\ AssignsJob' /\ pc'["canceller"] = to /\ pc'["caller"] = pc["caller"]
    BY <1>1, GotoType DEF Actors
  <2> QED BY <1>1, <2>1 DEF TypeInv, CallsHaveJobs, At
<1>2. CASE Cancel
  <2>1. PICK j \in queued \cup running :
          /\ Goto("canceller", IF j \in running THEN "abort" ELSE "fromQueued")
          /\ cancelID' = j /\ cancelled' = cancelled \cup {j}
          /\ UNCHANGED thread
          /\ UNCHANGED <<listVars, jobVars, engineVars, schedVars, submitted, mutex, asleep>>
    BY <1>2, Zenon DEF Cancel, Move
  <2>2. j \in Jobs
    BY DEF TypeInv, ListType
  <2>3. PcType' /\ CallsHaveJobs' /\ AssignsJob'
    BY <1>1, <2>1, <2>2 DEF Labels
  <2>4. CallType'
    BY <2>1, <2>2 DEF TypeInv, CallType
  <2> QED BY <2>1, <2>3, <2>4, Unchanged DEF TypeInv
<1>3. CASE CancelAbort
  <2> DEFINE e == engineID[cancelID]
  <2>1. /\ Goto("canceller", "fromRunning") /\ UNCHANGED thread
        /\ UNCHANGED <<engineID, told, playPid, mgrRunning, currentJob, lastParse, listVars,
                       schedVars, callVars, mutex, asleep>>
        /\ status' = [status EXCEPT ![currentJob[e]] = "Canceled"]
    BY <1>3, Zenon DEF CancelAbort, Move
  <2>2. StatusType'
    BY <2>1 DEF TypeInv, StatusType, Statuses
  <2>3. StateType'
    <3>1. UNCHANGED lastParse
      BY <2>1
    <3>2. state' = [state EXCEPT ![e] = Stopped(@)] \/ state' = state
      BY <1>3, Zenon DEF CancelAbort
    <3>3. \/ aborted' = [aborted EXCEPT ![e] = @ \/ state[e] \in {"Parsing", "Playing", "Error"}]
          \/ aborted' = aborted
      BY <1>3, Zenon DEF CancelAbort
    <3>4. state' \in [Engines -> States]
      BY <3>2 DEF TypeInv, StateType, States, Stopped
    <3>5. aborted' \in [Engines -> BOOLEAN]
      BY <3>3 DEF TypeInv, StateType
    <3> QED BY <3>1, <3>4, <3>5 DEF TypeInv, StateType
  <2>4. PcType' /\ CallsHaveJobs' /\ AssignsJob'
    BY <1>1, <1>3, <2>1 DEF CancelAbort, Move, At, TypeInv, CallsHaveJobs, Labels, callVars
  <2> QED BY <2>1, <2>2, <2>3, <2>4, Unchanged DEF TypeInv
<1>4. CASE CancelRunning
  <2>1. /\ Goto("canceller", "fromQueued") /\ UNCHANGED thread
        /\ running' = running \ {cancelID} /\ EnterDone(cancelID, "Canceled")
        /\ UNCHANGED <<queued, engineID, playPid, engineVars, schedVars, callVars, mutex, asleep>>
    BY <1>4, Zenon DEF CancelRunning, Move
  <2>2. cancelID \in Jobs
    BY <1>4 DEF CancelRunning, Move, At, TypeInv, CallsHaveJobs
  <2>3. StatusType' /\ ListType'
    BY <2>1, <2>2, EnterDoneType DEF TypeInv, ListType, Statuses
  <2>4. PcType' /\ CallsHaveJobs' /\ AssignsJob'
    BY <1>1, <2>1, <2>2 DEF Labels, callVars
  <2> QED BY <2>1, <2>3, <2>4, Unchanged DEF TypeInv
<1>5. CASE CancelQueued
  <2>1. /\ Goto("canceller", "idle") /\ UNCHANGED thread /\ asleep' = FALSE
        /\ \/ /\ cancelID \in queued /\ queued' = queued \ {cancelID}
              /\ EnterDone(cancelID, "Canceled")
           \/ UNCHANGED <<queued, done, status, told>>
        /\ UNCHANGED <<running, engineID, playPid, engineVars, schedVars, callVars, mutex>>
    BY <1>5, Zenon DEF CancelQueued, Move
  <2>2. StatusType' /\ ListType'
    <3>1. CASE UNCHANGED <<queued, done, status, told>>
      BY <2>1, <3>1, Unchanged
    <3>2. CASE /\ cancelID \in queued /\ queued' = queued \ {cancelID}
               /\ EnterDone(cancelID, "Canceled")
      BY <2>1, <3>2, EnterDoneType DEF TypeInv, ListType, Statuses
    <3> QED BY <2>1, <3>1, <3>2
  <2>3. PcType' /\ CallsHaveJobs' /\ AssignsJob'
    BY <1>1, <2>1 DEF Labels, callVars
  <2>4. LockType'
    BY <2>1 DEF TypeInv, LockType
  <2> QED BY <2>1, <2>2, <2>3, <2>4, Unchanged DEF TypeInv
<1> QED BY <1>2, <1>3, <1>4, <1>5 DEF Canceller

\* assignJob: the job is given to the engine, or nothing but the scheduler moves.
Taken(j, e) ==
    /\ ~mgrRunning[e] /\ NoConflict(j, e) /\ j \in queued
    /\ IsParsed(e, ParseOf(j).n) <=> j.type = "Play"
    /\ status' = [status EXCEPT ![j] = "Running"]
    /\ engineID' = [engineID EXCEPT ![j] = e]
    /\ mgrRunning' = [mgrRunning EXCEPT ![e] = TRUE]
    /\ currentJob' = [currentJob EXCEPT ![e] = j]
    /\ free' = free \ {e}
    /\ thread' = [thread EXCEPT ![e] = "start"]
    /\ Goto("sched", "dequeue")
    /\ UNCHANGED <<queued, done, told>>
Passed(to) ==
    /\ Goto("sched", to)
    /\ UNCHANGED <<queued, done, status, told, engineID, mgrRunning, currentJob, free, thread>>
GivenUp(j) ==
    /\ j \in queued /\ queued' = queued \ {j} /\ EnterDone(j, "Canceled")
    /\ Goto("sched", "plays")
    /\ UNCHANGED <<engineID, mgrRunning, currentJob, free, thread>>

LEMMA Outcomes ==
    /\ \A j, e, next : AssignJob(j, e, next) => Taken(j, e) \/ Passed(next)
    /\ \A j : CancelPlay(j) => GivenUp(j) \/ Passed("plays")
    /\ \A to : Defer(to) => Passed(to)
<1>1. ASSUME NEW j, NEW e, NEW next, AssignJob(j, e, next) PROVE Taken(j, e) \/ Passed(next)
  <2> DEFINE gate == /\ ~mgrRunning[e] /\ NoConflict(j, e) /\ j \in queued
                     /\ IsParsed(e, ParseOf(j).n) <=> j.type = "Play"
  <2>1. CASE gate
    BY <1>1, <2>1, Zenon DEF AssignJob, Taken
  <2>2. CASE ~gate
    BY <1>1, <2>2, Zenon DEF AssignJob, Passed
  <2> QED BY <2>1, <2>2
<1>2. ASSUME NEW j, CancelPlay(j) PROVE GivenUp(j) \/ Passed("plays")
  BY <1>2, Zenon DEF CancelPlay, GivenUp, Passed
<1>3. ASSUME NEW to, Defer(to) PROVE Passed(to)
  BY <1>3, Zenon DEF Defer, Passed
<1> QED BY <1>1, <1>2, <1>3, Zenon

\* What assignPlayJobs and assignParseJobs do to one job, and what they leave alone.
SchedRest == <<running, playPid, state, lastParse, aborted, counts, callVars, mutex, asleep>>

LEMMA PlayNextCases ==
    ASSUME TypeInv, PlayNext
    PROVE  /\ At("sched", "plays") /\ UNCHANGED SchedRest
           /\ \/ Passed("parses") /\ UNCHANGED <<ids, jobID>>
              \/ /\ jobID' \in Jobs /\ jobID'.type = "Play" /\ jobID' \in ids
                 /\ ids' = ids \ {jobID'}
                 /\ \/ Passed("plays") \/ Passed("refresh") \/ GivenUp(jobID')
                    \/ \E e \in Engines : Taken(jobID', e)
<1> DEFINE plays == {j \in ids : j.type = "Play"}
           j     == First(plays)
           p     == ParseOf(j)
           able  == {e \in free : IsParsed(e, p.n)}
<1>1. At("sched", "plays") /\ UNCHANGED SchedRest
  BY Zenon DEF PlayNext, SchedRest
<1>2. CASE plays = {}
  BY <1>1, <1>2, Outcomes, Zenon DEF PlayNext
<1>3. CASE plays # {}
  <2>1. j \in plays
    <3>1. "Play" \in Types /\ plays \in SUBSET {i \in Jobs : i.type = "Play"}
      BY DEF Types, TypeInv, SchedType
    <3> QED BY <1>3, <3>1, FirstJob DEF TypeInv
  <2>2. j \in Jobs /\ j \in ids /\ j.type = "Play"
    BY <2>1 DEF TypeInv, SchedType
  <2>3. /\ ids' = ids \ {j} /\ jobID' = j
        /\ \/ CancelPlay(j)
           \/ able # {} /\ AssignJob(j, Least(able), "plays")
           \/ Defer("refresh")
    BY <1>3, Zenon DEF PlayNext
  <2>4. able # {} => Least(able) \in Engines
    <3>1. able \in SUBSET Engines
      BY DEF TypeInv, SchedType
    <3> QED BY <3>1, LeastEngine
  <2> HIDE DEF j, able
  <2>5. Passed("plays") \/ Passed("refresh") \/ GivenUp(j) \/ \E e \in Engines : Taken(j, e)
    BY <2>3, <2>4, Outcomes, Zenon
  <2> QED BY <1>1, <2>2, <2>3, <2>5, Zenon
<1> QED BY <1>2, <1>3

LEMMA ParseNextCases ==
    ASSUME TypeInv, ParseNext
    PROVE  /\ At("sched", "parses") /\ UNCHANGED SchedRest
           /\ \/ Passed("rest") /\ UNCHANGED <<ids, jobID>>
              \/ /\ jobID' \in Jobs /\ jobID'.type = "Parse" /\ jobID' \in ids
                 /\ ids' = ids \ {jobID'}
                 /\ \/ Passed("parses")
                    \/ \E e \in Engines : Taken(jobID', e)
<1> DEFINE parses == {j \in ids : j.type = "Parse"}
           j      == First(parses)
           pool   == IF j.n \in AsyncParses /\ j \in queued THEN free \cap {0} ELSE free \ {0}
           oldest == {e \in pool : \A f \in pool : lastParse[e] <= lastParse[f]}
<1>1. At("sched", "parses") /\ UNCHANGED SchedRest
  BY Zenon DEF ParseNext, SchedRest
<1>2. CASE parses = {}
  BY <1>1, <1>2, Outcomes, Zenon DEF ParseNext
<1>3. CASE parses # {}
  <2>1. j \in parses
    <3>1. "Parse" \in Types /\ parses \in SUBSET {i \in Jobs : i.type = "Parse"}
      BY DEF Types, TypeInv, SchedType
    <3> QED BY <1>3, <3>1, FirstJob DEF TypeInv
  <2>2. j \in Jobs /\ j \in ids /\ j.type = "Parse"
    BY <2>1 DEF TypeInv, SchedType
  <2>3. /\ ids' = ids \ {j} /\ jobID' = j
        /\ \/ pool # {} /\ AssignJob(j, Least(oldest), "parses")
           \/ Defer("parses")
    BY <1>3, Zenon DEF ParseNext
  <2>4. pool # {} => Least(oldest) \in Engines
    <3> SUFFICES ASSUME pool # {} PROVE Least(oldest) \in Engines
      OBVIOUS
    <3>1. pool \in SUBSET Engines
      BY DEF TypeInv, SchedType
    <3> HIDE DEF pool
    <3> DEFINE ages == {lastParse[e] : e \in pool}
    <3>2. ages \in SUBSET Nat /\ ages # {}
      BY <3>1 DEF TypeInv, StateType
    <3>3. PICK m \in ages : \A n \in ages : m <= n
      BY <3>2, LeastExists
    <3>4. PICK e \in pool : lastParse[e] = m
      BY <3>3
    <3>5. e \in oldest /\ oldest \in SUBSET Engines
      BY <3>1, <3>3, <3>4
    <3> QED BY <3>5, LeastEngine
  <2> HIDE DEF j, pool, oldest
  <2>5. Passed("parses") \/ \E e \in Engines : Taken(j, e)
    BY <2>3, <2>4, Outcomes, Zenon
  <2> QED BY <1>1, <2>2, <2>3, <2>5, Zenon
<1> QED BY <1>2, <1>3

LEMMA PlayRefreshCases ==
    ASSUME TypeInv, PlayRefresh
    PROVE  /\ At("sched", "refresh") /\ UNCHANGED SchedRest /\ UNCHANGED <<ids, jobID>>
           /\ \/ Passed("plays") \/ GivenUp(jobID)
              \/ \E e \in Engines : jobID \in Jobs /\ Taken(jobID, e)
<1> DEFINE p == ParseOf(jobID)
<1>1. At("sched", "refresh") /\ UNCHANGED SchedRest /\ UNCHANGED <<ids, jobID>>
  BY Zenon DEF PlayRefresh, SchedRest
<1>2. \/ Defer("plays")
      \/ EngineHas(p) /\ AssignJob(jobID, engineID[p], "plays")
      \/ CancelPlay(jobID)
  BY Zenon DEF PlayRefresh
<1>3. Taken(jobID, engineID[p]) => jobID \in Jobs
  BY DEF Taken, TypeInv, ListType
<1>4. EngineHas(p) => engineID[p] \in Engines
  <2>1. ASSUME EngineHas(p) PROVE p \in Jobs
    <3>1. PICK i \in DOMAIN done[p.type] : done[p.type][i] = p
      BY <2>1, Zenon DEF EngineHas, InDone
    <3>2. p.type \in Types => p \in Jobs
      BY <3>1 DEF TypeInv, ListType
    <3>3. p.type \in Types
      BY JobFacts DEF ParseOf, Types, TypeInv, SchedType
    <3> QED BY <3>2, <3>3
  <2> QED BY <2>1 DEF EngineHas, TypeInv, OnType
<1> HIDE DEF p
<1> QED BY <1>1, <1>2, <1>3, <1>4, Outcomes, Zenon

\* The outcomes keep the types.
AssignTypes == ListType /\ StatusType /\ OnType /\ MgrType /\ ThreadType /\ PcType
               /\ free \in SUBSET Engines

LEMMA OutcomeType ==
    ASSUME TypeInv, UNCHANGED SchedRest
    PROVE  /\ \A to \in Labels : Passed(to) => AssignTypes' /\ CallsHaveJobs' /\ pc'["sched"] = to
           /\ \A j : GivenUp(j) => AssignTypes' /\ CallsHaveJobs' /\ pc'["sched"] = "plays"
           /\ \A j \in Jobs, e \in Engines : Taken(j, e) => AssignTypes' /\ CallsHaveJobs'
<1>1. "sched" \in Actors /\ "dequeue" \in Labels /\ "plays" \in Labels /\ UNCHANGED callVars
  BY DEF Actors, Labels, SchedRest
<1>2. running' = running
  BY DEF SchedRest
<1>3. ASSUME NEW to \in Labels, Passed(to)
      PROVE  AssignTypes' /\ CallsHaveJobs' /\ pc'["sched"] = to
  <2>1. PcType' /\ CallsHaveJobs' /\ pc'["sched"] = to
    <3>1. Goto("sched", to)
      BY <1>3, Zenon DEF Passed
    <3>2. PcType' /\ CallsHaveJobs'
      BY <1>1, <3>1, GotoType
    <3>3. pc'["sched"] = to
      BY <1>1, <3>1 DEF Goto, TypeInv, PcType
    <3> QED BY <3>2, <3>3
  <2> QED BY <1>2, <1>3, <2>1 DEF Passed, AssignTypes, TypeInv, ListType, StatusType, OnType,
             MgrType, ThreadType, SchedType
<1>4. ASSUME NEW j, GivenUp(j) PROVE AssignTypes' /\ CallsHaveJobs' /\ pc'["sched"] = "plays"
  <2>1. PcType' /\ CallsHaveJobs' /\ pc'["sched"] = "plays"
    <3>1. Goto("sched", "plays")
      BY <1>4, Zenon DEF GivenUp
    <3>2. PcType' /\ CallsHaveJobs'
      BY <1>1, <3>1, GotoType
    <3>3. pc'["sched"] = "plays"
      BY <1>1, <3>1 DEF Goto, TypeInv, PcType
    <3> QED BY <3>2, <3>3
  <2>2. j \in Jobs /\ "Canceled" \in Statuses
    BY <1>4 DEF GivenUp, TypeInv, ListType, Statuses
  <2>3. StatusType' /\ ListType'
    BY <1>2, <1>4, <2>2, EnterDoneType DEF GivenUp, TypeInv, ListType
  <2>4. OnType' /\ MgrType' /\ ThreadType' /\ free' \in SUBSET Engines
    BY <1>4 DEF GivenUp, TypeInv, OnType, MgrType, ThreadType, SchedType
  <2> QED BY <2>1, <2>3, <2>4 DEF AssignTypes
<1>5. ASSUME NEW j \in Jobs, NEW e \in Engines, Taken(j, e) PROVE AssignTypes' /\ CallsHaveJobs'
  <2>1. PcType' /\ CallsHaveJobs'
    BY <1>1, <1>5, GotoType DEF Taken
  <2>2. StatusType' /\ ListType'
    BY <1>2, <1>5 DEF Taken, TypeInv, ListType, StatusType, Statuses
  <2>3. OnType' /\ ThreadType' /\ free' \in SUBSET Engines
    BY <1>5 DEF Taken, TypeInv, OnType, ThreadType, SchedType, Places
  <2>4. MgrType'
    BY <1>5 DEF Taken, TypeInv, MgrType
  <2> QED BY <2>1, <2>2, <2>3, <2>4 DEF AssignTypes
<1> QED BY <1>3, <1>4, <1>5

LEMMA SchedulerType == ASSUME TypeInv, Scheduler PROVE TypeInv'
<1> USE DEF listVars, jobVars, engineVars, schedVars, callVars
<1>1. ASSUME AssignTypes', CallsHaveJobs', AssignsJob', UNCHANGED SchedRest, ids' \in SUBSET Jobs,
             jobID' \in Jobs \cup {NoJob}
      PROVE  TypeInv'
  BY <1>1 DEF AssignTypes, SchedRest, TypeInv, PidType, StateType, CountType, CallType, LockType,
     SchedType
<1>2. CASE PlayNext
  BY <1>1, <1>2, PlayNextCases, OutcomeType DEF TypeInv, SchedType, AssignsJob, Labels
<1>3. CASE ParseNext
  BY <1>1, <1>3, ParseNextCases, OutcomeType DEF TypeInv, SchedType, AssignsJob, Labels
<1>4. CASE PlayRefresh
  BY <1>1, <1>4, PlayRefreshCases, OutcomeType DEF TypeInv, SchedType, AssignsJob, Labels
<1>5. ASSUME NEW to \in Labels, Goto("sched", to), UNCHANGED callVars
      PROVE  /\ PcType' /\ CallsHaveJobs'
             /\ to \notin {"dequeue", "enqueue"} \/ jobID' \in Jobs => AssignsJob'
  BY <1>5, GotoType DEF Actors, AssignsJob
<1>6. CASE Scan
  <2>1. /\ Goto("sched", "plays") \/ Goto("sched", "rest")
        /\ ids' = queued /\ free' = {e \in Engines : ~mgrRunning[e]}
        /\ counts' = <<Cardinality(queued), Cardinality(free')>>
        /\ UNCHANGED <<jobID, listVars, jobVars, engineVars, callVars, mutex, asleep, thread>>
    BY <1>6, Zenon DEF Scan, Move
  <2>2. IsFiniteSet(queued) /\ IsFiniteSet(free')
    BY <2>1, JobsFinite, FS_Subset DEF TypeInv, ListType
  <2>3. CountType'
    BY <2>1, <2>2, FS_CardinalityType DEF CountType
  <2>4. PcType' /\ CallsHaveJobs' /\ AssignsJob'
    BY <1>5, <2>1 DEF Labels
  <2>5. SchedType'
    BY <2>1 DEF TypeInv, SchedType, ListType
  <2> QED BY <2>1, <2>3, <2>4, <2>5, Unchanged DEF TypeInv
<1>7. CASE LeaveQueue
  <2>1. /\ Goto("sched", "enqueue") /\ queued' = queued \ {jobID} /\ UNCHANGED thread
        /\ UNCHANGED <<running, done, jobVars, engineVars, schedVars, callVars, mutex, asleep>>
    BY <1>7, Zenon DEF LeaveQueue, Move
  <2>2. jobID \in Jobs
    BY <1>7 DEF LeaveQueue, Move, At, TypeInv, AssignsJob
  <2>3. PcType' /\ CallsHaveJobs' /\ AssignsJob'
    BY <1>5, <2>1, <2>2 DEF Labels
  <2>4. ListType'
    BY <2>1 DEF TypeInv, ListType
  <2> QED BY <2>1, <2>3, <2>4, Unchanged DEF TypeInv
<1>8. CASE EnterRunning
  <2>1. /\ Goto("sched", "plays") \/ Goto("sched", "parses")
        /\ running' = running \cup {jobID} /\ told' = [told EXCEPT ![jobID] = "Running"]
        /\ UNCHANGED <<queued, done, status, engineID, playPid, engineVars, schedVars, callVars,
                       mutex, asleep, thread>>
    BY <1>8, Zenon DEF EnterRunning, Move
  <2>2. jobID \in Jobs
    BY <1>8 DEF EnterRunning, Move, At, TypeInv, AssignsJob
  <2>3. PcType' /\ CallsHaveJobs' /\ AssignsJob'
    BY <1>5, <2>1 DEF Labels
  <2>4. ListType' /\ StatusType'
    BY <2>1, <2>2 DEF TypeInv, ListType, StatusType
  <2> QED BY <2>1, <2>3, <2>4, Unchanged DEF TypeInv
<1>9. CASE Rest
  <2>1. /\ \E to \in {"blocked", "scan", "timed"} : Goto("sched", to)
        /\ mutex' \in {"none", "sched"} /\ asleep' \in BOOLEAN
        /\ UNCHANGED <<listVars, jobVars, engineVars, schedVars, callVars, thread>>
    BY <1>9 DEF Rest, Move
  <2>2. PcType' /\ CallsHaveJobs' /\ AssignsJob'
    BY <1>5, <2>1 DEF Labels
  <2>3. LockType'
    BY <2>1 DEF LockType
  <2> QED BY <2>1, <2>2, <2>3, Unchanged DEF TypeInv
<1>10. CASE Lock \/ Wake \/ Timed
  <2>1. /\ Goto("sched", "scan") \/ UNCHANGED pc
        /\ mutex' \in {mutex, "sched"} /\ asleep' \in {asleep, TRUE}
        /\ UNCHANGED <<listVars, jobVars, engineVars, schedVars, callVars, thread>>
    BY <1>10, Zenon DEF Lock, Wake, Timed, Move
  <2>2. PcType' /\ CallsHaveJobs' /\ AssignsJob'
    BY <1>5, <2>1, Unchanged DEF Labels
  <2>3. LockType'
    BY <2>1 DEF TypeInv, LockType
  <2> QED BY <2>1, <2>2, <2>3, Unchanged DEF TypeInv
<1> QED BY <1>2, <1>3, <1>4, <1>6, <1>7, <1>8, <1>9, <1>10 DEF Scheduler

\* A job thread takes its job up, ends it, reports it and lets its manager go.
LEMMA JobThreadType == ASSUME TypeInv, NEW e \in Engines, JobThread(e) PROVE TypeInv'
<1> USE DEF listVars, jobVars, engineVars, schedVars
<1> DEFINE j == currentJob[e]
<1>1. j \in Jobs \cup {NoJob}
  BY DEF TypeInv, MgrType
<1>2. CASE Begin(e)
  <2>1. /\ Step(e, "start", "work")
        /\ UNCHANGED <<mgrRunning, currentJob, listVars, jobVars, schedVars, callVars, mutex,
                       asleep>>
    BY <1>2, Zenon DEF Begin
  <2>2. \/ /\ j.type = "Parse" /\ state' = [state EXCEPT ![e] = "Parsing"]
           /\ lastParse' = [lastParse EXCEPT ![e] = j.n]
           /\ aborted' = [aborted EXCEPT ![e] = FALSE]
        \/ /\ \E mine \in BOOLEAN : /\ state' = [state EXCEPT ![e] = IF mine THEN "Playing" ELSE @]
                                    /\ aborted' = [aborted EXCEPT ![e] = ~mine]
           /\ UNCHANGED lastParse
    <3> DEFINE mine == state[e] = "Parsed" /\ lastParse[e] = ParseOf(j).n
    <3>1. mine \in BOOLEAN
      OBVIOUS
    <3>2. \/ /\ j.type = "Parse" /\ state' = [state EXCEPT ![e] = "Parsing"]
             /\ lastParse' = [lastParse EXCEPT ![e] = j.n]
             /\ aborted' = [aborted EXCEPT ![e] = FALSE]
          \/ /\ state' = [state EXCEPT ![e] = IF mine THEN "Playing" ELSE @]
             /\ aborted' = [aborted EXCEPT ![e] = ~mine]
             /\ UNCHANGED lastParse
      BY <1>2, Zenon DEF Begin
    <3> HIDE DEF mine
    <3> QED BY <3>1, <3>2, Zenon
  <2>3. j.type = "Parse" => j.n \in 0 .. NParses
    BY <1>1, JobFacts DEF NoJob
  <2> HIDE DEF j
  <2>4. StateType'
    BY <2>2, <2>3 DEF TypeInv, StateType, States
  <2>5. ThreadType' /\ PcType' /\ CallsHaveJobs' /\ AssignsJob'
    BY <2>1, StepType DEF Places
  <2> QED BY <2>1, <2>4, <2>5, Unchanged DEF TypeInv
<1>3. CASE End(e)
  <2>1. /\ Step(e, "work", "judge")
        /\ UNCHANGED <<mgrRunning, currentJob, lastParse, listVars, engineID, told, playPid,
                       schedVars, callVars, mutex, asleep>>
    BY <1>3, Zenon DEF End
  <2>2. /\ \E s \in States : state' = [state EXCEPT ![e] = s]
        /\ aborted' \in {aborted, [aborted EXCEPT ![e] = TRUE]}
        /\ status' \in {status, [status EXCEPT ![j] = "Canceled"]}
    BY <1>3 DEF End, States
  <2>3. StateType' /\ StatusType'
    BY <2>1, <2>2 DEF TypeInv, StateType, StatusType, Statuses
  <2>4. ThreadType' /\ PcType' /\ CallsHaveJobs' /\ AssignsJob'
    BY <2>1, StepType DEF Places
  <2> QED BY <2>1, <2>3, <2>4, Unchanged DEF TypeInv
<1>4. CASE Judge(e)
  <2>1. /\ Step(e, "judge", "canceled") \/ Step(e, "judge", "complete")
        /\ UNCHANGED <<listVars, jobVars, engineVars, schedVars, callVars, mutex, asleep>>
    BY <1>4, Zenon DEF Judge
  <2>2. ThreadType' /\ PcType' /\ CallsHaveJobs' /\ AssignsJob'
    BY <2>1, StepType DEF Places
  <2> QED BY <2>1, <2>2, Unchanged DEF TypeInv
<1>5. CASE Report(e)
  <2>1. /\ asleep' = FALSE /\ thread' = [thread EXCEPT ![e] = "clear"]
        /\ UNCHANGED <<queued, engineID, playPid, engineVars, schedVars, callVars, mutex, pc>>
    BY <1>5, Zenon DEF Report
  <2>2. \/ /\ j \in running /\ running' = running \ {j}
           /\ \E st \in {"Completed", "Canceled"} : EnterDone(j, st)
        \/ UNCHANGED <<running, done, status, told>>
    BY <1>5, Zenon DEF Report
  <2>3. StatusType' /\ ListType'
    <3>1. CASE UNCHANGED <<running, done, status, told>>
      BY <2>1, <3>1, Unchanged
    <3>2. ASSUME NEW st \in {"Completed", "Canceled"}, j \in running, running' = running \ {j},
                 EnterDone(j, st)
          PROVE  StatusType' /\ ListType'
      BY <2>1, <3>2, EnterDoneType DEF TypeInv, ListType, Statuses
    <3> QED BY <2>2, <3>1, <3>2
  <2>4. ThreadType' /\ LockType'
    BY <2>1 DEF TypeInv, ThreadType, LockType, Places
  <2> QED BY <2>1, <2>3, <2>4, Unchanged DEF TypeInv
<1>6. CASE Clear(e)
  <2>1. /\ Step(e, "clear", "idle") /\ mgrRunning' = [mgrRunning EXCEPT ![e] = FALSE]
        /\ UNCHANGED <<currentJob, state, lastParse, aborted, listVars, jobVars, schedVars,
                       callVars, mutex, asleep>>
    BY <1>6, Zenon DEF Clear
  <2>2. ThreadType' /\ PcType' /\ CallsHaveJobs' /\ AssignsJob'
    BY <2>1, StepType DEF Places
  <2>3. MgrType'
    BY <2>1 DEF TypeInv, MgrType
  <2> QED BY <2>1, <2>2, <2>3, Unchanged DEF TypeInv
<1> QED BY <1>2, <1>3, <1>4, <1>5, <1>6 DEF JobThread

LEMMA TypeInvStep == TypeInv /\ [Next]_vars => TypeInv'
<1>1. TypeInv /\ Next => TypeInv'
  BY CallersType, CancellersType, SchedulerType, JobThreadType DEF Next
<1>2. TypeInv /\ UNCHANGED vars => TypeInv'
  BY Unchanged DEF vars, listVars, jobVars, engineVars, schedVars, callVars, TypeInv
<1> QED BY <1>1, <1>2

LEMMA TypeInvAlways == Spec => []TypeInv
BY TypeInvInit, TypeInvStep, PTL DEF Spec

\* Whatever the scheduler, the callers and the job threads do, the lists hold jobs, an engine
\* has a job of the scheduler's, and its last parse is one that was submitted.
THEOREM TypeCorrect == Spec => []TypeOK
BY TypeInvAlways, TypeInvMeans, PTL

-----------------------------------------------------------------------------
(* One play at a time.  satisfiesConflictPolicy looks at the running list only, so the      *)
(* invariant says where the jobs of busy engines are: in the list, in the scheduler's hand  *)
(* on their way to it, or cancelled.  For that a job must be given to one engine once: its  *)
(* number is never queued again, and it leaves the queue before another job is looked at.   *)

Busy(e)   == thread[e] # "idle"
InHand(j) == pc["sched"] \in {"dequeue", "enqueue"} /\ jobID = j
Leaving(j) == pc["sched"] = "dequeue" /\ jobID = j

\* The job has been submitted, and is not the one the caller is about to queue.
Known(j)  == /\ j.n <= submitted[j.type]
             /\ j.type = "Play" /\ pc["caller"] = "add" => j.n < submitted["Play"]

MgrBusy     == \A e \in Engines : mgrRunning[e] <=> Busy(e)
CancelKnown == pc["canceller"] = "idle" \/ cancelID \in cancelled
QueuedKnown == \A j \in queued : Known(j)
HeldKnown   == \A e \in Engines : Busy(e) => /\ currentJob[e] \in Jobs /\ Known(currentJob[e])
                                             /\ engineID[currentJob[e]] = e
HeldLeaves  == \A e \in Engines : Busy(e) /\ currentJob[e] \in queued => Leaving(currentJob[e])
PlaysListed == \A e \in Engines : Runs(e, "Play")
                  => currentJob[e] \in running \cup cancelled \/ InHand(currentJob[e])

ListInv == /\ MgrBusy /\ CancelKnown /\ QueuedKnown /\ HeldKnown /\ HeldLeaves /\ PlaysListed
           /\ OnePlayAtATime

\* A job is held by one engine only: the job knows which.
LEMMA OneEngine ==
    ASSUME ListInv, NEW e \in Engines, NEW f \in Engines, Busy(e), Busy(f), e # f
    PROVE  currentJob[e] # currentJob[f]
BY DEF ListInv, HeldKnown

LEMMA RunsBusy == ASSUME NEW e, NEW ty, Runs(e, ty) PROVE Busy(e)
BY DEF Runs, Busy

LEMMA ListInit == Init => ListInv
BY DEF Init, ListInv, MgrBusy, CancelKnown, QueuedKnown, HeldKnown, HeldLeaves, PlaysListed,
       OnePlayAtATime, Busy, Runs

\* What the parts of the invariant read.
HeldVars == <<thread, currentJob, mgrRunning, engineID>>

\* The engines keep their jobs: what is left is where the jobs are.
LEMMA HeldSame ==
    ASSUME TypeInv, ListInv, UNCHANGED HeldVars
    PROVE  /\ MgrBusy'
           /\ (\A j \in Jobs : Known(j) => Known(j)') => HeldKnown'
           /\ cancelled \subseteq cancelled' => OnePlayAtATime'
           /\ \A e \in Engines : /\ (Busy(e) <=> Busy(e)')
                                 /\ (Runs(e, "Play") <=> Runs(e, "Play")')
                                 /\ currentJob'[e] = currentJob[e]
BY DEF HeldVars, ListInv, MgrBusy, HeldKnown, OnePlayAtATime, Busy, Runs

\* A step of another actor leaves the scheduler's hand alone.
LEMMA SchedStays ==
    ASSUME TypeInv, UNCHANGED jobID, pc'["sched"] = pc["sched"]
    PROVE  \A j : (InHand(j) <=> InHand(j)') /\ (Leaving(j) <=> Leaving(j)')
BY DEF InHand, Leaving

\* One job more in the queue, that no engine can have.
LEMMA QueueGrows ==
    ASSUME TypeInv, ListInv, UNCHANGED HeldVars, UNCHANGED <<running, cancelled, cancelID, jobID>>,
           pc'["sched"] = pc["sched"], pc'["canceller"] = pc["canceller"],
           NEW S \in SUBSET Jobs, queued' = queued \cup S,
           \A j \in Jobs : Known(j) => Known(j)',
           \A j \in S : ~Known(j) /\ Known(j)'
    PROVE  ListInv'
<1>1. MgrBusy' /\ HeldKnown' /\ OnePlayAtATime'
  BY HeldSame
<1>2. CancelKnown'
  BY DEF ListInv, CancelKnown
<1>3. QueuedKnown'
  BY DEF ListInv, QueuedKnown, TypeInv, ListType
<1>4. HeldLeaves' /\ PlaysListed'
  BY HeldSame, SchedStays DEF ListInv, HeldLeaves, PlaysListed, HeldKnown
<1> QED BY <1>1, <1>2, <1>3, <1>4 DEF ListInv

LEMMA ListCallers == ASSUME TypeInv, ListInv, Parse \/ PlayLookup \/ PlayAdd PROVE ListInv'
<1> USE DEF HeldVars, listVars, engineVars, schedVars, callVars
<1>1. CASE Parse
  <2>2. submitted["Parse"] \in Nat /\ submitted["Parse"] < NParses /\ submitted["Play"] \in Nat
    BY <1>1 DEF Parse, TypeInv, CallType, Types
  <2>7. submitted["Parse"] + 1 \in 1 .. NParses
    BY <2>2, SizesAssumption
  <2>3. PICK j \in Jobs : j = [type |-> "Parse", n |-> submitted["Parse"] + 1]
    BY <2>7, JobFacts
  <2>1. /\ queued' = queued \cup {j} /\ submitted' = [submitted EXCEPT !["Parse"] = @ + 1]
        /\ UNCHANGED <<running, engineID, engineVars, schedVars, cancelID, cancelled, thread, pc>>
    BY <1>1, <2>3, Zenon DEF Parse, AddJob
  <2>4. \A i \in Jobs : Known(i) => Known(i)'
    BY <2>1, <2>2, JobFacts DEF Known, TypeInv, CallType, Types
  <2>5. \A i \in {j} : ~Known(i) /\ Known(i)'
    BY <2>1, <2>2, <2>3 DEF Known, TypeInv, CallType, Types
  <2>6. pc'["sched"] = pc["sched"] /\ pc'["canceller"] = pc["canceller"]
    BY <2>1
  <2>8. {j} \in SUBSET Jobs
    OBVIOUS
  <2> QED BY <2>1, <2>4, <2>5, <2>6, <2>8, QueueGrows
<1>2. CASE PlayLookup
  <2>1. /\ Goto("caller", "add") /\ submitted' = [submitted EXCEPT !["Play"] = @ + 1]
        /\ At("caller", "idle") /\ queued' = queued \cup {}
        /\ UNCHANGED <<running, engineID, engineVars, schedVars, cancelID, cancelled, thread>>
    BY <1>2 DEF PlayLookup, Move
  <2>2. /\ pc'["sched"] = pc["sched"] /\ pc'["canceller"] = pc["canceller"]
        /\ pc'["caller"] = "add" /\ pc["caller"] = "idle"
    BY <2>1 DEF Goto, At, TypeInv, PcType, Actors
  <2>3. \A i \in Jobs : Known(i) => Known(i)'
    BY <2>1, <2>2, JobFacts DEF Known, TypeInv, CallType, Types
  <2>4. {} \in SUBSET Jobs /\ \A j \in {} : ~Known(j) /\ Known(j)'
    OBVIOUS
  <2> QED BY <2>1, <2>2, <2>3, <2>4, QueueGrows
<1>3. CASE PlayAdd
  <2>4. PICK j \in Jobs : j = [type |-> "Play", n |-> submitted["Play"]]
    BY <1>3, JobFacts DEF PlayAdd, Move, TypeInv, CallsHaveJobs
  <2>1. /\ Goto("caller", "idle") /\ At("caller", "add") /\ queued' = queued \cup {j}
        /\ UNCHANGED <<running, engineID, engineVars, schedVars, callVars, thread>>
    BY <1>3, <2>4, Zenon DEF PlayAdd, Move, AddJob
  <2>2. /\ pc'["sched"] = pc["sched"] /\ pc'["canceller"] = pc["canceller"]
        /\ pc'["caller"] = "idle" /\ pc["caller"] = "add"
    BY <2>1 DEF Goto, At, TypeInv, PcType, Actors
  <2>3. submitted["Play"] \in 1 .. NPlays
    BY <2>1 DEF TypeInv, CallsHaveJobs
  <2>5. \A i \in Jobs : Known(i) => Known(i)'
    BY <2>1, <2>2, JobFacts DEF Known, TypeInv, CallType, Types
  <2>6. {j} \in SUBSET Jobs /\ \A i \in {j} : ~Known(i) /\ Known(i)'
    BY <2>1, <2>2, <2>3, <2>4 DEF Known
  <2> QED BY <2>1, <2>2, <2>5, <2>6, QueueGrows
<1> QED BY <1>1, <1>2, <1>3

\* A list shrinks by jobs somebody cancelled.
LEMMA ListsShrink ==
    ASSUME TypeInv, ListInv, UNCHANGED HeldVars, UNCHANGED <<submitted, jobID>>,
           pc'["sched"] = pc["sched"], pc'["caller"] = pc["caller"],
           queued' \subseteq queued, running \subseteq running' \cup cancelled',
           cancelled \subseteq cancelled', CancelKnown'
    PROVE  ListInv'
<1>1. \A j \in Jobs : Known(j) => Known(j)'
  BY DEF Known
<1>2. MgrBusy' /\ HeldKnown' /\ OnePlayAtATime'
  BY <1>1, HeldSame
<1>3. QueuedKnown'
  BY <1>1 DEF ListInv, QueuedKnown, TypeInv, ListType
<1>4. HeldLeaves' /\ PlaysListed'
  BY HeldSame, SchedStays DEF ListInv, HeldLeaves, PlaysListed
<1> QED BY <1>2, <1>3, <1>4 DEF ListInv

LEMMA ListCancellers == ASSUME TypeInv, ListInv, Cancel \/ Canceller PROVE ListInv'
<1> USE DEF HeldVars, listVars, jobVars, engineVars, schedVars, callVars
<1>1. ASSUME NEW to \in Labels, NEW from, Move("canceller", from, to)
      PROVE  /\ pc'["sched"] = pc["sched"] /\ pc'["caller"] = pc["caller"]
             /\ UNCHANGED thread
             /\ from # "idle" => cancelID \in cancelled
             /\ pc'["canceller"] = to
  BY <1>1 DEF Move, At, Goto, TypeInv, PcType, Actors, ListInv, CancelKnown
<1>2. CASE Cancel
  <2>1. PICK j \in queued \cup running :
          /\ Move("canceller", "idle", IF j \in running THEN "abort" ELSE "fromQueued")
          /\ cancelID' = j /\ cancelled' = cancelled \cup {j}
          /\ UNCHANGED <<listVars, jobVars, engineVars, schedVars, submitted>>
    BY <1>2, Zenon DEF Cancel
  <2>2. pc'["sched"] = pc["sched"] /\ pc'["caller"] = pc["caller"] /\ UNCHANGED thread
    BY <1>1, <2>1 DEF Labels
  <2> QED BY <2>1, <2>2, ListsShrink DEF CancelKnown
<1>3. CASE CancelAbort
  <2>1. /\ Move("canceller", "abort", "fromRunning")
        /\ UNCHANGED <<engineID, mgrRunning, currentJob, listVars, schedVars, callVars>>
    BY <1>3, Zenon DEF CancelAbort
  <2> QED BY <1>1, <2>1, ListsShrink DEF CancelKnown, Labels
<1>4. CASE CancelRunning
  <2>1. /\ Move("canceller", "fromRunning", "fromQueued") /\ running' = running \ {cancelID}
        /\ UNCHANGED <<queued, engineID, engineVars, schedVars, callVars>>
    BY <1>4, Zenon DEF CancelRunning
  <2> QED BY <1>1, <2>1, ListsShrink DEF CancelKnown, Labels
<1>5. CASE CancelQueued
  <2>1. /\ Move("canceller", "fromQueued", "idle") /\ queued' \subseteq queued
        /\ UNCHANGED <<running, engineID, engineVars, schedVars, callVars>>
    BY <1>5 DEF CancelQueued
  <2> QED BY <1>1, <2>1, ListsShrink DEF CancelKnown, Labels
<1> QED BY <1>2, <1>3, <1>4, <1>5 DEF Canceller

\* The scheduler gives a queued job to an engine without one, and a play only if nobody who
\* was not cancelled plays.
LEMMA ListTaken ==
    ASSUME TypeInv, ListInv, NEW j \in Jobs, NEW e \in Engines, Taken(j, e),
           UNCHANGED <<running, callVars>>, jobID' = j, ~InHand(j),
           pc["sched"] \notin {"dequeue", "enqueue"}
    PROVE  ListInv'
<1>1. /\ ~mgrRunning[e] /\ NoConflict(j, e) /\ j \in queued
      /\ engineID' = [engineID EXCEPT ![j] = e]
      /\ mgrRunning' = [mgrRunning EXCEPT ![e] = TRUE]
      /\ currentJob' = [currentJob EXCEPT ![e] = j]
      /\ thread' = [thread EXCEPT ![e] = "start"]
      /\ Goto("sched", "dequeue")
      /\ UNCHANGED <<queued, running, submitted, cancelID, cancelled>>
  BY Zenon DEF Taken, callVars
<1>2. /\ pc'["sched"] = "dequeue" /\ pc'["caller"] = pc["caller"]
      /\ pc'["canceller"] = pc["canceller"]
  BY <1>1 DEF Goto, TypeInv, PcType, Actors
<1>3. \A i : Known(i) <=> Known(i)'
  BY <1>1, <1>2 DEF Known
<1>4. /\ thread'[e] = "start" /\ currentJob'[e] = j /\ engineID'[j] = e /\ mgrRunning'[e] = TRUE
      /\ \A f \in Engines \ {e} : /\ thread'[f] = thread[f] /\ currentJob'[f] = currentJob[f]
                                  /\ mgrRunning'[f] = mgrRunning[f]
      /\ \A i \in Jobs \ {j} : engineID'[i] = engineID[i]
  BY <1>1 DEF TypeInv, ThreadType, MgrType, OnType
<1>5. \A f \in Engines : Busy(f) => currentJob[f] # j
  BY <1>1 DEF ListInv, HeldLeaves, Leaving
<1>6. MgrBusy'
  BY <1>4 DEF ListInv, MgrBusy, Busy
<1>7. CancelKnown' /\ QueuedKnown'
  BY <1>1, <1>2, <1>3 DEF ListInv, CancelKnown, QueuedKnown
<1>8. HeldKnown'
  BY <1>1, <1>3, <1>4, <1>5 DEF ListInv, HeldKnown, QueuedKnown, Busy
<1>9. HeldLeaves'
  BY <1>1, <1>2, <1>4, <1>5 DEF ListInv, HeldLeaves, Leaving, Busy
<1>10. PlaysListed'
  BY <1>1, <1>2, <1>4 DEF ListInv, PlaysListed, InHand, Runs
<1>11. OnePlayAtATime'
  <2>1. ASSUME NEW f \in Engines, f # e, Runs(f, "Play"), j.type = "Play"
        PROVE  currentJob[f] \in cancelled
    <3>1. currentJob[f] \in running \cup cancelled
      BY <2>1 DEF ListInv, PlaysListed, InHand
    <3>2. currentJob[f].type = "Play"
      BY <2>1 DEF Runs
    <3> QED BY <1>1, <2>1, <3>1, <3>2 DEF NoConflict
  <2> QED BY <1>1, <1>4, <2>1 DEF ListInv, OnePlayAtATime, Runs
<1> QED BY <1>6, <1>7, <1>8, <1>9, <1>10, <1>11 DEF ListInv

\* It looks at another job, or gives up one that nobody has taken.
LEMMA ListLooks ==
    ASSUME TypeInv, ListInv, UNCHANGED HeldVars, UNCHANGED callVars, running \subseteq running',
           NEW to \in Labels, Goto("sched", to), queued' \subseteq queued,
           \/ pc["sched"] \notin {"dequeue", "enqueue"}
           \/ pc["sched"] = "enqueue" /\ jobID \in running'
    PROVE  ListInv'
<1>1. pc'["caller"] = pc["caller"] /\ pc'["canceller"] = pc["canceller"]
  BY DEF Goto, TypeInv, PcType, Actors
<1>2. \A i : Known(i) <=> Known(i)'
  BY <1>1 DEF Known, callVars
<1>3. MgrBusy' /\ HeldKnown' /\ OnePlayAtATime'
  BY <1>2, HeldSame DEF callVars
<1>4. CancelKnown' /\ QueuedKnown'
  BY <1>1, <1>2 DEF ListInv, CancelKnown, QueuedKnown, callVars
<1>5. HeldLeaves'
  BY HeldSame DEF ListInv, HeldLeaves, Leaving
<1>6. PlaysListed'
  BY HeldSame DEF ListInv, PlaysListed, InHand, callVars
<1> QED BY <1>3, <1>4, <1>5, <1>6 DEF ListInv

LEMMA ListScheduler == ASSUME TypeInv, ListInv, Scheduler PROVE ListInv'
<1> USE DEF HeldVars, listVars, jobVars, engineVars, schedVars
<1>1. ASSUME UNCHANGED SchedRest, NEW from \in {"plays", "parses", "refresh"}, At("sched", from),
             \/ \E to \in Labels : Passed(to)
             \/ \E j : GivenUp(j)
             \/ \E e \in Engines : jobID' \in Jobs /\ Taken(jobID', e)
      PROVE  ListInv'
  <2>1. UNCHANGED callVars /\ pc["sched"] \notin {"dequeue", "enqueue"} /\ running' = running
    BY <1>1 DEF SchedRest, At
  <2>2. CASE \E to \in Labels : Passed(to)
    <3>1. PICK to \in Labels : Passed(to)
      BY <2>2
    <3>2. /\ Goto("sched", to)
          /\ UNCHANGED <<queued, engineID, mgrRunning, currentJob, thread>>
      BY <3>1, Zenon DEF Passed
    <3> QED BY <2>1, <3>2, ListLooks
  <2>3. CASE \E j : GivenUp(j)
    <3>1. /\ Goto("sched", "plays") /\ queued' \subseteq queued
          /\ UNCHANGED <<engineID, mgrRunning, currentJob, thread>>
      BY <2>3 DEF GivenUp
    <3> QED BY <2>1, <3>1, ListLooks DEF Labels
  <2>4. CASE \E e \in Engines : jobID' \in Jobs /\ Taken(jobID', e)
    <3>1. PICK e \in Engines : jobID' \in Jobs /\ Taken(jobID', e)
      BY <2>4
    <3>2. PICK j \in Jobs : jobID' = j
      BY <3>1
    <3>3. Taken(j, e) /\ ~InHand(j)
      BY <2>1, <3>1, <3>2 DEF InHand
    <3> QED BY <2>1, <3>2, <3>3, ListTaken
  <2> QED BY <1>1, <2>2, <2>3, <2>4
<1>2. CASE PlayNext
  BY <1>1, <1>2, PlayNextCases DEF Labels
<1>3. CASE ParseNext
  BY <1>1, <1>3, ParseNextCases DEF Labels
<1>4. CASE PlayRefresh
  BY <1>1, <1>4, PlayRefreshCases DEF Labels
<1>5. CASE Scan
  <2>1. /\ Goto("sched", "plays") \/ Goto("sched", "rest")
        /\ UNCHANGED <<listVars, jobVars, engineVars, callVars, thread>>
    BY <1>5, Zenon DEF Scan, Move
  <2>2. pc["sched"] = "scan"
    BY <1>5 DEF Scan, Move, At
  <2> QED BY <2>1, <2>2, ListLooks DEF Labels
<1>6. CASE LeaveQueue
  <2>1. /\ Goto("sched", "enqueue") /\ queued' = queued \ {jobID} /\ pc["sched"] = "dequeue"
        /\ UNCHANGED <<running, done, jobVars, engineVars, schedVars, callVars, thread>>
    BY <1>6, Zenon DEF LeaveQueue, Move, At
  <2>2. /\ pc'["sched"] = "enqueue" /\ pc'["caller"] = pc["caller"]
        /\ pc'["canceller"] = pc["canceller"]
    BY <2>1 DEF Goto, TypeInv, PcType, Actors
  <2>3. \A i : Known(i) <=> Known(i)'
    BY <2>1, <2>2 DEF Known, callVars
  <2>4. MgrBusy' /\ HeldKnown' /\ OnePlayAtATime'
    BY <2>1, <2>3, HeldSame DEF callVars
  <2>5. CancelKnown' /\ QueuedKnown'
    BY <2>1, <2>2, <2>3 DEF ListInv, CancelKnown, QueuedKnown, callVars
  <2>6. HeldLeaves'
    BY <2>1, HeldSame DEF ListInv, HeldLeaves, Leaving
  <2>7. PlaysListed'
    BY <2>1, <2>2, HeldSame DEF ListInv, PlaysListed, InHand, callVars
  <2> QED BY <2>4, <2>5, <2>6, <2>7 DEF ListInv
<1>7. CASE EnterRunning
  <2>1. /\ Goto("sched", "plays") \/ Goto("sched", "parses")
        /\ running' = running \cup {jobID} /\ pc["sched"] = "enqueue"
        /\ UNCHANGED <<queued, engineID, engineVars, schedVars, callVars, thread>>
    BY <1>7, Zenon DEF EnterRunning, Move, At
  <2> QED BY <2>1, ListLooks DEF Labels
<1>8. CASE Rest
  <2>1. /\ \E to \in {"blocked", "scan", "timed"} : Goto("sched", to)
        /\ At("sched", "rest") /\ UNCHANGED <<listVars, jobVars, engineVars, callVars, thread>>
    BY <1>8 DEF Rest, Move
  <2> QED BY <2>1, ListLooks DEF Labels, At
<1>9. CASE Lock \/ Wake \/ Timed
  <2>1. /\ UNCHANGED <<listVars, jobVars, engineVars, schedVars, callVars, thread>>
        /\ \/ UNCHANGED pc
           \/ Goto("sched", "scan") /\ pc["sched"] \in {"lock", "blocked", "timed"}
    BY <1>9, Zenon DEF Lock, Wake, Timed, Move, At
  <2>2. CASE Goto("sched", "scan") /\ pc["sched"] \in {"lock", "blocked", "timed"}
    BY <2>1, <2>2, ListLooks DEF Labels
  <2>3. CASE UNCHANGED pc
    BY <2>1, <2>3 DEF ListInv, MgrBusy, CancelKnown, QueuedKnown, HeldKnown, HeldLeaves,
       PlaysListed, OnePlayAtATime, Busy, Runs, Known, InHand, Leaving, callVars
  <2> QED BY <2>1, <2>2, <2>3
<1> QED BY <1>2, <1>3, <1>4, <1>5, <1>6, <1>7, <1>8, <1>9 DEF Scheduler

\* A job thread goes on with the job it has.
LEMMA ListHolds ==
    ASSUME TypeInv, ListInv,
           UNCHANGED <<currentJob, mgrRunning, engineID, queued, callVars, jobID, pc>>,
           NEW e \in Engines, NEW to \in Places, to # "idle", Busy(e),
           to \in {"start", "work", "judge"} => thread[e] \in {"start", "work", "judge"},
           thread' = [thread EXCEPT ![e] = to],
           \A f \in Engines : Runs(f, "Play") /\ currentJob[f] \in running /\ f # e
                                 => currentJob[f] \in running',
           running' = running \/ to = "clear"
    PROVE  ListInv'
<1>1. \A f \in Engines : /\ Busy(f)' <=> Busy(f)
                         /\ Runs(f, "Play")' => Runs(f, "Play")
                         /\ f # e => thread'[f] = thread[f]
                         /\ f = e => thread'[f] = to
  BY DEF Busy, Runs, TypeInv, ThreadType
<1>2. \A j : /\ Known(j) <=> Known(j)'
             /\ InHand(j) <=> InHand(j)'
             /\ Leaving(j) <=> Leaving(j)'
  BY DEF Known, InHand, Leaving, callVars
<1>3. MgrBusy' /\ HeldKnown' /\ HeldLeaves'
  BY <1>1, <1>2 DEF ListInv, MgrBusy, HeldKnown, HeldLeaves
<1>4. CancelKnown' /\ QueuedKnown'
  BY <1>2 DEF ListInv, CancelKnown, QueuedKnown, callVars
<1>5. PlaysListed'
  <2> SUFFICES ASSUME NEW f \in Engines, Runs(f, "Play")'
               PROVE  currentJob'[f] \in running' \cup cancelled' \/ InHand(currentJob[f])
    BY <1>2 DEF PlaysListed
  <2>1. Runs(f, "Play")
    BY <1>1
  <2>2. currentJob[f] \in running \cup cancelled \/ InHand(currentJob[f])
    BY <2>1 DEF ListInv, PlaysListed
  <2>3. f = e => running' = running
    BY <1>1 DEF Runs
  <2> QED BY <2>1, <2>2, <2>3 DEF callVars
<1>6. OnePlayAtATime'
  BY <1>1 DEF ListInv, OnePlayAtATime, callVars
<1> QED BY <1>3, <1>4, <1>5, <1>6 DEF ListInv

LEMMA ListThreads == ASSUME TypeInv, ListInv, NEW e \in Engines, JobThread(e) PROVE ListInv'
<1> USE DEF listVars, jobVars, engineVars, schedVars
<1>1. CASE Begin(e) \/ End(e) \/ Judge(e)
  <2>1. /\ UNCHANGED <<currentJob, mgrRunning, engineID, queued, running, callVars, jobID, pc>>
        /\ thread[e] \in {"start", "work", "judge"}
        /\ \E to \in {"work", "judge", "canceled", "complete"} :
              thread' = [thread EXCEPT ![e] = to]
    BY <1>1 DEF Begin, End, Judge, Step
  <2> QED BY <2>1, ListHolds DEF Places, Busy
<1>2. CASE Report(e)
  <2>1. /\ thread' = [thread EXCEPT ![e] = "clear"] /\ thread[e] \in {"complete", "canceled"}
        /\ UNCHANGED <<queued, engineID, engineVars, schedVars, callVars, pc>>
        /\ running' \in {running, running \ {currentJob[e]}}
    BY <1>2 DEF Report
  <2>2. Busy(e)
    BY <2>1 DEF Busy
  <2>3. \A f \in Engines : Runs(f, "Play") /\ currentJob[f] \in running /\ f # e
                              => currentJob[f] \in running'
    BY <2>1, <2>2, OneEngine, RunsBusy
  <2> QED BY <2>1, <2>2, <2>3, ListHolds DEF Places
<1>3. CASE Clear(e)
  <2>1. /\ thread' = [thread EXCEPT ![e] = "idle"]
        /\ mgrRunning' = [mgrRunning EXCEPT ![e] = FALSE]
        /\ UNCHANGED <<currentJob, engineID, queued, running, callVars, jobID, pc>>
    BY <1>3, Zenon DEF Clear, Step
  <2>2. \A f \in Engines : /\ Busy(f)' <=> Busy(f) /\ f # e
                           /\ Runs(f, "Play")' <=> Runs(f, "Play") /\ f # e
                           /\ mgrRunning'[f] <=> mgrRunning[f] /\ f # e
    BY <2>1 DEF Busy, Runs, TypeInv, ThreadType, MgrType
  <2>3. \A j : /\ Known(j) <=> Known(j)'
               /\ InHand(j) <=> InHand(j)'
               /\ Leaving(j) <=> Leaving(j)'
    BY <2>1 DEF Known, InHand, Leaving, callVars
  <2>4. MgrBusy' /\ HeldKnown' /\ HeldLeaves'
    BY <2>1, <2>2, <2>3 DEF ListInv, MgrBusy, HeldKnown, HeldLeaves
  <2>5. CancelKnown' /\ QueuedKnown'
    BY <2>1, <2>3 DEF ListInv, CancelKnown, QueuedKnown, callVars
  <2>6. PlaysListed' /\ OnePlayAtATime'
    BY <2>1, <2>2, <2>3 DEF ListInv, PlaysListed, OnePlayAtATime, callVars
  <2> QED BY <2>4, <2>5, <2>6 DEF ListInv
<1> QED BY <1>1, <1>2, <1>3 DEF JobThread

LEMMA ListStep == TypeInv /\ ListInv /\ [Next]_vars => ListInv'
<1>1. TypeInv /\ ListInv /\ Next => ListInv'
  BY ListCallers, ListCancellers, ListScheduler, ListThreads DEF Next
<1>2. TypeInv /\ ListInv /\ UNCHANGED vars => ListInv'
  BY DEF ListInv, MgrBusy, CancelKnown, QueuedKnown, HeldKnown, HeldLeaves, PlaysListed,
     OnePlayAtATime, Busy, Runs, Known, InHand, Leaving, vars, listVars, jobVars, engineVars,
     schedVars, callVars
<1> QED BY <1>1, <1>2

LEMMA ListAlways == Spec => [](TypeInv /\ ListInv)
<1>1. Init => ListInv
  BY ListInit
<1>2. TypeInv /\ ListInv /\ [Next]_vars => ListInv'
  BY ListStep
<1> QED BY <1>1, <1>2, TypeInvAlways, PTL DEF Spec

\* For any number of engines, jobs and cancellations: two plays that nobody cancelled never
\* run at once, though the conflict policy is asked before the job is in the running list.
THEOREM PlaysAlone == Spec => []OnePlayAtATime
<1>1. ListInv => OnePlayAtATime
  BY DEF ListInv
<1> QED BY <1>1, ListAlways, PTL

-----------------------------------------------------------------------------
(* What an engine holds: the parse of the play it was given, from the assignment until its  *)
(* thread begins.  A parse that an engine holds is one it was given, so that the job knows  *)
(* its engine, and an engine that plays has a job.                                          *)

PlayReady   == \A e \in Engines : thread[e] = "start" /\ currentJob[e].type = "Play"
                  => state[e] = "Parsed" /\ lastParse[e] = ParseOf(currentJob[e]).n
PlayingBusy == \A e \in Engines : state[e] = "Playing" => thread[e] = "work"
ParsedHere  == \A e \in Engines : \A p \in ParseJobs : p.n = lastParse[e]
                  => engineID[p] = e /\ Known(p) /\ (p \in queued => Leaving(p))

EngineInv == PlayReady /\ PlayingBusy /\ ParsedHere

LEMMA EngineInit == Init => EngineInv
BY DEF Init, EngineInv, PlayReady, PlayingBusy, ParsedHere, ParseJobs

\* The parses stay where they are, unless one that no engine has taken is taken.
KeepsParses ==
    /\ UNCHANGED lastParse
    /\ \A j \in Jobs : /\ Known(j) => Known(j)' /\ (j \in queued' => j \in queued)
                       /\ j \in queued' /\ Leaving(j) => Leaving(j)'
                       /\ engineID'[j] = engineID[j] \/ (j \in queued /\ ~Leaving(j))

LEMMA ParsedStays == ASSUME TypeInv, EngineInv, KeepsParses PROVE ParsedHere'
BY DEF EngineInv, ParsedHere, Jobs, KeepsParses

\* The engines stay as they are, and a play keeps its parse once it is submitted.
LEMMA EngineStays ==
    ASSUME TypeInv, ListInv, EngineInv, UNCHANGED <<state, lastParse, thread, currentJob>>,
           \A j \in Jobs : j.type = "Play" /\ Known(j) => playPid'[j.n] = playPid[j.n]
    PROVE  PlayReady' /\ PlayingBusy'
<1>1. PlayingBusy'
  BY DEF EngineInv, PlayingBusy
<1>2. PlayReady'
  <2> SUFFICES ASSUME NEW e \in Engines, thread'[e] = "start", currentJob'[e].type = "Play"
               PROVE  (state[e] = "Parsed" /\ lastParse[e] = ParseOf(currentJob[e]).n)'
    BY DEF PlayReady
  <2>1. currentJob[e] \in Jobs /\ Known(currentJob[e])
    BY DEF ListInv, HeldKnown, Busy
  <2>2. state[e] = "Parsed" /\ lastParse[e] = ParseOf(currentJob[e]).n
    BY DEF EngineInv, PlayReady
  <2>3. ParseOf(currentJob[e])' = ParseOf(currentJob[e])
    BY <2>1 DEF ParseOf
  <2> QED BY <2>2, <2>3
<1> QED BY <1>1, <1>2

LEMMA EngineCallers ==
    ASSUME TypeInv, ListInv, EngineInv, Parse \/ PlayLookup \/ PlayAdd
    PROVE  EngineInv'
<1> USE DEF listVars, engineVars, schedVars, callVars
<1>1. CASE Parse
  <2>1. PICK n : n = submitted["Parse"] + 1
    OBVIOUS
  <2>2. /\ queued' = queued \cup {[type |-> "Parse", n |-> n]}
        /\ submitted' = [submitted EXCEPT !["Parse"] = @ + 1]
        /\ UNCHANGED <<engineID, playPid, engineVars, schedVars, thread, pc>>
    BY <1>1, <2>1, Zenon DEF Parse, AddJob
  <2>3. \A i \in Jobs : Known(i) => Known(i)' /\ (i \in queued' => i \in queued)
    BY <2>1, <2>2, JobFacts DEF Known, TypeInv, CallType, Types
  <2>4. \A j : Leaving(j) <=> Leaving(j)'
    BY <2>2 DEF Leaving
  <2>5. KeepsParses
    BY <2>2, <2>3, <2>4 DEF KeepsParses
  <2>6. PlayReady' /\ PlayingBusy'
    BY <2>2, EngineStays
  <2> QED BY <2>5, <2>6, ParsedStays DEF EngineInv
<1>2. CASE PlayLookup
  <2>1. /\ Goto("caller", "add") /\ submitted' = [submitted EXCEPT !["Play"] = @ + 1]
        /\ \E p : playPid' = [playPid EXCEPT ![submitted["Play"] + 1] = p]
        /\ UNCHANGED <<queued, engineID, engineVars, schedVars, thread>> /\ At("caller", "idle")
    BY <1>2 DEF PlayLookup, Move
  <2>2. pc'["sched"] = pc["sched"] /\ pc'["caller"] = "add" /\ pc["caller"] = "idle"
    BY <2>1 DEF Goto, At, TypeInv, PcType, Actors
  <2>3. \A i \in Jobs : /\ Known(i) => Known(i)'
                        /\ i.type = "Play" /\ Known(i) => playPid'[i.n] = playPid[i.n]
    BY <2>1, <2>2, JobFacts DEF Known, TypeInv, CallType, PidType, Types
  <2>4. \A j : Leaving(j) <=> Leaving(j)'
    BY <2>1, <2>2 DEF Leaving
  <2>5. KeepsParses
    BY <2>1, <2>3, <2>4 DEF KeepsParses
  <2>6. PlayReady' /\ PlayingBusy'
    BY <2>1, <2>3, EngineStays
  <2> QED BY <2>5, <2>6, ParsedStays DEF EngineInv
<1>3. CASE PlayAdd
  <2>1. PICK n : n = submitted["Play"]
    OBVIOUS
  <2>2. /\ Goto("caller", "idle") /\ At("caller", "add")
        /\ queued' = queued \cup {[type |-> "Play", n |-> n]}
        /\ UNCHANGED <<engineID, playPid, engineVars, schedVars, callVars, thread>>
    BY <1>3, <2>1, Zenon DEF PlayAdd, Move, AddJob
  <2>3. pc'["sched"] = pc["sched"] /\ pc'["caller"] = "idle" /\ pc["caller"] = "add"
    BY <2>2 DEF Goto, At, TypeInv, PcType, Actors
  <2>4. \A i \in Jobs : Known(i) => Known(i)' /\ (i \in queued' => i \in queued)
    BY <2>1, <2>2, <2>3, JobFacts DEF Known, TypeInv, CallType, Types
  <2>5. \A j : Leaving(j) <=> Leaving(j)'
    BY <2>2, <2>3 DEF Leaving
  <2>6. KeepsParses
    BY <2>2, <2>4, <2>5 DEF KeepsParses
  <2>7. PlayReady' /\ PlayingBusy'
    BY <2>2, EngineStays
  <2> QED BY <2>6, <2>7, ParsedStays DEF EngineInv
<1> QED BY <1>1, <1>2, <1>3

\* Cancelling stops a play, but its engine keeps the parse.
LEMMA EngineCancellers ==
    ASSUME TypeInv, ListInv, EngineInv, Cancel \/ Canceller
    PROVE  EngineInv'
<1> USE DEF listVars, jobVars, engineVars, schedVars
<1>1. /\ UNCHANGED <<engineID, playPid, lastParse, currentJob, thread, jobID, submitted>>
      /\ queued' \subseteq queued
      /\ \E to \in Labels : Goto("canceller", to)
  BY DEF Cancel, Canceller, CancelAbort, CancelRunning, CancelQueued, Move, Labels, callVars
<1>2. pc'["sched"] = pc["sched"] /\ pc'["caller"] = pc["caller"]
  BY <1>1 DEF Goto, TypeInv, PcType, Actors
<1>3. \A j : (Leaving(j) <=> Leaving(j)') /\ (Known(j) <=> Known(j)')
  BY <1>1, <1>2 DEF Leaving, Known
<1>4. ParsedHere'
  BY <1>1, <1>3, ParsedStays DEF KeepsParses
<1>5. state' = state \/ \E e : state' = [state EXCEPT ![e] = Stopped(@)]
  BY DEF Cancel, Canceller, CancelAbort, CancelRunning, CancelQueued
<1>6. CASE state' = state
  BY <1>1, <1>4, <1>6, EngineStays DEF EngineInv
<1>7. CASE \E e : state' = [state EXCEPT ![e] = Stopped(@)]
  <2>1. \A f \in Engines : /\ state'[f] = "Playing" => state[f] = "Playing"
                           /\ state[f] = "Parsed" => state'[f] = "Parsed"
    BY <1>7 DEF Stopped, TypeInv, StateType, States
  <2>2. PlayReady'
    BY <1>1, <2>1 DEF EngineInv, PlayReady, ParseOf
  <2>3. PlayingBusy'
    BY <1>1, <2>1 DEF EngineInv, PlayingBusy
  <2> QED BY <1>4, <2>2, <2>3 DEF EngineInv
<1> QED BY <1>5, <1>6, <1>7

LEMMA EngineTaken ==
    ASSUME TypeInv, ListInv, EngineInv, NEW j \in Jobs, NEW e \in Engines, Taken(j, e),
           UNCHANGED SchedRest, pc["sched"] # "dequeue"
    PROVE  EngineInv'
<1>1. /\ ~mgrRunning[e] /\ j \in queued /\ queued' = queued
      /\ IsParsed(e, ParseOf(j).n) <=> j.type = "Play"
      /\ engineID' = [engineID EXCEPT ![j] = e]
      /\ currentJob' = [currentJob EXCEPT ![e] = j]
      /\ thread' = [thread EXCEPT ![e] = "start"] /\ Goto("sched", "dequeue")
  BY Zenon DEF Taken
<1>2. UNCHANGED <<playPid, state, lastParse, submitted>> /\ pc'["caller"] = pc["caller"]
  BY <1>1 DEF SchedRest, callVars, Goto, TypeInv, PcType, Actors
<1>3. thread[e] = "idle"
  BY <1>1 DEF ListInv, MgrBusy, Busy
<1>4. ParsedHere'
  <2>1. \A i : ~Leaving(i) /\ (Known(i) <=> Known(i)')
    BY <1>2 DEF Leaving, Known
  <2>2. \A i \in Jobs : engineID'[i] = engineID[i] \/ i \in queued
    BY <1>1 DEF TypeInv, OnType
  <2> QED BY <1>1, <1>2, <2>1, <2>2, ParsedStays DEF KeepsParses
<1>5. PlayingBusy'
  BY <1>1, <1>2, <1>3 DEF EngineInv, PlayingBusy, TypeInv, ThreadType
<1>6. PlayReady'
  BY <1>1, <1>2 DEF EngineInv, PlayReady, IsParsed, ParseOf, TypeInv, ThreadType, MgrType
<1> QED BY <1>4, <1>5, <1>6 DEF EngineInv

\* The scheduler takes no parse from an engine.
LEMMA EngineLooks ==
    ASSUME TypeInv, ListInv, EngineInv,
           UNCHANGED <<engineVars, engineID, playPid, thread, callVars>>,
           pc'["caller"] = pc["caller"], queued' \subseteq queued,
           \A j \in queued' : Leaving(j) => Leaving(j)'
    PROVE  EngineInv'
<1>1. \A j : Known(j) <=> Known(j)'
  BY DEF Known, callVars
<1>2. PlayReady' /\ PlayingBusy'
  <2>1. UNCHANGED <<state, lastParse, thread, currentJob, playPid>>
    BY DEF engineVars
  <2> QED BY <2>1, EngineStays
<1>3. ParsedHere'
  <2>1. KeepsParses
    BY <1>1 DEF engineVars, KeepsParses
  <2> QED BY <2>1, ParsedStays
<1> QED BY <1>2, <1>3 DEF EngineInv

LEMMA EngineScheduler ==
    ASSUME TypeInv, ListInv, EngineInv, Scheduler
    PROVE  EngineInv'
<1> USE DEF listVars, jobVars, engineVars, schedVars
<1>1. ASSUME UNCHANGED SchedRest, NEW from \in {"plays", "parses", "refresh"}, At("sched", from),
             \/ \E to \in Labels : Passed(to)
             \/ \E j : GivenUp(j)
             \/ \E e \in Engines : jobID' \in Jobs /\ Taken(jobID', e)
      PROVE  EngineInv'
  <2>1. /\ UNCHANGED <<callVars, playPid, state, lastParse, aborted>>
        /\ pc["sched"] # "dequeue" /\ \A j : ~Leaving(j)
    BY <1>1 DEF SchedRest, At, Leaving
  <2>2. CASE \E to \in Labels : Passed(to)
    <3>1. PICK to \in Labels : Passed(to)
      BY <2>2
    <3>2. /\ Goto("sched", to)
          /\ UNCHANGED <<queued, engineID, mgrRunning, currentJob, thread>>
      BY <3>1, Zenon DEF Passed
    <3>3. pc'["caller"] = pc["caller"]
      BY <3>2 DEF Goto, TypeInv, PcType, Actors
    <3> QED BY <2>1, <3>2, <3>3, EngineLooks
  <2>3. CASE \E j : GivenUp(j)
    <3>1. /\ Goto("sched", "plays") /\ queued' \subseteq queued
          /\ UNCHANGED <<engineID, mgrRunning, currentJob, thread>>
      BY <2>3 DEF GivenUp
    <3>2. pc'["caller"] = pc["caller"]
      BY <3>1 DEF Goto, TypeInv, PcType, Actors
    <3> QED BY <2>1, <3>1, <3>2, EngineLooks
  <2>4. CASE \E e \in Engines : jobID' \in Jobs /\ Taken(jobID', e)
    <3>1. PICK e \in Engines, j \in Jobs : Taken(j, e)
      BY <2>4
    <3> QED BY <1>1, <2>1, <3>1, EngineTaken
  <2> QED BY <1>1, <2>2, <2>3, <2>4
<1>2. CASE PlayNext
  BY <1>1, <1>2, PlayNextCases DEF Labels
<1>3. CASE ParseNext
  BY <1>1, <1>3, ParseNextCases DEF Labels
<1>4. CASE PlayRefresh
  BY <1>1, <1>4, PlayRefreshCases DEF Labels
<1>5. CASE LeaveQueue
  <2>1. /\ Goto("sched", "enqueue") /\ queued' = queued \ {jobID}
        /\ UNCHANGED <<engineID, playPid, engineVars, schedVars, callVars, thread>>
    BY <1>5, Zenon DEF LeaveQueue, Move
  <2>2. pc'["caller"] = pc["caller"] /\ \A j \in queued' : ~Leaving(j)
    BY <2>1 DEF Goto, TypeInv, PcType, Actors, Leaving
  <2> QED BY <2>1, <2>2, EngineLooks
<1>6. CASE Scan \/ EnterRunning \/ Rest \/ Lock \/ Wake \/ Timed
  <2>1. /\ UNCHANGED <<queued, engineID, playPid, engineVars, callVars, thread>>
        /\ pc["sched"] # "dequeue"
        /\ UNCHANGED pc \/ \E to : Goto("sched", to)
    BY <1>6 DEF Scan, EnterRunning, Rest, Lock, Wake, Timed, Move, At
  <2>2. pc'["caller"] = pc["caller"] /\ \A j : ~Leaving(j)
    BY <2>1 DEF Goto, TypeInv, PcType, Actors, Leaving
  <2> QED BY <2>1, <2>2, EngineLooks
<1> QED BY <1>2, <1>3, <1>4, <1>5, <1>6 DEF Scheduler

\* An engine begins a play that finds its parse, and ends with no job.
LEMMA BeginsPlay ==
    ASSUME TypeInv, EngineInv, NEW e \in Engines, Begin(e), currentJob[e].type = "Play"
    PROVE  /\ state' = [state EXCEPT ![e] = "Playing"] /\ UNCHANGED lastParse
           /\ lastParse[e] = ParseOf(currentJob[e]).n
<1>1. thread[e] = "start"
  BY DEF Begin, Step
<1>2. state[e] = "Parsed" /\ lastParse[e] = ParseOf(currentJob[e]).n
  BY <1>1 DEF EngineInv, PlayReady
<1> QED BY <1>2 DEF Begin

LEMMA EngineThreads ==
    ASSUME TypeInv, ListInv, EngineInv, NEW e \in Engines, JobThread(e)
    PROVE  EngineInv'
<1> USE DEF listVars, jobVars, engineVars, schedVars
<1>1. /\ UNCHANGED <<engineID, playPid, currentJob, queued, jobID, callVars, pc>>
      /\ \E to \in Places \ {"start"} : thread' = [thread EXCEPT ![e] = to]
  BY DEF JobThread, Begin, End, Judge, Report, Clear, Step, Places
<1>2. \A j : (Leaving(j) <=> Leaving(j)') /\ (Known(j) <=> Known(j)')
  BY <1>1 DEF Leaving, Known, callVars
<1>3. thread'[e] # "start" /\ \A f \in Engines \ {e} : thread'[f] = thread[f]
  BY <1>1 DEF TypeInv, ThreadType
<1>4. ASSUME UNCHANGED <<state, lastParse>>, thread[e] # "work" PROVE EngineInv'
  <2>1. ParsedHere'
    BY <1>1, <1>2, <1>4, ParsedStays DEF KeepsParses
  <2>2. PlayReady' /\ PlayingBusy'
    BY <1>1, <1>3, <1>4 DEF EngineInv, PlayReady, PlayingBusy, ParseOf
  <2> QED BY <2>1, <2>2 DEF EngineInv
<1>5. CASE Judge(e) \/ Report(e) \/ Clear(e)
  BY <1>4, <1>5 DEF Judge, Report, Clear, Step
<1>6. CASE End(e)
  <2>1. /\ UNCHANGED lastParse
        /\ \E s \in {"Parsed", "Error"} : state' = [state EXCEPT ![e] = s]
    BY <1>6 DEF End
  <2>2. ParsedHere'
    BY <1>1, <1>2, <2>1, ParsedStays DEF KeepsParses
  <2>3. PlayReady' /\ PlayingBusy'
    BY <1>1, <1>3, <2>1 DEF EngineInv, PlayReady, PlayingBusy, ParseOf, TypeInv, StateType
  <2> QED BY <2>2, <2>3 DEF EngineInv
<1>7. CASE Begin(e)
  <2>1. thread[e] = "start" /\ thread' = [thread EXCEPT ![e] = "work"]
    BY <1>7 DEF Begin, Step
  <2>2. currentJob[e] \in Jobs /\ Known(currentJob[e]) /\ engineID[currentJob[e]] = e
        /\ (currentJob[e] \in queued => Leaving(currentJob[e]))
    BY <2>1 DEF ListInv, HeldKnown, HeldLeaves, Busy
  <2>3. CASE currentJob[e].type = "Play"
    <3>1. state' = [state EXCEPT ![e] = "Playing"] /\ UNCHANGED lastParse
      BY <1>7, <2>3, BeginsPlay
    <3>2. ParsedHere'
      BY <1>1, <1>2, <3>1, ParsedStays DEF KeepsParses
    <3>3. PlayReady' /\ PlayingBusy'
      BY <1>1, <1>3, <2>1, <3>1
      DEF EngineInv, PlayReady, PlayingBusy, ParseOf, TypeInv, StateType, ThreadType
    <3> QED BY <3>2, <3>3 DEF EngineInv
  <2>4. CASE currentJob[e].type = "Parse"
    <3>1. /\ state' = [state EXCEPT ![e] = "Parsing"]
          /\ lastParse' = [lastParse EXCEPT ![e] = currentJob[e].n]
      BY <1>7, <2>4 DEF Begin
    <3>2. PlayReady' /\ PlayingBusy'
      BY <1>1, <1>3, <3>1
      DEF EngineInv, PlayReady, PlayingBusy, ParseOf, TypeInv, StateType
    <3>3. ParsedHere'
      <4> SUFFICES ASSUME NEW f \in Engines, NEW p \in ParseJobs, p.n = lastParse'[f]
                   PROVE  engineID[p] = f /\ Known(p) /\ (p \in queued => Leaving(p))
        BY <1>1, <1>2 DEF ParsedHere
      <4>1. CASE f = e
        <5>1. p = currentJob[e]
          <6>1. p \in Jobs /\ p.type = "Parse" /\ p.n = currentJob[e].n
            BY <3>1, <4>1 DEF Jobs, ParseJobs, TypeInv, StateType
          <6> QED BY <2>2, <2>4, <6>1, JobFacts
        <5> QED BY <2>2, <4>1, <5>1
      <4>2. CASE f # e
        BY <3>1, <4>2 DEF EngineInv, ParsedHere, TypeInv, StateType
      <4> QED BY <4>1, <4>2
    <3> QED BY <3>2, <3>3 DEF EngineInv
  <2> QED BY <2>2, <2>3, <2>4, JobFacts DEF Types
<1> QED BY <1>5, <1>6, <1>7 DEF JobThread

LEMMA EngineStep == TypeInv /\ ListInv /\ EngineInv /\ [Next]_vars => EngineInv'
<1>1. TypeInv /\ ListInv /\ EngineInv /\ Next => EngineInv'
  BY EngineCallers, EngineCancellers, EngineScheduler, EngineThreads DEF Next
<1>2. TypeInv /\ ListInv /\ EngineInv /\ UNCHANGED vars => EngineInv'
  BY DEF EngineInv, PlayReady, PlayingBusy, ParsedHere, ParseOf, Known, Leaving, vars, listVars,
     jobVars, engineVars, schedVars, callVars
<1> QED BY <1>1, <1>2

SchedInv == TypeInv /\ ListInv /\ EngineInv

LEMMA SchedAlways == Spec => []SchedInv
<1>1. Init => EngineInv
  BY EngineInit
<1>2. TypeInv /\ ListInv /\ EngineInv /\ [Next]_vars => EngineInv'
  BY EngineStep
<1> QED BY <1>1, <1>2, ListAlways, PTL DEF Spec, SchedInv

\* Only the job thread of an engine takes its job up.
LEMMA OnlyBegin ==
    ASSUME TypeInv, [Next]_vars, NEW e \in Engines, thread[e] = "start", thread'[e] = "work"
    PROVE  Begin(e)
<1>1. CASE \E f \in Engines : JobThread(f)
  <2>1. PICK f \in Engines : JobThread(f)
    BY <1>1
  <2>2. \E to : thread' = [thread EXCEPT ![f] = to]
    BY <2>1 DEF JobThread, Begin, End, Judge, Report, Clear, Step
  <2>3. f = e
    BY <2>2 DEF TypeInv, ThreadType
  <2> QED BY <2>1, <2>3 DEF JobThread, End, Judge, Report, Clear, Step, TypeInv, ThreadType
<1>2. CASE Scheduler
  <2>1. thread' = thread \/ \E f \in Engines : thread' = [thread EXCEPT ![f] = "start"]
    <3>1. CASE PlayNext
      BY <3>1, PlayNextCases DEF Passed, GivenUp, Taken
    <3>2. CASE ParseNext
      BY <3>2, ParseNextCases DEF Passed, Taken
    <3>3. CASE PlayRefresh
      BY <3>3, PlayRefreshCases DEF Passed, GivenUp, Taken
    <3> QED BY <1>2, <3>1, <3>2, <3>3
            DEF Scheduler, Lock, Scan, LeaveQueue, EnterRunning, Rest, Wake, Timed, Move
  <2> QED BY <2>1 DEF TypeInv, ThreadType
<1>3. CASE Parse \/ PlayLookup \/ PlayAdd \/ Cancel \/ Canceller
  BY <1>3 DEF Parse, PlayLookup, PlayAdd, Cancel, Canceller, CancelAbort, CancelRunning,
     CancelQueued, Move
<1>4. CASE UNCHANGED vars
  BY <1>4 DEF vars
<1> QED BY <1>1, <1>2, <1>3, <1>4 DEF Next

\* For any number of engines and jobs: an engine that was given a play has not lost its parse
\* when the thread of the job takes it up, so that play() finds what it is to play.
THEOREM PlayFindsItsParse == Spec => PlaysWhatWasParsed
<1>1. SchedInv /\ [Next]_vars
         => [\A e \in Engines :
                thread[e] = "start" /\ thread'[e] = "work" /\ currentJob[e].type = "Play"
                    => state'[e] = "Playing" /\ lastParse[e] = ParseOf(currentJob[e]).n]_vars
  BY OnlyBegin, BeginsPlay DEF SchedInv, TypeInv, StateType
<1> QED BY <1>1, SchedAlways, PTL DEF Spec, PlaysWhatWasParsed

\* A play that the scheduler finds no engine for has lost its parse: whoever holds it would
\* be the engine the parse was run on, idle or busy.
LEMMA NobodyHolds ==
    ASSUME SchedInv, NEW p \in ParseJobs, InDone(p), ~EngineBusy(p), ~EngineHas(p),
           NEW e \in Engines, lastParse[e] = p.n
    PROVE  state[e] \notin {"Parsed", "Playing"}
<1>1. engineID[p] = e /\ e # NoEngine
  BY SizesAssumption DEF SchedInv, EngineInv, ParsedHere, Engines, NoEngine
<1>2. ~mgrRunning[e]
  BY <1>1 DEF EngineBusy
<1>3. state[e] # "Playing"
  BY <1>2 DEF SchedInv, ListInv, MgrBusy, Busy, EngineInv, PlayingBusy
<1>4. state[e] # "Parsed"
  BY <1>1, <1>2 DEF EngineHas, IsParsed
<1> QED BY <1>3, <1>4

\* What must have happened to the parse of a play that is given up.
Lost(j) == LET p == ParseOf(j) IN
    \/ status[p] = "Canceled" \/ ~InDone(p)
    \/ \A e \in Engines : lastParse[e] = p.n => state[e] \notin {"Parsed", "Playing"}

LEMMA GivesUpLost ==
    ASSUME SchedInv, Next, At("sched", "plays") \/ At("sched", "refresh"),
           NEW j \in (queued \ queued') \ cancelled
    PROVE  Lost(j)
<1>1. CASE PlayNext
  <2>1. InDone(ParseOf(j)) /\ status[ParseOf(j)] = "Canceled"
    <3> DEFINE plays == {i \in ids : i.type = "Play"}
               i     == First(plays)
    <3>1. InDone(ParseOf(i)) /\ status[ParseOf(i)] = "Canceled" /\ CancelPlay(i)
      BY <1>1 DEF PlayNext, AssignJob, Defer
    <3>2. queued' = queued \ {i}
      BY <3>1 DEF CancelPlay
    <3>3. i = j
      BY <3>2
    <3> QED BY <3>1, <3>3
  <2> QED BY <2>1 DEF Lost
<1>2. CASE PlayRefresh
  <2>1. CancelPlay(jobID) /\ ~EngineBusy(ParseOf(jobID)) /\ ~EngineHas(ParseOf(jobID))
    BY <1>2 DEF PlayRefresh, AssignJob, Defer
  <2>2. j = jobID
    BY <2>1 DEF CancelPlay
  <2>3. CASE ~InDone(ParseOf(j))
    BY <2>3 DEF Lost
  <2>4. CASE InDone(ParseOf(j))
    <3>1. ParseOf(j) \in Jobs /\ ParseOf(j).type = "Parse"
      <4>1. j \in Jobs
        BY DEF SchedInv, TypeInv, ListType
      <4>2. ParseOf(j).type = "Parse"
        BY <4>1, JobFacts DEF ParseOf, Types
      <4>3. \E i \in DOMAIN done["Parse"] : done["Parse"][i] = ParseOf(j)
        BY <2>4, <4>2 DEF InDone
      <4> QED BY <4>2, <4>3 DEF SchedInv, TypeInv, ListType, Types
    <3>2. PICK p \in ParseJobs : p = ParseOf(j)
      BY <3>1 DEF Jobs, ParseJobs, PlayJobs
    <3>3. \A e \in Engines : lastParse[e] = p.n => state[e] \notin {"Parsed", "Playing"}
      BY <2>1, <2>2, <2>4, <3>2, NobodyHolds
    <3> QED BY <3>2, <3>3 DEF Lost
  <2> QED BY <2>3, <2>4
<1>3. CASE Parse \/ PlayLookup \/ PlayAdd
  BY <1>3 DEF Parse, PlayLookup, PlayAdd, AddJob, listVars
<1>4. CASE Cancel \/ Canceller
  <2>1. queued' = queued \/ (queued' = queued \ {cancelID} /\ pc["canceller"] = "fromQueued")
    BY <1>4 DEF Cancel, Canceller, CancelAbort, CancelRunning, CancelQueued, Move, At, listVars
  <2> QED BY <2>1 DEF SchedInv, ListInv, CancelKnown
<1>5. CASE \E e \in Engines : JobThread(e)
  BY <1>5 DEF JobThread, Begin, End, Judge, Report, Clear, listVars
<1>6. CASE Scheduler /\ ~PlayNext /\ ~PlayRefresh
  BY <1>6 DEF Scheduler, Lock, Scan, LeaveQueue, EnterRunning, ParseNext, Rest, Wake, Timed, Move,
     At, listVars
<1> QED BY <1>1, <1>2, <1>3, <1>4, <1>5, <1>6 DEF Next

\* For any number of engines and jobs: the scheduler gives up only a play whose parse was
\* cancelled, dropped from the completed list, or has been overwritten in the engine.
THEOREM PlaysGivenUpAreLost == Spec => PlayNotLost
<1>1. SchedInv /\ [Next]_vars
         => [\A j \in (queued \ queued') \ cancelled :
                At("sched", "plays") \/ At("sched", "refresh")
                    => LET p == ParseOf(j) IN
                       \/ status[p] = "Canceled" \/ ~InDone(p)
                       \/ \A e \in Engines :
                             lastParse[e] = p.n => state[e] \notin {"Parsed", "Playing"}]_vars
  BY GivesUpLost DEF Lost
<1> QED BY <1>1, SchedAlways, PTL DEF Spec, PlayNotLost

-----------------------------------------------------------------------------
(* Where the jobs are.  A job nobody cancelled is in one list; only the scheduler, with the *)
(* mutex, holds one that is between two.  A completed list has no job twice, so that the    *)
(* one that is dropped from it is gone.                                                     *)

Locked   == pc["sched"] \notin {"lock", "blocked", "timed"} => mutex = "sched"
DoneOnce == \A ty \in Types : \A i, k \in DOMAIN done[ty] :
               done[ty][i].type = ty /\ (done[ty][i] = done[ty][k] => i = k)
Placed(j) ==
    /\ j \in queued => told[j] = "Queued" /\ j \notin running /\ ~InDone(j)
    /\ j \in running => told[j] = "Running" /\ ~InDone(j)
    /\ InDone(j) <=> told[j] = "Complete"
    /\ told[j] = "Queued" /\ j \notin queued => At("sched", "enqueue") /\ jobID = j
    /\ status[j] = "Archived" => told[j] = "Archive"
AllPlaced  == \A j \in Jobs \ cancelled : Placed(j)
HandQueued == /\ pc["sched"] = "dequeue" => jobID \in queued \cup cancelled
              /\ pc["sched"] = "enqueue" => \/ jobID \in cancelled
                                            \/ told[jobID] = "Queued" /\ jobID \notin queued
ToldKnown  == \A j \in Jobs \ cancelled : told[j] # "None" => Known(j)

MsgInv == Locked /\ DoneOnce /\ AllPlaced /\ HandQueued /\ ToldKnown

LEMMA MsgInit == Init => MsgInv
BY DEF Init, MsgInv, Locked, DoneOnce, AllPlaced, Placed, HandQueued, ToldKnown, InDone, Types,
       Jobs, ParseJobs, PlayJobs

\* What entering the completed list does to every job.
LEMMA EnterDoneMoves ==
    ASSUME TypeInv, DoneOnce, NEW j \in Jobs, NEW st \in Statuses, EnterDone(j, st)
    PROVE  /\ DoneOnce'
           /\ \E dropped \in SUBSET Jobs :
                /\ j \notin dropped /\ \A i \in dropped : InDone(i)
                /\ \A i \in Jobs : /\ InDone(i)' <=> i = j \/ (InDone(i) /\ i \notin dropped)
                                   /\ told'[i] = IF i \in dropped THEN "Archive"
                                                 ELSE IF i = j THEN "Complete" ELSE told[i]
                                   /\ status'[i] = IF i \in dropped THEN "Archived"
                                                   ELSE IF i = j THEN st ELSE status[i]
<1> DEFINE list == done[j.type]
           full == ~InDone(j) /\ Len(list) = Kept(j.type)
           dropped == IF full THEN {list[Len(list)]} ELSE {}
           kept == IF full THEN SubSeq(list, 1, Len(list) - 1) ELSE list
           new == <<j>> \o kept
<1>1. j.type \in Types /\ list \in Seq(Jobs) /\ Len(list) \in Nat
  BY JobFacts DEF TypeInv, ListType
<1>2. full => Len(list) \in Nat \ {0}
  BY <1>1, SizesAssumption DEF Kept
<1>3. /\ done' = IF InDone(j) THEN done ELSE [done EXCEPT ![j.type] = new]
      /\ status' = [i \in Jobs |-> IF i \in dropped THEN "Archived"
                                   ELSE IF i = j THEN st ELSE status[i]]
      /\ told' = [i \in Jobs |-> IF i \in dropped THEN "Archive"
                                 ELSE IF i = j THEN "Complete" ELSE told[i]]
  BY Zenon DEF EnterDone
<1>4. \A i \in DOMAIN list : list[i] \in Jobs /\ list[i].type = j.type
  BY <1>1 DEF DoneOnce
<1>5. ASSUME full PROVE /\ list[Len(list)] \in Jobs /\ InDone(list[Len(list)])
                        /\ j # list[Len(list)]
  <2>1. Len(list) \in DOMAIN list
    BY <1>1, <1>2, <1>5
  <2> QED BY <1>4, <1>5, <2>1 DEF InDone
<1>6. dropped \in SUBSET Jobs /\ j \notin dropped /\ \A i \in dropped : InDone(i)
  BY <1>5
<1>7. /\ kept \in Seq(Jobs) /\ Len(kept) \in 0 .. Len(list)
      /\ \A k \in 1 .. Len(kept) : kept[k] = list[k]
      /\ full => Len(kept) = Len(list) - 1
      /\ ~full => Len(kept) = Len(list)
  BY <1>1, <1>2
<1>8. \A i : (\E k \in 1 .. Len(kept) : kept[k] = i)
               <=> (\E k \in 1 .. Len(list) : list[k] = i) /\ i \notin dropped
  <2>1. CASE ~full
    BY <1>7, <2>1
  <2>2. CASE full
    <3> DEFINE l == Len(list)
    <3>1. l \in Nat \ {0} /\ Len(kept) = l - 1 /\ dropped = {list[l]}
      BY <1>2, <1>7, <2>2
    <3>2. \A k \in 1 .. l - 1 : list[k] # list[l]
      BY <1>1, <3>1 DEF DoneOnce
    <3>3. \A k \in 1 .. l : k \in 1 .. l - 1 \/ k = l
      BY <3>1
    <3> HIDE DEF l, list, kept, dropped
    <3> QED BY <1>7, <3>1, <3>2, <3>3 DEF l
  <2> QED BY <2>1, <2>2
<1> HIDE DEF kept, dropped
<1>9. CASE InDone(j)
  <2>1. dropped = {} /\ done' = done
    BY <1>3, <1>9 DEF dropped
  <2>2. DoneOnce' /\ \A i \in Jobs : InDone(i)' <=> InDone(i)
    BY <2>1 DEF DoneOnce, InDone
  <2> QED BY <1>3, <1>6, <1>9, <2>1, <2>2
<1>10. CASE ~InDone(j)
  <2>1. done' = [done EXCEPT ![j.type] = new]
    BY <1>3, <1>10
  <2>2. /\ new \in Seq(Jobs) /\ Len(new) = Len(kept) + 1 /\ new[1] = j
        /\ \A k \in 1 .. Len(kept) : new[k + 1] = kept[k]
        /\ Len(kept) \in Nat
    BY <1>7
  <2>3. \A k \in DOMAIN new : k = 1 \/ (k - 1 \in 1 .. Len(kept) /\ new[k] = kept[k - 1])
    BY <2>2
  <2>4. \A k \in 1 .. Len(kept) : k + 1 \in DOMAIN new /\ 1 \in DOMAIN new
    BY <2>2
  <2>5. 1 \in DOMAIN new
    BY <2>2
  <2> HIDE DEF new
  <2>6. \A k \in 1 .. Len(kept) : kept[k] # j /\ kept[k].type = j.type /\ kept[k] \in Jobs
    BY <1>4, <1>7, <1>10, <1>1 DEF InDone
  <2>7. \A k, l \in 1 .. Len(kept) : kept[k] = kept[l] => k = l
    BY <1>1, <1>7 DEF DoneOnce
  <2>8. \A k, l \in DOMAIN new : new[k].type = j.type /\ (new[k] = new[l] => k = l)
    <3> SUFFICES ASSUME NEW k \in DOMAIN new, NEW l \in DOMAIN new
                 PROVE  new[k].type = j.type /\ (new[k] = new[l] => k = l)
      OBVIOUS
    <3>1. \/ k = 1 /\ new[k] = j
          \/ k - 1 \in 1 .. Len(kept) /\ new[k] = kept[k - 1] /\ new[k] # j
      BY <2>2, <2>3, <2>6
    <3>2. \/ l = 1 /\ new[l] = j
          \/ l - 1 \in 1 .. Len(kept) /\ new[l] = kept[l - 1] /\ new[l] # j
      BY <2>2, <2>3, <2>6
    <3>3. new[k].type = j.type
      BY <2>6, <3>1
    <3>4. k \in Int /\ l \in Int /\ (k - 1 = l - 1 => k = l)
      BY <2>2
    <3> QED BY <2>7, <3>1, <3>2, <3>3, <3>4
  <2>9. done' \in [Types -> Seq(Jobs)] /\ done'[j.type] = new
        /\ \A ty \in Types \ {j.type} : done'[ty] = done[ty]
    BY <1>1, <2>1, <2>2 DEF TypeInv, ListType
  <2>10. DoneOnce'
    BY <2>8, <2>9 DEF DoneOnce
  <2>11. \A i : (\E k \in DOMAIN new : new[k] = i)
                  <=> i = j \/ \E k \in 1 .. Len(kept) : kept[k] = i
    BY <2>2, <2>3, <2>4, <2>5
  <2>12. \A i \in Jobs : InDone(i)' <=> i = j \/ (InDone(i) /\ i \notin dropped)
    <3> SUFFICES ASSUME NEW i \in Jobs PROVE InDone(i)' <=> i = j \/ (InDone(i) /\ i \notin dropped)
      OBVIOUS
    <3>1. i.type \in Types
      BY JobFacts
    <3>2. CASE i.type = j.type
      <4>1. InDone(i)' <=> \E k \in DOMAIN new : new[k] = i
        BY <2>9, <3>2 DEF InDone
      <4>2. InDone(i) <=> \E k \in 1 .. Len(list) : list[k] = i
        BY <1>1, <3>2 DEF InDone
      <4> QED BY <1>8, <2>11, <4>1, <4>2
    <3>3. CASE i.type # j.type
      <4>1. i \notin dropped /\ i # j
        BY <1>2, <1>4, <1>1, <3>3 DEF dropped
      <4> QED BY <2>9, <3>1, <3>3, <4>1 DEF InDone
    <3> QED BY <3>2, <3>3
  <2> QED BY <1>3, <1>6, <2>10, <2>12
<1> QED BY <1>9, <1>10
\* The scheduler's hand is as it was, or was empty and takes a queued job at most.
HandMoves == \/ pc'["sched"] = pc["sched"] /\ jobID' = jobID
             \/ /\ pc["sched"] \notin {"dequeue", "enqueue"}
                /\ pc'["sched"] = "dequeue" => jobID' \in queued'
                /\ pc'["sched"] # "enqueue"

\* No job moves.
LEMMA MsgSame ==
    ASSUME TypeInv, MsgInv, Locked', HandMoves, UNCHANGED <<queued, running, done, told>>,
           cancelled \subseteq cancelled', \A j \in Jobs : Known(j) => Known(j)',
           \A j \in Jobs : status'[j] = status[j] \/ status'[j] # "Archived"
    PROVE  MsgInv'
<1>1. DoneOnce'
  BY DEF MsgInv, DoneOnce
<1>2. \A j \in Jobs : InDone(j)' <=> InDone(j)
  BY DEF InDone
<1>3. AllPlaced'
  <2> SUFFICES ASSUME NEW j \in Jobs \ cancelled' PROVE Placed(j)'
    BY DEF AllPlaced
  <2>1. Placed(j)
    BY DEF MsgInv, AllPlaced
  <2>2. told[j] = "Queued" /\ j \notin queued => pc'["sched"] = "enqueue" /\ jobID' = j
    BY <2>1 DEF Placed, At, HandMoves
  <2> QED BY <1>2, <2>1, <2>2 DEF Placed, At
<1>4. HandQueued'
  BY DEF MsgInv, HandQueued, HandMoves
<1>5. ToldKnown'
  BY DEF MsgInv, ToldKnown
<1> QED BY <1>1, <1>3, <1>4, <1>5 DEF MsgInv

\* A new job is queued: nobody has been told of it.
LEMMA MsgAdds ==
    ASSUME TypeInv, MsgInv, Locked', NEW j \in Jobs, ~Known(j), Known(j)', AddJob(j),
           UNCHANGED <<running, done, status, cancelled, jobID>>, pc'["sched"] = pc["sched"],
           \A i \in Jobs : Known(i) => Known(i)'
    PROVE  MsgInv'
<1>1. /\ queued' = queued \cup {j} /\ told' = [told EXCEPT ![j] = "Queued"]
      /\ pc["sched"] \notin {"dequeue", "enqueue"}
  BY DEF AddJob, MsgInv, Locked
<1>2. \A i \in Jobs : /\ told'[i] = IF i = j THEN "Queued" ELSE told[i]
                      /\ InDone(i)' <=> InDone(i)
  BY <1>1 DEF TypeInv, StatusType, InDone
<1>3. j \in cancelled \/ told[j] = "None"
  BY DEF MsgInv, ToldKnown
<1>4. DoneOnce'
  BY DEF MsgInv, DoneOnce
<1>5. AllPlaced'
  <2> SUFFICES ASSUME NEW i \in Jobs \ cancelled PROVE Placed(i)'
    BY DEF AllPlaced
  <2>1. Placed(i)
    BY DEF MsgInv, AllPlaced
  <2> QED BY <1>1, <1>2, <1>3, <2>1 DEF Placed, At
<1>6. HandQueued'
  BY <1>1 DEF HandQueued
<1>7. ToldKnown'
  BY <1>2 DEF MsgInv, ToldKnown
<1> QED BY <1>4, <1>5, <1>6, <1>7 DEF MsgInv

\* A job ends: it leaves its list for the completed one, unless it was cancelled before.
LEMMA MsgEnds ==
    ASSUME TypeInv, ListInv, MsgInv, Locked', NEW j \in Jobs,
           NEW st \in {"Completed", "Canceled"}, EnterDone(j, st), UNCHANGED cancelled,
           queued' \subseteq queued, queued \subseteq queued' \cup {j}, running' \subseteq running,
           \/ j \in cancelled
           \/ /\ j \in queued \cup running /\ j \notin queued' \cup running'
              /\ j \in running \/ pc["sched"] \notin {"dequeue", "enqueue"},
           \/ pc'["sched"] = pc["sched"] /\ jobID' = jobID
           \/ {pc["sched"], pc'["sched"]} \cap {"dequeue", "enqueue"} = {},
           \A i \in Jobs : Known(i) => Known(i)'
    PROVE  MsgInv'
<1>1. st \in Statuses /\ st # "Archived"
  BY DEF Statuses
<1>2. DoneOnce'
  BY <1>1, EnterDoneMoves DEF MsgInv
<1>3. PICK dropped \in SUBSET Jobs :
         /\ j \notin dropped /\ \A i \in dropped : InDone(i)
         /\ \A i \in Jobs : /\ InDone(i)' <=> i = j \/ (InDone(i) /\ i \notin dropped)
                            /\ told'[i] = IF i \in dropped THEN "Archive"
                                          ELSE IF i = j THEN "Complete" ELSE told[i]
                            /\ status'[i] = IF i \in dropped THEN "Archived"
                                            ELSE IF i = j THEN st ELSE status[i]
  BY <1>1, EnterDoneMoves DEF MsgInv
<1>4. j \in cancelled \/ told[j] \in {"Queued", "Running"}
  BY DEF MsgInv, AllPlaced, Placed
<1>5. \A i \in dropped \ cancelled : told[i] = "Complete"
  BY <1>3 DEF MsgInv, AllPlaced, Placed
<1>6. AllPlaced'
  <2> SUFFICES ASSUME NEW i \in Jobs \ cancelled PROVE Placed(i)'
    BY DEF AllPlaced
  <2>1. Placed(i)
    BY DEF MsgInv, AllPlaced
  <2>2. CASE i = j
    BY <1>1, <1>3, <2>2 DEF Placed
  <2>3. CASE i \in dropped
    BY <1>3, <1>5, <2>1, <2>3 DEF Placed
  <2>4. CASE i # j /\ i \notin dropped
    <3>1. told[i] = "Queued" /\ i \notin queued' => pc'["sched"] = "enqueue" /\ jobID' = i
      BY <2>1, <2>4 DEF Placed, At
    <3> QED BY <1>3, <2>1, <2>4, <3>1 DEF Placed, At
  <2> QED BY <2>2, <2>3, <2>4
<1>7. HandQueued'
  <2>1. CASE {pc["sched"], pc'["sched"]} \cap {"dequeue", "enqueue"} = {}
    BY <2>1 DEF HandQueued
  <2>2. CASE pc'["sched"] = pc["sched"] /\ jobID' = jobID /\ jobID \in cancelled
    BY <2>2 DEF HandQueued
  <2>3. CASE /\ pc'["sched"] = pc["sched"] /\ jobID' = jobID /\ jobID \notin cancelled
             /\ pc["sched"] \in {"dequeue", "enqueue"}
    <3>1. jobID \in Jobs /\ told[jobID] = "Queued"
      BY <2>3 DEF TypeInv, AssignsJob, MsgInv, HandQueued, AllPlaced, Placed
    <3>2. jobID \notin dropped
      BY <1>5, <2>3, <3>1
    <3>3. jobID # j
      BY <2>3, <3>1 DEF MsgInv, AllPlaced, Placed
    <3> QED BY <1>3, <2>3, <3>1, <3>2, <3>3 DEF MsgInv, HandQueued
  <2> QED BY <2>1, <2>2, <2>3 DEF HandQueued
<1>8. ToldKnown'
  BY <1>3, <1>4, <1>5 DEF MsgInv, ToldKnown
<1> QED BY <1>2, <1>6, <1>7, <1>8 DEF MsgInv

\* A job that was submitted stays submitted.
LEMMA KnownStays == ASSUME TypeInv, [Next]_vars PROVE \A j \in Jobs : Known(j) => Known(j)'
<1> USE DEF vars, callVars
<1>1. CASE UNCHANGED submitted /\ pc'["caller"] = pc["caller"]
  BY <1>1 DEF Known
<1>2. CASE Parse
  <2>1. submitted' = [submitted EXCEPT !["Parse"] = @ + 1] /\ UNCHANGED pc
    BY <1>2 DEF Parse
  <2> QED BY <2>1, JobFacts DEF Known, TypeInv, CallType, Types
<1>3. CASE PlayLookup
  <2>1. submitted' = [submitted EXCEPT !["Play"] = @ + 1]
    BY <1>3 DEF PlayLookup
  <2>2. pc["caller"] = "idle"
    BY <1>3 DEF PlayLookup, Move, At
  <2> QED BY <2>1, <2>2, JobFacts DEF Known, TypeInv, CallType, Types
<1>4. CASE PlayAdd
  <2>1. UNCHANGED submitted /\ pc'["caller"] = "idle"
    BY <1>4 DEF PlayAdd, Move, Goto, TypeInv, PcType, Actors
  <2> QED BY <2>1 DEF Known
<1>5. CASE Cancel \/ Canceller
  <2>1. UNCHANGED submitted /\ \E to : Goto("canceller", to)
    BY <1>5 DEF Cancel, Canceller, CancelAbort, CancelRunning, CancelQueued, Move
  <2> QED BY <1>1, <2>1 DEF Goto, TypeInv, PcType, Actors
<1>6. CASE Scheduler
  <2>1. UNCHANGED submitted /\ (UNCHANGED pc \/ \E to : Goto("sched", to))
    <3>1. CASE PlayNext
      BY <3>1, PlayNextCases DEF Passed, GivenUp, Taken, SchedRest
    <3>2. CASE ParseNext
      BY <3>2, ParseNextCases DEF Passed, Taken, SchedRest
    <3>3. CASE PlayRefresh
      BY <3>3, PlayRefreshCases DEF Passed, GivenUp, Taken, SchedRest
    <3> QED BY <1>6, <3>1, <3>2, <3>3
            DEF Scheduler, Lock, Scan, LeaveQueue, EnterRunning, Rest, Wake, Timed, Move
  <2> QED BY <1>1, <2>1 DEF Goto, TypeInv, PcType, Actors
<1>7. CASE \E e \in Engines : JobThread(e)
  BY <1>1, <1>7 DEF JobThread, Begin, End, Judge, Report, Clear, Step
<1>8. CASE UNCHANGED vars
  BY <1>1, <1>8
<1> QED BY <1>2, <1>3, <1>4, <1>5, <1>6, <1>7, <1>8 DEF Next

\* Nobody else moves the scheduler, and it lets go of the mutex only to wait.
LEMMA OthersLock ==
    ASSUME TypeInv, MsgInv, UNCHANGED mutex,
           \/ UNCHANGED pc
           \/ \E a \in {"caller", "canceller"} : \E to : Goto(a, to)
    PROVE  Locked' /\ pc'["sched"] = pc["sched"]
BY DEF MsgInv, Locked, Goto, TypeInv, PcType, Actors

LEMMA SchedLocks ==
    ASSUME TypeInv, MsgInv, UNCHANGED mutex, NEW to, Goto("sched", to),
           pc["sched"] \notin {"lock", "blocked", "timed"}
    PROVE  Locked' /\ pc'["sched"] = to
BY DEF MsgInv, Locked, Goto, TypeInv, PcType, Actors

LEMMA MsgCallers ==
    ASSUME TypeInv, ListInv, MsgInv, Parse \/ PlayLookup \/ PlayAdd
    PROVE  MsgInv'
<1> USE DEF listVars, jobVars, engineVars, schedVars, callVars
<1>1. \A j \in Jobs : Known(j) => Known(j)'
  BY KnownStays DEF Next
<1>2. CASE Parse
  <2>1. submitted["Parse"] \in Nat /\ submitted["Parse"] < NParses
    BY <1>2 DEF Parse, TypeInv, CallType, Types
  <2>2. submitted["Parse"] + 1 \in 1 .. NParses
    BY <2>1, SizesAssumption
  <2>3. PICK j \in Jobs : j = [type |-> "Parse", n |-> submitted["Parse"] + 1]
    BY <2>2, JobFacts
  <2>4. /\ AddJob(j) /\ submitted' = [submitted EXCEPT !["Parse"] = @ + 1]
        /\ UNCHANGED <<running, done, status, jobID, cancelled, mutex, pc>>
    BY <1>2, <2>3, Zenon DEF Parse
  <2>5. ~Known(j) /\ Known(j)'
    BY <2>1, <2>3, <2>4 DEF Known, TypeInv, CallType, Types
  <2> QED BY <1>1, <2>4, <2>5, OthersLock, MsgAdds
<1>3. CASE PlayLookup
  <2>1. /\ UNCHANGED <<queued, running, done, status, told, jobID, cancelled, mutex>>
        /\ Goto("caller", "add")
    BY <1>3, Zenon DEF PlayLookup, Move
  <2> QED BY <1>1, <2>1, OthersLock, MsgSame DEF HandMoves
<1>4. CASE PlayAdd
  <2>1. PICK j \in Jobs : j = [type |-> "Play", n |-> submitted["Play"]]
    BY <1>4, JobFacts DEF PlayAdd, Move, TypeInv, CallsHaveJobs
  <2>2. /\ AddJob(j) /\ Goto("caller", "idle") /\ At("caller", "add")
        /\ UNCHANGED <<running, done, status, jobID, submitted, cancelled, mutex>>
    BY <1>4, <2>1, Zenon DEF PlayAdd, Move
  <2>3. ~Known(j) /\ Known(j)'
    BY <2>1, <2>2 DEF Known, At, Goto, TypeInv, PcType, CallType, Actors, CallsHaveJobs
  <2> QED BY <1>1, <2>2, <2>3, OthersLock, MsgAdds
<1> QED BY <1>2, <1>3, <1>4

LEMMA MsgCancellers == ASSUME TypeInv, ListInv, MsgInv, Cancel \/ Canceller PROVE MsgInv'
<1> USE DEF listVars, jobVars, engineVars, schedVars, callVars
<1>1. \A j \in Jobs : Known(j) => Known(j)'
  BY KnownStays DEF Next
<1>2. UNCHANGED <<mutex, jobID>> /\ \E to : Goto("canceller", to)
  BY DEF Cancel, Canceller, CancelAbort, CancelRunning, CancelQueued, Move
<1>3. Locked' /\ HandMoves /\ pc'["sched"] = pc["sched"]
  BY <1>2, OthersLock DEF HandMoves
<1>4. CASE Cancel
  <2>1. UNCHANGED <<queued, running, done, told, status>> /\ cancelled \subseteq cancelled'
    BY <1>4 DEF Cancel
  <2> QED BY <1>1, <1>3, <2>1, MsgSame
<1>5. CASE CancelAbort
  <2>1. /\ UNCHANGED <<queued, running, done, told, cancelled>>
        /\ status' = [status EXCEPT ![currentJob[engineID[cancelID]]] = "Canceled"]
    BY <1>5, Zenon DEF CancelAbort
  <2>2. \A j \in Jobs : status'[j] = status[j] \/ status'[j] # "Archived"
    BY <2>1 DEF TypeInv, StatusType
  <2> QED BY <1>1, <1>3, <2>1, <2>2, MsgSame
<1>6. ASSUME Canceller, pc["canceller"] # "idle" PROVE cancelID \in cancelled /\ cancelID \in Jobs
  BY <1>6 DEF ListInv, CancelKnown, TypeInv, CallsHaveJobs, At
<1>7. CASE CancelRunning
  <2>1. /\ UNCHANGED <<queued, cancelled>> /\ EnterDone(cancelID, "Canceled")
        /\ running' = running \ {cancelID} /\ pc["canceller"] # "idle"
    BY <1>7 DEF CancelRunning, Move, At
  <2>2. PICK j \in Jobs : j = cancelID /\ j \in cancelled
    BY <1>6, <1>7, <2>1 DEF Canceller
  <2>3. EnterDone(j, "Canceled")
    BY <2>1, <2>2
  <2> QED BY <1>1, <1>2, <1>3, <2>1, <2>2, <2>3, MsgEnds
<1>8. CASE CancelQueued
  <2>1. CASE UNCHANGED <<queued, done, status, told>>
    BY <1>1, <1>3, <1>8, <2>1, MsgSame DEF CancelQueued
  <2>2. CASE queued' = queued \ {cancelID} /\ EnterDone(cancelID, "Canceled")
    <3>1. UNCHANGED <<running, cancelled>> /\ pc["canceller"] # "idle"
      BY <1>8 DEF CancelQueued, Move, At
    <3>2. PICK j \in Jobs : j = cancelID /\ j \in cancelled
      BY <1>6, <1>8, <3>1 DEF Canceller
    <3>3. EnterDone(j, "Canceled")
      BY <2>2, <3>2
    <3> QED BY <1>1, <1>2, <1>3, <2>2, <3>1, <3>2, <3>3, MsgEnds
  <2> QED BY <1>8, <2>1, <2>2 DEF CancelQueued
<1> QED BY <1>4, <1>5, <1>7, <1>8 DEF Canceller

\* The scheduler moves a job from one list to the other.
LEMMA MsgLeaves == ASSUME TypeInv, ListInv, MsgInv, LeaveQueue PROVE MsgInv'
<1> USE DEF listVars, jobVars, engineVars, schedVars, callVars
<1>1. /\ pc["sched"] = "dequeue" /\ Goto("sched", "enqueue") /\ queued' = queued \ {jobID}
      /\ UNCHANGED <<running, done, told, status, jobID, cancelled, mutex>>
  BY Zenon DEF LeaveQueue, Move, At
<1>2. Locked' /\ pc'["sched"] = "enqueue"
  BY <1>1, SchedLocks
<1>3. (\A j \in Jobs : Known(j) => Known(j)') /\ \A j \in Jobs : InDone(j)' <=> InDone(j)
  BY <1>1, KnownStays DEF Next, Scheduler, InDone
<1>4. jobID \in Jobs /\ (jobID \in cancelled \/ jobID \in queued)
  BY <1>1 DEF MsgInv, HandQueued, TypeInv, AssignsJob
<1>5. DoneOnce'
  BY <1>1 DEF MsgInv, DoneOnce
<1>6. AllPlaced'
  BY <1>1, <1>2, <1>3 DEF MsgInv, AllPlaced, Placed, At
<1>7. HandQueued'
  BY <1>1, <1>2, <1>4 DEF MsgInv, HandQueued, AllPlaced, Placed
<1>8. ToldKnown'
  BY <1>1, <1>3 DEF MsgInv, ToldKnown
<1> QED BY <1>2, <1>5, <1>6, <1>7, <1>8 DEF MsgInv

LEMMA MsgEnters == ASSUME TypeInv, ListInv, MsgInv, EnterRunning PROVE MsgInv'
<1> USE DEF listVars, jobVars, engineVars, schedVars, callVars
<1>1. /\ pc["sched"] = "enqueue" /\ running' = running \cup {jobID}
      /\ \E to \in {"plays", "parses"} : Goto("sched", to)
      /\ told' = [told EXCEPT ![jobID] = "Running"]
      /\ UNCHANGED <<queued, done, status, jobID, cancelled, mutex>>
  BY DEF EnterRunning, Move, At
<1>2. Locked' /\ pc'["sched"] \in {"plays", "parses"}
  BY <1>1, SchedLocks
<1>3. (\A j \in Jobs : Known(j) => Known(j)') /\ \A j \in Jobs : InDone(j)' <=> InDone(j)
  BY <1>1, KnownStays DEF Next, Scheduler, InDone
<1>4. jobID \in Jobs /\ (jobID \in cancelled \/ (told[jobID] = "Queued" /\ jobID \notin queued))
  BY <1>1 DEF MsgInv, HandQueued, TypeInv, AssignsJob
<1>5. \A i \in Jobs : told'[i] = IF i = jobID THEN "Running" ELSE told[i]
  BY <1>1 DEF TypeInv, StatusType
<1>6. DoneOnce'
  BY <1>1 DEF MsgInv, DoneOnce
<1>7. AllPlaced'
  <2> SUFFICES ASSUME NEW i \in Jobs \ cancelled PROVE Placed(i)'
    BY <1>1 DEF AllPlaced
  <2>1. Placed(i)
    BY DEF MsgInv, AllPlaced
  <2>2. i = jobID => ~InDone(i) /\ status[i] # "Archived"
    BY <1>4, <2>1 DEF Placed
  <2> QED BY <1>1, <1>2, <1>3, <1>4, <1>5, <2>1, <2>2 DEF Placed, At
<1>8. HandQueued'
  BY <1>2 DEF HandQueued
<1>9. ToldKnown'
  BY <1>1, <1>3, <1>4, <1>5 DEF MsgInv, ToldKnown
<1> QED BY <1>2, <1>6, <1>7, <1>8, <1>9 DEF MsgInv

LEMMA MsgScheduler == ASSUME TypeInv, ListInv, MsgInv, Scheduler PROVE MsgInv'
<1> USE DEF listVars, jobVars, engineVars, schedVars, callVars
<1>1. \A j \in Jobs : Known(j) => Known(j)'
  BY KnownStays DEF Next
<1>2. ASSUME UNCHANGED SchedRest, NEW from \in {"plays", "parses", "refresh"}, At("sched", from),
             \/ \E to \in {"plays", "parses", "refresh", "rest"} : Passed(to)
             \/ \E j : GivenUp(j)
             \/ \E e \in Engines : jobID' \in Jobs /\ Taken(jobID', e)
      PROVE  MsgInv'
  <2>1. UNCHANGED <<running, cancelled, mutex>> /\ pc["sched"] \in {"plays", "parses", "refresh"}
    BY <1>2 DEF SchedRest, At
  <2>2. CASE \E to \in {"plays", "parses", "refresh", "rest"} : Passed(to)
    <3>1. PICK to \in {"plays", "parses", "refresh", "rest"} : Passed(to)
      BY <2>2
    <3>2. Goto("sched", to) /\ UNCHANGED <<queued, done, told, status>>
      BY <3>1, Zenon DEF Passed
    <3>3. Locked' /\ HandMoves
      BY <2>1, <3>2, SchedLocks DEF HandMoves
    <3> QED BY <1>1, <2>1, <3>2, <3>3, MsgSame
  <2>3. CASE \E j : GivenUp(j)
    <3>1. PICK j : GivenUp(j)
      BY <2>3
    <3>2. /\ Goto("sched", "plays") /\ j \in queued /\ queued' = queued \ {j}
          /\ EnterDone(j, "Canceled")
      BY <3>1 DEF GivenUp
    <3>3. j \in Jobs
      BY <3>2 DEF TypeInv, ListType
    <3>4. Locked' /\ pc'["sched"] = "plays"
      BY <2>1, <3>2, SchedLocks
    <3>5. j \in cancelled \/ j \notin running
      BY <3>2, <3>3 DEF MsgInv, AllPlaced, Placed
    <3> QED BY <1>1, <2>1, <3>2, <3>3, <3>4, <3>5, MsgEnds
  <2>4. CASE \E e \in Engines : jobID' \in Jobs /\ Taken(jobID', e)
    <3>1. PICK e \in Engines, j \in Jobs : Taken(j, e) /\ jobID' = j
      BY <2>4
    <3>2. /\ Goto("sched", "dequeue") /\ UNCHANGED <<queued, done, told>> /\ j \in queued
          /\ status' = [status EXCEPT ![j] = "Running"]
      BY <3>1, Zenon DEF Taken
    <3>3. Locked' /\ HandMoves
      BY <2>1, <3>1, <3>2, SchedLocks DEF HandMoves
    <3>4. \A i \in Jobs : status'[i] = status[i] \/ status'[i] # "Archived"
      BY <3>2 DEF TypeInv, StatusType
    <3> QED BY <1>1, <2>1, <3>2, <3>3, <3>4, MsgSame
  <2> QED BY <1>2, <2>2, <2>3, <2>4
<1>3. CASE PlayNext
  BY <1>2, <1>3, PlayNextCases
<1>4. CASE ParseNext
  BY <1>2, <1>4, ParseNextCases
<1>5. CASE PlayRefresh
  BY <1>2, <1>5, PlayRefreshCases
<1>6. CASE Scan \/ Rest \/ Lock \/ Wake \/ Timed
  <2>1. /\ UNCHANGED <<queued, running, done, told, status, jobID, cancelled>>
        /\ pc["sched"] \notin {"dequeue", "enqueue"}
    BY <1>6 DEF Scan, Rest, Lock, Wake, Timed, Move, At
  <2>2. /\ pc'["sched"] \notin {"dequeue", "enqueue"}
        /\ pc'["sched"] \in {"lock", "blocked", "timed"} \/ mutex' = "sched"
    <3>1. CASE Scan
      BY <3>1 DEF Scan, Move, At, Goto, MsgInv, Locked, TypeInv, PcType, Actors
    <3>2. CASE Rest
      BY <3>2 DEF Rest, Move, Goto, TypeInv, PcType, Actors
    <3>3. CASE Lock \/ Wake \/ Timed
      BY <3>3 DEF Lock, Wake, Timed, Move, At, Goto, TypeInv, PcType, Actors
    <3> QED BY <1>6, <3>1, <3>2, <3>3
  <2>3. Locked' /\ HandMoves
    BY <2>1, <2>2 DEF Locked, HandMoves
  <2> QED BY <1>1, <2>1, <2>3, MsgSame
<1> QED BY <1>3, <1>4, <1>5, <1>6, MsgLeaves, MsgEnters DEF Scheduler

LEMMA MsgThreads == ASSUME TypeInv, ListInv, MsgInv, NEW e \in Engines, JobThread(e) PROVE MsgInv'
<1> USE DEF listVars, jobVars, engineVars, schedVars, callVars
<1>1. \A j \in Jobs : Known(j) => Known(j)'
  BY KnownStays DEF Next
<1>2. UNCHANGED <<queued, jobID, cancelled, mutex, pc>>
  BY DEF JobThread, Begin, End, Judge, Report, Clear, Step
<1>3. Locked' /\ HandMoves
  BY <1>2, OthersLock DEF HandMoves
<1>4. CASE Begin(e) \/ End(e) \/ Judge(e) \/ Clear(e)
  <2>1. /\ UNCHANGED <<running, done, told>>
        /\ status' \in {status, [status EXCEPT ![currentJob[e]] = "Canceled"]}
    BY <1>4 DEF Begin, End, Judge, Clear
  <2>2. \A j \in Jobs : status'[j] = status[j] \/ status'[j] # "Archived"
    BY <2>1 DEF TypeInv, StatusType
  <2> QED BY <1>1, <1>2, <1>3, <2>1, <2>2, MsgSame
<1>5. CASE Report(e)
  <2>1. CASE UNCHANGED <<running, done, status, told>>
    BY <1>1, <1>2, <1>3, <2>1, MsgSame
  <2>2. CASE /\ currentJob[e] \in running /\ running' = running \ {currentJob[e]}
             /\ \E st \in {"Completed", "Canceled"} : EnterDone(currentJob[e], st)
    <3>1. PICK j \in Jobs : j = currentJob[e]
      BY <2>2 DEF TypeInv, ListType
    <3>2. PICK st \in {"Completed", "Canceled"} : EnterDone(j, st)
      BY <2>2, <3>1
    <3>3. j \in cancelled \/ j \notin queued
      BY <2>2, <3>1 DEF MsgInv, AllPlaced, Placed
    <3> QED BY <1>1, <1>2, <1>3, <2>2, <3>1, <3>2, <3>3, MsgEnds
  <2> QED BY <1>5, <2>1, <2>2 DEF Report
<1> QED BY <1>4, <1>5 DEF JobThread

LEMMA MsgStep == TypeInv /\ ListInv /\ MsgInv /\ [Next]_vars => MsgInv'
<1>1. TypeInv /\ ListInv /\ MsgInv /\ Next => MsgInv'
  BY MsgCallers, MsgCancellers, MsgScheduler, MsgThreads DEF Next
<1>2. TypeInv /\ ListInv /\ MsgInv /\ UNCHANGED vars => MsgInv'
  BY DEF MsgInv, Locked, DoneOnce, AllPlaced, Placed, HandQueued, ToldKnown, Known, InDone, At,
     vars, listVars, jobVars, engineVars, schedVars, callVars
<1> QED BY <1>1, <1>2

\* For any number of engines, jobs and cancellations, and for completed lists of any size:
\* what the clients were told of a job that nobody cancelled is the list it is in.
THEOREM ClientsKnowTheList == Spec => []MessagesFollowLists
<1>1. MsgInv => MessagesFollowLists
  BY DEF MsgInv, AllPlaced, Placed, MessagesFollowLists
<1> QED BY <1>1, MsgInit, MsgStep, ListAlways, PTL DEF Spec

-----------------------------------------------------------------------------
(* The scheduler implements JobLedger.  A job that was cancelled may be told of once more, in  *)
(* any order, and comes into a completed list again after it has left it; the others are told  *)
(* what MsgInv says, and the list they enter is never longer than it may be.                   *)

Bounded       == \A ty \in Types : Len(done[ty]) <= Kept(ty)
CancelledTold == \A j \in cancelled : told[j] # "None" /\ Known(j)
LedgerInv     == Bounded /\ CancelledTold

LedgerSame == UNCHANGED <<told, done, cancelled>>
LedgerStep == \E j \in Jobs : \/ Ledger!Accept(j) \/ Ledger!Withdraw(j) \/ Ledger!Start(j)
                              \/ Ledger!Finish(j) \/ Ledger!Repeat(j)

\* The model and the abstract specification mean the same by a list and its room.
LEMMA LedgerNames ==
    ASSUME NEW j \in Jobs
    PROVE  /\ Ledger!Listed(j) <=> InDone(j)
           /\ [Parse |-> ParsesKept, Play |-> PlaysKept][j.type] = Kept(j.type)
           /\ Kept(j.type) \in Nat \ {0}
BY JobFacts, SizesAssumption DEF Ledger!Listed, InDone, Kept, Types

\* Of a list that is not too long, the first `room' after j was put at its head are what
\* EnterDone keeps, and the rest is what it drops.
LEMMA HeadOfList ==
    ASSUME NEW j \in Jobs, NEW list \in Seq(Jobs), NEW room \in Nat \ {0}, Len(list) <= room
    PROVE  LET line == <<j>> \o list
               cut  == SubSeq(line, 1, IF Len(line) > room THEN room ELSE Len(line))
               left == {line[i] : i \in DOMAIN line \ 1 .. room} IN
           /\ cut \in Seq(Jobs) /\ Len(cut) <= room
           /\ Len(list) # room => cut = line /\ left = {}
           /\ Len(list) = room => /\ cut = <<j>> \o SubSeq(list, 1, Len(list) - 1)
                                  /\ left = {list[Len(list)]}
<1> DEFINE line == <<j>> \o list
           cut  == SubSeq(line, 1, IF Len(line) > room THEN room ELSE Len(line))
           left == {line[i] : i \in DOMAIN line \ 1 .. room}
           rest == SubSeq(list, 1, Len(list) - 1)
<1>1. /\ line \in Seq(Jobs) /\ Len(line) = Len(list) + 1 /\ Len(list) \in Nat
      /\ DOMAIN line = 1 .. Len(list) + 1 /\ line[1] = j
      /\ \A i \in 2 .. Len(list) + 1 : line[i] = list[i - 1]
  OBVIOUS
<1>2. CASE Len(list) # room
  <2>1. ~(Len(line) > room) /\ DOMAIN line \ 1 .. room = {}
    BY <1>1, <1>2
  <2>2. cut = line
    BY <1>1, <2>1
  <2> HIDE DEF line, cut
  <2> QED BY <1>1, <1>2, <2>1, <2>2
<1>3. CASE Len(list) = room
  <2>1. Len(line) > room /\ DOMAIN line \ 1 .. room = {room + 1} /\ line[room + 1] = list[room]
    BY <1>1, <1>3
  <2>2. left = {list[room]}
    BY <2>1
  <2>3. /\ cut \in Seq(Jobs) /\ Len(cut) = room
        /\ \A i \in 1 .. room : cut[i] = line[i]
    BY <1>1, <2>1
  <2>4. rest \in Seq(Jobs) /\ Len(rest) = room - 1 /\ \A i \in 1 .. room - 1 : rest[i] = list[i]
    BY <1>1, <1>3
  <2>5. /\ <<j>> \o rest \in Seq(Jobs) /\ Len(<<j>> \o rest) = room /\ (<<j>> \o rest)[1] = j
        /\ \A i \in 2 .. room : (<<j>> \o rest)[i] = rest[i - 1]
    BY <2>4
  <2> HIDE DEF line, cut, rest, left
  <2>6. \A i \in 1 .. room : cut[i] = (<<j>> \o rest)[i]
    <3> SUFFICES ASSUME NEW i \in 1 .. room PROVE cut[i] = (<<j>> \o rest)[i]
      OBVIOUS
    <3>1. CASE i = 1
      BY <1>1, <2>3, <2>5, <3>1
    <3>2. CASE i # 1
      <4>1. i \in 2 .. room /\ i \in 2 .. Len(list) + 1 /\ i - 1 \in 1 .. room - 1
        BY <1>3, <3>2
      <4> QED BY <1>1, <2>3, <2>4, <2>5, <4>1
    <3> QED BY <3>1, <3>2
  <2>7. cut = <<j>> \o rest
    BY <2>3, <2>5, <2>6
  <2>8. /\ cut \in Seq(Jobs) /\ Len(cut) <= room /\ cut = <<j>> \o rest
        /\ left = {list[Len(list)]}
    BY <1>3, <2>2, <2>3, <2>7
  <2> QED BY <1>3, <2>8, Zenon DEF line, cut, rest, left
<1> QED BY <1>2, <1>3

\* A job that enters its completed list finishes, or was cancelled and stays where it is.
LEMMA EnterDoneFinishes ==
    ASSUME TypeInv, Bounded, NEW j \in Jobs, NEW st \in Statuses, EnterDone(j, st),
           UNCHANGED cancelled,
           j \in cancelled \/ (told[j] \in {"Queued", "Running"} /\ ~InDone(j))
    PROVE  Ledger!Finish(j) \/ Ledger!Repeat(j)
<1> DEFINE list == done[j.type]
           full == ~InDone(j) /\ Len(list) = Kept(j.type)
           dropped == IF full THEN {list[Len(list)]} ELSE {}
           kept == IF full THEN SubSeq(list, 1, Len(list) - 1) ELSE list
<1>1. /\ done' = IF InDone(j) THEN done ELSE [done EXCEPT ![j.type] = <<j>> \o kept]
      /\ told' = [i \in Jobs |-> IF i \in dropped THEN "Archive"
                                 ELSE IF i = j THEN "Complete" ELSE told[i]]
  BY Zenon DEF EnterDone
<1>2. /\ list \in Seq(Jobs) /\ Len(list) <= Kept(j.type) /\ Kept(j.type) \in Nat \ {0}
      /\ Ledger!Listed(j) <=> InDone(j)
  BY JobFacts, LedgerNames DEF TypeInv, ListType, Bounded
<1>3. CASE InDone(j)
  <2>1. dropped = {} /\ done' = done
    BY <1>1, <1>3
  <2>2. told' = [told EXCEPT ![j] = "Complete"]
    BY <1>1, <2>1 DEF TypeInv, StatusType
  <2> QED BY <1>2, <1>3, <2>1, <2>2 DEF Ledger!Repeat, Ledger!Notify
<1>4. CASE ~InDone(j)
  <2> DEFINE line == <<j>> \o list
             room == Kept(j.type)
             cut  == SubSeq(line, 1, IF Len(line) > room THEN room ELSE Len(line))
             left == {line[i] : i \in DOMAIN line \ 1 .. room}
  <2>1. cut = <<j>> \o kept /\ left = dropped
    BY <1>2, <1>4, HeadOfList, Zenon
  <2>2. /\ done' = [done EXCEPT ![j.type] = cut]
        /\ told' = [i \in Jobs |-> IF i \in left THEN "Archive"
                                   ELSE IF i = j THEN "Complete" ELSE told[i]]
    BY <1>1, <1>4, <2>1, Zenon
  <2>3. room = [Parse |-> ParsesKept, Play |-> PlaysKept][j.type]
    BY LedgerNames
  <2>4. j \in cancelled \/ Ledger!Pending(j)
    BY DEF Ledger!Pending
  <2> QED BY <1>2, <1>4, <2>2, <2>3, <2>4, Zenon DEF Ledger!Finish
<1> QED BY <1>3, <1>4

\* Every step but those that end a job.
LEMMA LedgerCallers ==
    ASSUME TypeInv, MsgInv, LedgerInv, Parse \/ PlayLookup \/ PlayAdd
    PROVE  LedgerStep \/ LedgerSame
<1> USE DEF listVars, jobVars, engineVars, schedVars, callVars
<1>1. ASSUME NEW j \in Jobs, ~Known(j), AddJob(j), UNCHANGED <<done, cancelled>>
      PROVE  LedgerStep
  <2>1. told[j] = "None" /\ told' = [told EXCEPT ![j] = "Queued"]
    BY <1>1 DEF AddJob, MsgInv, ToldKnown, LedgerInv, CancelledTold
  <2> QED BY <1>1, <2>1 DEF LedgerStep, Ledger!Accept, Ledger!Notify
<1>2. CASE Parse
  <2>1. submitted["Parse"] \in Nat /\ submitted["Parse"] < NParses
    BY <1>2 DEF Parse, TypeInv, CallType, Types
  <2>2. submitted["Parse"] + 1 \in 1 .. NParses
    BY <2>1, SizesAssumption
  <2>3. PICK j \in Jobs : j = [type |-> "Parse", n |-> submitted["Parse"] + 1]
    BY <2>2, JobFacts
  <2>4. AddJob(j) /\ UNCHANGED <<done, cancelled>>
    BY <1>2, <2>3, Zenon DEF Parse
  <2>5. ~Known(j)
    BY <2>1, <2>3 DEF Known
  <2> QED BY <1>1, <2>4, <2>5
<1>3. CASE PlayLookup
  BY <1>3 DEF PlayLookup, LedgerSame
<1>4. CASE PlayAdd
  <2>1. PICK j \in Jobs : j = [type |-> "Play", n |-> submitted["Play"]]
    BY <1>4, JobFacts DEF PlayAdd, Move, TypeInv, CallsHaveJobs
  <2>2. AddJob(j) /\ At("caller", "add") /\ UNCHANGED <<done, cancelled>>
    BY <1>4, <2>1, Zenon DEF PlayAdd, Move
  <2>3. ~Known(j)
    BY <2>1, <2>2 DEF Known, At, TypeInv, CallsHaveJobs, CallType, Types
  <2> QED BY <1>1, <2>2, <2>3
<1> QED BY <1>2, <1>3, <1>4

\* A job nobody cancelled that is found in a list has not finished.
LEMMA ListedPending ==
    ASSUME MsgInv, NEW j \in Jobs, j \in queued \cup running
    PROVE  j \in cancelled \/ (told[j] \in {"Queued", "Running"} /\ ~InDone(j))
BY DEF MsgInv, AllPlaced, Placed

LEMMA LedgerCancellers ==
    ASSUME TypeInv, ListInv, MsgInv, LedgerInv, Cancel \/ Canceller
    PROVE  LedgerStep \/ LedgerSame
<1> USE DEF listVars, jobVars, engineVars, schedVars, callVars
<1>1. CASE Cancel
  <2>1. PICK j \in queued \cup running : cancelled' = cancelled \cup {j}
    BY <1>1 DEF Cancel
  <2>2. j \in Jobs /\ UNCHANGED <<told, done>>
    BY <1>1 DEF TypeInv, ListType, Cancel
  <2>3. CASE j \in cancelled
    BY <2>1, <2>2, <2>3 DEF LedgerSame
  <2>4. CASE j \notin cancelled
    BY <2>1, <2>2, <2>4, ListedPending DEF LedgerStep, Ledger!Withdraw, Ledger!Pending
  <2> QED BY <2>3, <2>4
<1>2. CASE CancelAbort
  BY <1>2 DEF CancelAbort, LedgerSame
<1>3. CASE CancelRunning \/ CancelQueued
  <2>1. cancelID \in cancelled /\ cancelID \in Jobs /\ UNCHANGED cancelled
    BY <1>3 DEF CancelRunning, CancelQueued, Move, At, ListInv, CancelKnown, TypeInv, CallsHaveJobs
  <2>2. EnterDone(cancelID, "Canceled") \/ UNCHANGED <<told, done>>
    BY <1>3 DEF CancelRunning, CancelQueued
  <2>3. CASE EnterDone(cancelID, "Canceled")
    <3>1. PICK j \in Jobs : j = cancelID
      BY <2>1
    <3>2. Ledger!Finish(j) \/ Ledger!Repeat(j)
      BY <2>1, <2>3, <3>1, EnterDoneFinishes DEF LedgerInv, Statuses
    <3> QED BY <3>2 DEF LedgerStep
  <2> QED BY <2>1, <2>2, <2>3 DEF LedgerSame
<1> QED BY <1>1, <1>2, <1>3 DEF Canceller

LEMMA LedgerScheduler ==
    ASSUME TypeInv, ListInv, MsgInv, LedgerInv, Scheduler
    PROVE  LedgerStep \/ LedgerSame
<1> USE DEF listVars, jobVars, engineVars, schedVars, callVars
<1>1. ASSUME UNCHANGED SchedRest,
             \/ \E to \in {"plays", "parses", "refresh", "rest"} : Passed(to)
             \/ \E j : GivenUp(j)
             \/ \E e \in Engines : jobID' \in Jobs /\ Taken(jobID', e)
      PROVE  LedgerStep \/ LedgerSame
  <2>1. UNCHANGED cancelled
    BY <1>1 DEF SchedRest
  <2>2. CASE \E j : GivenUp(j)
    <3>1. PICK j : GivenUp(j)
      BY <2>2
    <3>2. j \in queued /\ EnterDone(j, "Canceled") /\ j \in Jobs
      BY <3>1 DEF GivenUp, TypeInv, ListType
    <3>3. Ledger!Finish(j) \/ Ledger!Repeat(j)
      BY <2>1, <3>2, ListedPending, EnterDoneFinishes DEF LedgerInv, Statuses
    <3> QED BY <3>2, <3>3 DEF LedgerStep
  <2>3. CASE UNCHANGED <<told, done>>
    BY <2>1, <2>3 DEF LedgerSame
  <2> QED BY <1>1, <2>2, <2>3 DEF Passed, Taken
<1>2. CASE PlayNext
  BY <1>1, <1>2, PlayNextCases
<1>3. CASE ParseNext
  BY <1>1, <1>3, ParseNextCases
<1>4. CASE PlayRefresh
  BY <1>1, <1>4, PlayRefreshCases
<1>5. CASE Scan \/ Rest \/ Lock \/ Wake \/ Timed \/ LeaveQueue
  BY <1>5 DEF Scan, Rest, Lock, Wake, Timed, LeaveQueue, LedgerSame
<1>6. CASE EnterRunning
  <2>1. /\ pc["sched"] = "enqueue" /\ told' = [told EXCEPT ![jobID] = "Running"]
        /\ UNCHANGED <<done, cancelled>>
    BY <1>6 DEF EnterRunning, Move, At
  <2>2. jobID \in Jobs /\ (jobID \in cancelled \/ told[jobID] = "Queued")
    BY <2>1 DEF MsgInv, HandQueued, TypeInv, AssignsJob
  <2> QED BY <2>1, <2>2 DEF LedgerStep, Ledger!Start, Ledger!Notify
<1> QED BY <1>2, <1>3, <1>4, <1>5, <1>6 DEF Scheduler

LEMMA LedgerThreads ==
    ASSUME TypeInv, MsgInv, LedgerInv, NEW e \in Engines, JobThread(e)
    PROVE  LedgerStep \/ LedgerSame
<1> USE DEF listVars, jobVars, engineVars, schedVars, callVars
<1>1. CASE Begin(e) \/ End(e) \/ Judge(e) \/ Clear(e)
  BY <1>1 DEF Begin, End, Judge, Clear, LedgerSame
<1>2. CASE Report(e)
  <2>1. CASE UNCHANGED <<told, done>>
    BY <1>2, <2>1 DEF Report, LedgerSame
  <2>2. CASE /\ currentJob[e] \in running
             /\ \E st \in {"Completed", "Canceled"} : EnterDone(currentJob[e], st)
    <3>1. PICK j \in Jobs : j = currentJob[e] /\ j \in running
      BY <2>2 DEF TypeInv, ListType
    <3>2. PICK st \in Statuses : EnterDone(j, st)
      BY <2>2, <3>1 DEF Statuses
    <3>3. UNCHANGED cancelled
      BY <1>2 DEF Report
    <3>4. Ledger!Finish(j) \/ Ledger!Repeat(j)
      BY <3>1, <3>2, <3>3, ListedPending, EnterDoneFinishes DEF LedgerInv
    <3> QED BY <3>4 DEF LedgerStep
  <2> QED BY <1>2, <2>1, <2>2 DEF Report
<1> QED BY <1>1, <1>2 DEF JobThread

LEMMA StepIsLedgerStep ==
    ASSUME TypeInv, ListInv, MsgInv, LedgerInv, [Next]_vars PROVE LedgerStep \/ LedgerSame
<1>1. CASE Next
  BY <1>1, LedgerCallers, LedgerCancellers, LedgerScheduler, LedgerThreads DEF Next
<1>2. CASE UNCHANGED vars
  BY <1>2 DEF vars, listVars, jobVars, callVars, LedgerSame
<1> QED BY <1>1, <1>2

\* The invariant is kept by what the ledger does, whatever the scheduler does.
LEMMA LedgerKeeps ==
    ASSUME TypeInv, MsgInv, LedgerInv, [Next]_vars, LedgerStep \/ LedgerSame PROVE LedgerInv'
<1>1. \A j \in Jobs : Known(j) => Known(j)'
  BY KnownStays
<1>2. cancelled \in SUBSET Jobs /\ cancelled' \in SUBSET Jobs
  BY TypeInvStep DEF TypeInv, CallType
<1>3. CASE LedgerSame
  BY <1>1, <1>2, <1>3 DEF LedgerSame, LedgerInv, Bounded, CancelledTold, Kept
<1>4. CASE LedgerStep
  <2>1. PICK j \in Jobs : \/ Ledger!Accept(j) \/ Ledger!Withdraw(j) \/ Ledger!Start(j)
                          \/ Ledger!Finish(j) \/ Ledger!Repeat(j)
    BY <1>4 DEF LedgerStep
  <2>2. CASE Ledger!Accept(j) \/ Ledger!Start(j) \/ Ledger!Repeat(j)
    <3>1. /\ UNCHANGED <<done, cancelled>>
          /\ \E what \in {"Queued", "Running", "Complete"} : told' = [told EXCEPT ![j] = what]
      BY <2>2 DEF Ledger!Accept, Ledger!Start, Ledger!Repeat, Ledger!Notify
    <3>2. \A i \in Jobs : told[i] # "None" => told'[i] # "None"
      BY <3>1 DEF TypeInv, StatusType
    <3> QED BY <1>1, <1>2, <3>1, <3>2 DEF LedgerInv, Bounded, CancelledTold, Kept
  <2>3. CASE Ledger!Withdraw(j)
    <3>1. UNCHANGED <<told, done>> /\ cancelled' = cancelled \cup {j} /\ told[j] # "None"
      BY <2>3 DEF Ledger!Withdraw, Ledger!Pending
    <3>2. j \in cancelled \/ Known(j)
      BY <3>1 DEF MsgInv, ToldKnown
    <3> QED BY <1>1, <1>2, <3>1, <3>2 DEF LedgerInv, Bounded, CancelledTold, Kept
  <2>4. CASE Ledger!Finish(j)
    <3> DEFINE line == <<j>> \o done[j.type]
               room == [Parse |-> ParsesKept, Play |-> PlaysKept][j.type]
               cut  == SubSeq(line, 1, IF Len(line) > room THEN room ELSE Len(line))
               left == {line[i] : i \in DOMAIN line \ 1 .. room}
    <3>1. /\ done' = [done EXCEPT ![j.type] = cut] /\ UNCHANGED cancelled
          /\ told' = [i \in Jobs |-> IF i \in left THEN "Archive"
                                     ELSE IF i = j THEN "Complete" ELSE told[i]]
      BY <2>4, Zenon DEF Ledger!Finish
    <3>2. room = Kept(j.type) /\ room \in Nat \ {0} /\ j.type \in Types
      BY LedgerNames, JobFacts
    <3>3. done[j.type] \in Seq(Jobs) /\ Len(done[j.type]) <= room
      BY <3>2 DEF TypeInv, ListType, LedgerInv, Bounded
    <3> HIDE DEF room
    <3>4. Len(cut) <= room
      BY <3>2, <3>3, HeadOfList, Zenon
    <3> HIDE DEF cut, left
    <3>5. Bounded'
      BY <3>1, <3>2, <3>4 DEF LedgerInv, Bounded, Kept, TypeInv, ListType
    <3>6. \A i \in Jobs : told[i] # "None" => told'[i] # "None"
      BY <3>1
    <3> QED BY <1>1, <1>2, <3>1, <3>5, <3>6 DEF LedgerInv, CancelledTold
  <2> QED BY <2>1, <2>2, <2>3, <2>4
<1> QED BY <1>3, <1>4

LEMMA LedgerBegins == Init => LedgerInv /\ Ledger!LedgerInit
<1> SUFFICES ASSUME Init PROVE LedgerInv /\ Ledger!LedgerInit
  OBVIOUS
<1>1. /\ told = [j \in Jobs |-> "None"] /\ done = [k \in {"Parse", "Play"} |-> <<>>]
      /\ cancelled = {}
  BY DEF Init
<1>2. DOMAIN [Parse |-> ParsesKept, Play |-> PlaysKept] = {"Parse", "Play"}
  OBVIOUS
<1>3. LedgerInv
  BY <1>1, SizesAssumption DEF LedgerInv, Bounded, CancelledTold, Types, Kept
<1> QED BY <1>1, <1>2, <1>3 DEF Ledger!LedgerInit

\* The scheduler implements JobLedger, for any number of engines, jobs and cancellations, and
\* for completed lists of any size: what assignJobs, the job threads and the two callers do to
\* the lists and tell of them is one step of a ledger, or none.
THEOREM SchedulerKeepsALedger == Spec => ClientsSeeALedger
<1>1. TypeInv /\ ListInv /\ MsgInv /\ LedgerInv /\ [Next]_vars
         => LedgerInv' /\ [Ledger!LedgerNext]_(Ledger!ledgerVars)
  BY StepIsLedgerStep, LedgerKeeps
     DEF LedgerStep, LedgerSame, Ledger!LedgerNext, Ledger!ledgerVars
<1> QED BY <1>1, LedgerBegins, MsgInit, MsgStep, ListAlways, PTL
        DEF Spec, ClientsSeeALedger, Ledger!LedgerSpec

-----------------------------------------------------------------------------
(* What the job lists, std::map and std::set over EngineJobID, may and may not *)
(* expect of its operator<.                                                    *)

IsJob(j) == IsParseID(j) \/ IsShotID(j)

\* Two ids of jobs that the program has submitted differ in their times.
Distinct(a, b) == a # b => a.time # b.time

LEMMA ParseIDType ==
    ASSUME NEW j, IsParseID(j)
    PROVE  j.type = "Parse" /\ j.time \in Nat /\ j.pid = j.time
BY DEF IsParseID, ParseID

LEMMA ShotIDType ==
    ASSUME NEW j, IsShotID(j)
    PROVE  j.type = "Play" /\ j.time \in Nat /\ j.pid \in Nat /\ j.pid < j.time
BY DEF IsShotID, ShotID

LEMMA JobType ==
    ASSUME NEW j, IsJob(j)
    PROVE  /\ j.time \in Nat /\ j.pid \in Nat /\ j.pid <= j.time
           /\ \/ j.type = "Parse" /\ j.pid = j.time
              \/ j.type = "Play" /\ j.pid < j.time
BY ParseIDType, ShotIDType DEF IsJob

\* No job comes before itself, and of two jobs one comes before the other: find() tells two
\* jobs in a list apart, whatever was submitted.
THEOREM OrderIsStrict ==
    ASSUME NEW a, NEW b, IsJob(a), IsJob(b), Distinct(a, b)
    PROVE  /\ ~Before(a, a)
           /\ ~(Before(a, b) /\ Before(b, a))
           /\ a # b => Before(a, b) \/ Before(b, a)
<1>1. ~Before(a, a)
  BY JobType DEF Before, PlayBefore
<1>2. ~(Before(a, b) /\ Before(b, a))
  BY JobType DEF Before, PlayBefore, MixedBefore
<1>3. ASSUME a # b PROVE Before(a, b) \/ Before(b, a)
  BY <1>3, JobType DEF Before, PlayBefore, MixedBefore, Distinct
<1> QED BY <1>1, <1>2, <1>3

\* Among parses, and among plays, the order is transitive: completedParseJobs and
\* completedPlayJobs have the oldest where they drop one.
THEOREM OrderIsTransitive ==
    ASSUME NEW a, NEW b, NEW c, IsJob(a), IsJob(b), IsJob(c),
           a.type = b.type, b.type = c.type, Before(a, b), Before(b, c)
    PROVE  Before(a, c)
BY JobType DEF Before, PlayBefore

\* In queuedJobs, where both kinds are, it is transitive as long as the parses of the plays
\* were submitted in the order in which their plays were.
THEOREM OrderOfQueueIsTransitive ==
    ASSUME NEW a, NEW b, NEW c, IsJob(a), IsJob(b), IsJob(c),
           \A x, y \in {a, b, c} :
               x.type = "Play" /\ y.type = "Play" /\ x.pid < y.pid => x.time < y.time,
           Before(a, b), Before(b, c)
    PROVE  Before(a, c)
<1>1. CASE a.type = b.type /\ b.type = c.type
  BY <1>1, OrderIsTransitive
<1>2. CASE a.type = "Parse" /\ ~(a.type = b.type /\ b.type = c.type)
  BY <1>2, JobType DEF Before, PlayBefore, MixedBefore
<1>3. CASE a.type = "Play" /\ ~(a.type = b.type /\ b.type = c.type)
  BY <1>3, JobType DEF Before, PlayBefore, MixedBefore
<1> QED BY <1>1, <1>2, <1>3, JobType

\* Otherwise it need not be: the second of two parses is played, a third is submitted, and
\* then the first is played.  The set that assignJobs copies the queue into, "sorted by
\* priority", has no least element then, and a lookup in the list may miss what is there.
THEOREM OrderHasCycle ==
    \E a, b, c : /\ IsJob(a) /\ IsJob(b) /\ IsJob(c)
                 /\ Before(a, b) /\ Before(b, c) /\ Before(c, a)
<1> DEFINE first  == ShotID(1, 5)
           second == ShotID(2, 3)
           third  == ParseID(4)
<1>1. IsJob(first) /\ IsJob(second) /\ IsJob(third)
  BY DEF IsJob, IsParseID, IsShotID
<1>2. Before(first, second) /\ Before(second, third) /\ Before(third, first)
  BY DEF Before, PlayBefore, MixedBefore, ParseID, ShotID
<1> QED BY <1>1, <1>2

=============================================================================
