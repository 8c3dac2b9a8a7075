-------------------------- MODULE SequenceScheduler --------------------------
(***************************************************************************)
(* The sequences of LocalEventEngineScheduler: a sequence is a table of    *)
(* entries, each parsed and then played, and in the Normal mode the        *)
(* sequence whose job came first has the engine until it is done.  One     *)
(* synchronous engine, as in the tests; an entry is submitted once.        *)
(* addSequence, addJob, closeSequence, cancelSequence, jobComplete and a   *)
(* round of assignJobs hold jobMutex, and each is one action; play takes   *)
(* it twice and marks the entry without it, which is three.  Of the parses *)
(* that are done the scheduler finds the last few.                         *)
(***************************************************************************)
EXTENDS JobOrder, FiniteSets, Sequences

CONSTANTS Sequences,     \* sequence ids, positive
          OpenSequences, \* the ones that are added Open: their table is empty
          Entries,       \* indices of the entries
          NOthers,       \* parses that belong to no sequence
          LastParses,    \* size of completedParseJobs (3 in the code)
          MaxCalls       \* calls of closeSequence, cancelSequence and
                         \* setSequenceSchedulingMode

SeqJobs == [seq : Sequences, entry : Entries, type : {"Parse", "Play"}]
OtherJobs == [seq : {0}, entry : 1 .. NOthers, type : {"Parse"}]
AllJobs == SeqJobs \cup OtherJobs
Nothing == [seq |-> 0, entry |-> 0, type |-> "Parse"]

VARIABLES
    queuedSeqs, currentSeq, completedSeqs, \* the sequence jobs, currentSeq 0 if there is none
    seqType,     \* Sequence::type
    seqStatus,   \* SequenceJob::jobStatus
    hasJobs,     \* SequenceJob::jobSubmitted
    entryStatus, \* SequenceResult::status, "none" where it has no key
    mode,        \* sequenceSchedulingMode
    jobList,     \* where a job is
    submitTime,  \* when it was submitted, 0 if it was not
    jobStatus,   \* its EngineJobStatus
    onEngine,    \* the job the engine runs, or Nothing
    enginePid,   \* the parse the engine holds, or Nothing
    keptParses,  \* completedParseJobs, the last one first
    marking,     \* the play whose submission has marked its entry, or Nothing
    parseFound,  \* that submission has found the parse
    mayMark,     \* submissions so far
    closed,      \* history: sequences closed or cancelled by a call
    began,       \* history: sequences one of whose jobs has been assigned
    modes        \* history: calls of setSequenceSchedulingMode

seqVars   == <<queuedSeqs, currentSeq, completedSeqs, seqType, seqStatus, hasJobs>>
sjobVars  == <<jobList, submitTime, jobStatus, onEngine, enginePid>>
sqHistory == <<closed, began, modes>>
subVars   == <<marking, parseFound, mayMark>>
sqVars    == <<seqVars, entryStatus, mode, sjobVars, keptParses, subVars, sqHistory>>

\* The sequence lists, the results and the jobs have the types of the code.
SequenceTypeOK ==
    /\ queuedSeqs \in SUBSET Sequences /\ completedSeqs \in SUBSET Sequences
    /\ currentSeq \in Sequences \cup {0}
    /\ seqType \in [Sequences -> {"Open", "Closed"}]
    /\ seqStatus \in [Sequences -> {"New", "Completed"}]
    /\ hasJobs \in [Sequences -> BOOLEAN]
    /\ entryStatus \in [Sequences \X Entries -> {"none", "New", "Completed", "Canceled"}]
    /\ mode \in {"Normal", "Interleaved"}
    /\ jobList \in [AllJobs -> {"none", "queued", "running", "done"}]
    /\ submitTime \in [AllJobs -> Nat] /\ mayMark \in Nat
    /\ jobStatus \in [AllJobs -> {"New", "Completed", "Canceled"}]
    /\ {onEngine, enginePid, marking} \subseteq AllJobs \cup {Nothing}
    /\ keptParses \in Seq(AllJobs) /\ parseFound \in BOOLEAN
    /\ closed \in SUBSET Sequences /\ began \in SUBSET Sequences /\ modes \in Nat

SequenceInit ==
    /\ queuedSeqs = {} /\ currentSeq = 0 /\ completedSeqs = {}
    /\ seqType = [s \in Sequences |-> IF s \in OpenSequences THEN "Open" ELSE "Closed"]
    /\ seqStatus = [s \in Sequences |-> "New"] /\ hasJobs = [s \in Sequences |-> FALSE]
    /\ entryStatus = [x \in Sequences \X Entries |-> "none"]
    /\ mode = "Normal" /\ jobList = [j \in AllJobs |-> "none"]
    /\ submitTime = [j \in AllJobs |-> 0] /\ jobStatus = [j \in AllJobs |-> "New"]
    /\ onEngine = Nothing /\ enginePid = Nothing /\ mayMark = 0
    /\ keptParses = <<>> /\ marking = Nothing /\ parseFound = FALSE
    /\ closed = {} /\ began = {} /\ modes = 0

-----------------------------------------------------------------------------
(* Helpers. *)

Table(s)   == IF s \in OpenSequences THEN {} ELSE Entries
Entry(j)   == <<j.seq, j.entry>>
ParseJob(j) == [j EXCEPT !.type = "Parse"]
Queued     == {j \in AllJobs : jobList[j] = "queued"}
Active(s)  == s \in queuedSeqs \cup {currentSeq}
Known(s)   == Active(s) \/ s \in completedSeqs

EngineJobID(j) == IF j.type = "Parse" THEN ParseID(submitTime[j])
                  ELSE ShotID(submitTime[ParseJob(j)], submitTime[j])

\* What a std::set of jobs begins with; where the order has a cycle it may be any of them.
Foremost(S) ==
    LET least == {j \in S : \A i \in S : ~Before(EngineJobID(i), EngineJobID(j))} IN
    IF least = {} THEN S ELSE least

\* isDone, which remembers that it once was.  Mutant: entries without a status do not count.
NoShotNew(s) == \A e \in Table(s) : entryStatus[s, e] # "New"
AllShotsDone(s) ==
    /\ Cardinality({e \in Entries : entryStatus[s, e] # "none"}) = Cardinality(Table(s))
    /\ \A e \in Table(s) : entryStatus[s, e] \in {"Completed", "Canceled"}
IsDone(s) == seqStatus[s] = "Completed" \/ (seqType[s] = "Closed" /\ AllShotsDone(s))

\* updateSequenceJobStatus: a parse tells only of its failure.
EntryAfter(j, st) ==
    IF j.seq # 0 /\ Known(j.seq) /\ (j.type = "Play" \/ st = "Canceled")
    THEN [entryStatus EXCEPT ![Entry(j)] = st] ELSE entryStatus

\* completedParseJobs.addAndRemove.
StillKept(j) == \E i \in 1 .. Len(keptParses) : keptParses[i] = j
KeptWith(j) ==
    IF j.type # "Parse" THEN keptParses
    ELSE IF Len(keptParses) < LastParses THEN <<j>> \o keptParses
    ELSE <<j>> \o SubSeq(keptParses, 1, LastParses - 1)

-----------------------------------------------------------------------------
(* The callers. *)

MayCall == Cardinality(closed) + modes < MaxCalls

AddSequence(s) ==
    /\ ~Known(s) /\ queuedSeqs' = queuedSeqs \cup {s}
    /\ UNCHANGED <<currentSeq, completedSeqs, seqType, seqStatus, hasJobs, entryStatus, mode,
                   sjobVars, keptParses, subVars, sqHistory>>

\* addJob and markSequenceJobSubmitted.
AddToQueue(j) ==
    /\ jobList' = [jobList EXCEPT ![j] = "queued"]
    /\ hasJobs' = IF j.seq # 0 /\ Active(j.seq) THEN [hasJobs EXCEPT ![j.seq] = TRUE] ELSE hasJobs
    /\ UNCHANGED <<queuedSeqs, currentSeq, completedSeqs, seqType, seqStatus, jobStatus,
                   onEngine, enginePid>>

SubmitParse(j) ==
    /\ j.type = "Parse" /\ submitTime[j] = 0 /\ (j.seq = 0 \/ Known(j.seq))
    /\ mayMark' = mayMark + 1 /\ submitTime' = [submitTime EXCEPT ![j] = mayMark']
    /\ AddToQueue(j)
    /\ UNCHANGED <<entryStatus, mode, keptParses, marking, parseFound, sqHistory>>

\* play(parseID): the entry is marked first, without jobMutex; then the parse is looked for,
\* and then the job is added.  The caller of a play whose parse is not found is told so, and
\* the entry stays marked.
MarkEntry(j) ==
    /\ j.type = "Play" /\ j.seq # 0 /\ marking = Nothing
    /\ submitTime[j] = 0 /\ submitTime[ParseJob(j)] # 0
    /\ marking' = j /\ mayMark' = mayMark + 1
    /\ submitTime' = [submitTime EXCEPT ![j] = mayMark']
    /\ entryStatus' = IF seqType[j.seq] = "Open" \/ j.entry \in Table(j.seq)
                      THEN [entryStatus EXCEPT ![Entry(j)] = "New"] ELSE entryStatus
    /\ UNCHANGED <<seqVars, mode, jobList, jobStatus, onEngine, enginePid, keptParses,
                   parseFound, sqHistory>>

FindParse ==
    LET parse == ParseJob(marking)
        found == jobList[parse] \in {"queued", "running"} \/ StillKept(parse) IN
    /\ marking # Nothing /\ ~parseFound
    /\ parseFound' = found /\ marking' = IF found THEN marking ELSE Nothing
    /\ UNCHANGED <<seqVars, entryStatus, mode, sjobVars, keptParses, mayMark, sqHistory>>

AddPlay ==
    /\ marking # Nothing /\ parseFound /\ AddToQueue(marking)
    /\ parseFound' = FALSE /\ marking' = Nothing
    /\ UNCHANGED <<submitTime, entryStatus, mode, keptParses, mayMark, sqHistory>>

PlayGoesOn == FindParse \/ AddPlay

\* closeSequence.
CloseSequence(s) ==
    /\ Active(s) /\ s \notin closed /\ MayCall
    /\ closed' = closed \cup {s}
    /\ seqStatus' = IF seqType[s] = "Open" \/ AllShotsDone(s)
                    THEN [seqStatus EXCEPT ![s] = "Completed"] ELSE seqStatus
    /\ seqType' = [seqType EXCEPT ![s] = "Closed"]
    /\ UNCHANGED <<queuedSeqs, currentSeq, completedSeqs, hasJobs, entryStatus, mode,
                   sjobVars, keptParses, subVars, began, modes>>

\* cancelSequence: the entries that are not done are cancelled, and of the current sequence
\* the job that runs.
CancelSequence(s) ==
    LET hit == s = currentSeq /\ onEngine.seq = s /\ jobList[onEngine] = "running"
        cancelled == [x \in Sequences \X Entries |->
            IF x[1] = s /\ x[2] \in Table(s) /\ entryStatus[x] \in {"none", "New"}
            THEN "Canceled" ELSE entryStatus[x]] IN
    /\ Active(s) /\ s \notin closed /\ MayCall
    /\ closed' = closed \cup {s}
    /\ seqType' = [seqType EXCEPT ![s] = "Closed"]
    /\ IF hit THEN /\ jobList' = [jobList EXCEPT ![onEngine] = "done"]
                   /\ jobStatus' = [jobStatus EXCEPT ![onEngine] = "Canceled"]
                   /\ keptParses' = KeptWith(onEngine)
                   /\ entryStatus' = [cancelled EXCEPT ![Entry(onEngine)] = "Canceled"]
       ELSE entryStatus' = cancelled /\ UNCHANGED <<jobList, jobStatus, keptParses>>
    /\ seqStatus' = IF AllShotsDone(s)' THEN [seqStatus EXCEPT ![s] = "Completed"] ELSE seqStatus
    /\ UNCHANGED <<queuedSeqs, currentSeq, completedSeqs, hasJobs, mode, submitTime,
                   onEngine, enginePid, subVars, began, modes>>

\* getStatus: to ask is to remember.
AskStatus(s) ==
    /\ Known(s) /\ IsDone(s) /\ seqStatus' = [seqStatus EXCEPT ![s] = "Completed"]
    /\ UNCHANGED <<queuedSeqs, currentSeq, completedSeqs, seqType, hasJobs, entryStatus, mode,
                   sjobVars, keptParses, subVars, sqHistory>>

\* setSequenceSchedulingMode, by the server's attribute.
SetMode ==
    /\ MayCall /\ modes' = modes + 1
    /\ mode' = IF mode = "Normal" THEN "Interleaved" ELSE "Normal"
    /\ UNCHANGED <<seqVars, entryStatus, sjobVars, keptParses, subVars, closed, began>>

-----------------------------------------------------------------------------
(* assignJobs. *)

\* refreshSequenceJobs and refreshQueuedSequenceJobs: what the current sequence may become.
\* A sequence that is done is completed, and the next is the one with the oldest job.
\* Mutants: one that has played everything submitted makes way; one that is done does not.
MakesWayNever(s) == ~hasJobs[s]
MakesWayIdle(s) == IsDone(s) \/ {j \in Queued : j.seq = s} = {}
MakesWay(s)     == IsDone(s) \/ ~hasJobs[s]

NextSeqs ==
    LET keeps == currentSeq # 0 /\ ~MakesWay(currentSeq)
        waiting == {s \in queuedSeqs \cup ({currentSeq} \ {0}) : ~IsDone(s)}
        first == Foremost({j \in Queued : j.seq \in waiting}) IN
    IF keeps \/ mode = "Interleaved" THEN {currentSeq}
    ELSE IF first = {} THEN {0} ELSE {j.seq : j \in first}

\* assignPlayJobs, assignParseJobs with one engine.  A play that comes before the one that
\* can be played is cancelled if its parse was, or if the engine holds another parse; one
\* that comes after it, if its parse was cancelled or is not found.
Playable(j) == enginePid = ParseJob(j)
Lost(j) == /\ jobList[ParseJob(j)] = "done"
           /\ (jobStatus[ParseJob(j)] = "Canceled" \/ ~Playable(j))

ParseGone(j) == jobStatus[ParseJob(j)] = "Canceled" \/ ~StillKept(ParseJob(j))

\* The jobs a round looks at.
Assignable(cur) ==
    IF mode = "Normal" /\ cur # 0 THEN {j \in Queued : j.seq = cur} ELSE Queued

Round ==
    /\ onEngine = Nothing /\ Queued # {}
    /\ \E cur \in NextSeqs :
        LET looked == queuedSeqs \cup ({currentSeq} \ {0})
            ended  == {s \in looked : IsDone(s) /\ (s = currentSeq => mode = "Normal")}
            able   == Assignable(cur)
            plays  == {j \in able : j.type = "Play"}
            chosen == Foremost({j \in plays : Playable(j)})
            ahead(j) == \A i \in chosen : Before(EngineJobID(j), EngineJobID(i))
            lost   == {j \in plays : Lost(j) /\ (ahead(j) \/ ParseGone(j))}
            next   == IF chosen # {} THEN chosen
                      ELSE Foremost({j \in able : j.type = "Parse"})
            drop(j) == j \in lost IN
        /\ currentSeq' = cur
        /\ completedSeqs' = completedSeqs \cup ended
        /\ queuedSeqs' = looked \ (ended \cup {cur} \cup
                                   (IF mode = "Interleaved" THEN {currentSeq} ELSE {}))
        /\ seqStatus' = [s \in Sequences |-> IF s \in ended THEN "Completed" ELSE seqStatus[s]]
        /\ entryStatus' = [x \in Sequences \X Entries |->
              IF \E j \in lost : Entry(j) = x THEN "Canceled" ELSE entryStatus[x]]
        /\ jobStatus' = [j \in AllJobs |-> IF drop(j) THEN "Canceled" ELSE jobStatus[j]]
        /\ \/ /\ next = {} /\ jobList' = [j \in AllJobs |-> IF drop(j) THEN "done" ELSE jobList[j]]
              /\ UNCHANGED <<onEngine, enginePid, began, modes>>
           \/ \E n \in next :
              /\ jobList' = [j \in AllJobs |-> IF drop(j) THEN "done"
                                               ELSE IF j = n THEN "running" ELSE jobList[j]]
              /\ onEngine' = n /\ enginePid' = ParseJob(n)
              /\ began' = IF n.seq = 0 THEN began ELSE began \cup {n.seq}
    /\ UNCHANGED <<seqType, hasJobs, mode, submitTime, keptParses, subVars, closed, modes>>

\* jobComplete, jobCanceled.  A parse that fails leaves the engine without one, and so may
\* a play.  A job that was cancelled meanwhile ends as cancelled.
JobEnds ==
    /\ onEngine # Nothing /\ onEngine' = Nothing
    /\ \E st \in IF jobList[onEngine] = "running" THEN {"Completed", "Canceled"}
                  ELSE {"Canceled"} :
        /\ enginePid' \in CASE st = "Completed" -> {enginePid}
                            [] st = "Canceled" /\ onEngine.type = "Play" -> {enginePid, Nothing}
                            [] OTHER -> {Nothing}
        /\ IF jobList[onEngine] = "running"
           THEN /\ jobList' = [jobList EXCEPT ![onEngine] = "done"]
                /\ jobStatus' = [jobStatus EXCEPT ![onEngine] = st]
                /\ entryStatus' = EntryAfter(onEngine, st)
                /\ keptParses' = KeptWith(onEngine)
           ELSE UNCHANGED <<jobList, jobStatus, entryStatus, keptParses>>
    /\ UNCHANGED <<seqVars, mode, submitTime, subVars, sqHistory>>

SequenceNext ==
    \/ \E s \in Sequences : AddSequence(s) \/ CloseSequence(s) \/ CancelSequence(s)
                            \/ AskStatus(s)
    \/ \E j \in AllJobs : SubmitParse(j) \/ MarkEntry(j)
    \/ FindParse \/ AddPlay \/ SetMode \/ Round \/ JobEnds

SequenceSpec == SequenceInit /\ [][SequenceNext]_sqVars

\* The scheduler runs, and jobs and calls come to an end.
SequenceFairSpec ==
    SequenceSpec /\ WF_sqVars(Round) /\ WF_sqVars(JobEnds) /\ WF_sqVars(PlayGoesOn)

-----------------------------------------------------------------------------
(* Properties. *)

\* In the Normal mode sequences do not interleave: when two have begun, one is done.
SequencesDoNotInterleave ==
    modes = 0 => \A s, t \in began : s # t => IsDone(s) \/ IsDone(t)

\* A sequence nobody closed or cancelled is in the completed list only when each of its
\* entries has been played, or its parse or play has been cancelled.
CompletedMeansPlayed ==
    \A s \in completedSeqs \ closed : \A e \in Entries :
        \E j \in SeqJobs : Entry(j) = <<s, e>> /\ jobList[j] = "done"
                           /\ (j.type = "Play" \/ jobStatus[j] = "Canceled")

\* Why a sequence is never done.  Nobody closed it; it was open and had an entry when it was
\* cancelled, and isDone compares the number of entries with the empty table; an entry of its
\* table has not been played, because nobody submitted it, or because its parse was not found.
LeftOpen(s)      == s \in OpenSequences \ closed
CancelledOpen(s) == /\ s \in OpenSequences \cap closed /\ seqStatus[s] = "New"
                    /\ \E e \in Entries : entryStatus[s, e] # "none"
Submitted(s, e)  == \E j \in SeqJobs : Entry(j) = <<s, e>> /\ j.type = "Play" /\ submitTime[j] # 0
NeverPlayed(s)   == \E e \in Table(s) : entryStatus[s, e] = "none" /\ ~Submitted(s, e)
ParseNotFound(s) == \E e \in Table(s) :
    /\ entryStatus[s, e] = "New" /\ Entry(marking) # <<s, e>>
    /\ \A j \in SeqJobs : Entry(j) = <<s, e>> /\ j.type = "Play" => jobList[j] = "none"

\* The jobs that wait get their turn, unless the current sequence is never done, for one of
\* these four reasons: it keeps the engine for itself while it has no job to run.
QueuedJobsRun ==
    []<>(\A j \in Queued :
            /\ mode = "Normal" /\ currentSeq \notin {0, j.seq}
            /\ \/ LeftOpen(currentSeq) \/ CancelledOpen(currentSeq)
               \/ NeverPlayed(currentSeq) \/ ParseNotFound(currentSeq))

=============================================================================
