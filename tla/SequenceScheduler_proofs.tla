---------------------- MODULE SequenceScheduler_proofs ----------------------
(***************************************************************************)
(* Proofs about SequenceScheduler, for any sequences, entries and jobs     *)
(* that belong to none: the variables keep their types, in the Normal mode *)
(* sequences do not interleave, and a sequence nobody closed is completed  *)
(* only when all its entries have been played or their jobs were cancelled.*)
(***************************************************************************)
EXTENDS SequenceScheduler, TLAPS

\* Sequence ids are positive, 0 is no sequence; entries are numbered; a parse that has just
\* ended is found.
SequenceIDs ==
    /\ Sequences \subseteq Nat \ {0} /\ OpenSequences \subseteq Sequences
    /\ Entries \subseteq Nat /\ NOthers \in Nat /\ LastParses \in Nat \ {0}

-----------------------------------------------------------------------------
(* The invariants. *)

\* What has a submission time is known to the lists, what is in a list has one, and the play
\* that is being submitted is in none yet.
JobsAreKnown ==
    /\ \A j \in AllJobs : j.seq # 0 /\ submitTime[j] # 0 => Known(j.seq)
    /\ \A j \in AllJobs : jobList[j] # "none" => submitTime[j] # 0
    /\ marking # Nothing => jobList[marking] = "none" /\ submitTime[marking] # 0

\* A sequence in the completed list was found done, and one with a job in the queue keeps the
\* engine, unless it was.
Completed(s) == seqStatus[s] = "Completed"
ListsAreTrue ==
    /\ \A s \in completedSeqs : Completed(s)
    /\ \A j \in Queued : j.seq # 0 => hasJobs[j.seq] \/ Completed(j.seq)

\* In the Normal mode a sequence that has begun and was not found done has the engine.
BegunIsCurrent ==
    /\ modes = 0 => mode = "Normal"
    /\ modes = 0 => \A s \in began : Completed(s) \/ (s = currentSeq /\ hasJobs[s])

NoInterleaving == JobsAreKnown /\ ListsAreTrue /\ BegunIsCurrent

\* The job that tells that an entry is done: a play that ended, or a parse that was cancelled.
Witnesses(j, s, e) ==
    /\ Entry(j) = <<s, e>> /\ jobList[j] = "done"
    /\ j.type = "Play" \/ jobStatus[j] = "Canceled"
Played(s, e) == \E j \in SeqJobs : Witnesses(j, s, e)

\* Of a sequence that nobody closed or cancelled: it is still what it was, an entry's result
\* comes from a job, and it was found done with all its entries.
UnclosedIsPlayed ==
    \A s \in Sequences \ closed :
        /\ seqType[s] = IF s \in OpenSequences THEN "Open" ELSE "Closed"
        /\ \A e \in Entries : entryStatus[s, e] \in {"Completed", "Canceled"} => Played(s, e)
        /\ Completed(s) => \A e \in Entries : Played(s, e)

PlayedInv == JobsAreKnown /\ ListsAreTrue /\ UnclosedIsPlayed

-----------------------------------------------------------------------------
(* Lemmas about jobs and what a round picks. *)

\* A job is of a sequence, with an entry of it, or a parse that belongs to none.
LEMMA JobFacts ==
  ASSUME SequenceIDs
  PROVE  /\ Nothing \notin AllJobs /\ 0 \notin Sequences /\ Nothing.seq = 0
         /\ \A j \in SeqJobs : /\ j \in AllJobs /\ j.seq \in Sequences /\ j.entry \in Entries
                               /\ Entry(j) \in Sequences \X Entries
                               /\ j.type \in {"Parse", "Play"}
         /\ \A j \in AllJobs : /\ j.seq \in Sequences \cup {0}
                               /\ j.seq # 0 => j \in SeqJobs
                               /\ j.type = "Play" => j \in SeqJobs
                               /\ ParseJob(j) \in AllJobs /\ ParseJob(j).seq = j.seq
<1> USE DEF SequenceIDs, SeqJobs, OtherJobs, AllJobs, Nothing, Entry, ParseJob
<1>1. Nothing \notin AllJobs /\ 0 \notin Sequences /\ Nothing.seq = 0
  OBVIOUS
<1>2. ASSUME NEW j \in SeqJobs
      PROVE  /\ j \in AllJobs /\ j.seq \in Sequences /\ j.entry \in Entries
             /\ Entry(j) \in Sequences \X Entries /\ j.type \in {"Parse", "Play"}
  OBVIOUS
<1>3. ASSUME NEW j \in AllJobs
      PROVE  /\ j.seq \in Sequences \cup {0} /\ j.seq # 0 => j \in SeqJobs
             /\ j.type = "Play" => j \in SeqJobs
             /\ ParseJob(j) \in AllJobs /\ ParseJob(j).seq = j.seq
  <2>1. CASE j \in SeqJobs
    <3>1. ParseJob(j) \in SeqJobs BY <2>1
    <3> QED BY <2>1, <3>1
  <2>2. CASE j \in OtherJobs
    <3>1. ParseJob(j) \in OtherJobs BY <2>2
    <3> QED BY <2>2, <3>1
  <2> QED BY <2>1, <2>2
<1> QED BY <1>1, <1>2, <1>3

\* The first of some jobs is one of them.
LEMMA ForemostIsOne ==
  ASSUME NEW S, NEW j \in Foremost(S)
  PROVE  j \in S
BY DEF Foremost

\* The sequences that a round looks at, and those it finds done.
Looked == queuedSeqs \cup ({currentSeq} \ {0})
Ended  == {s \in Looked : IsDone(s) /\ (s = currentSeq => mode = "Normal")}

\* What a round does: it drops some plays, and gives the engine one of the jobs that it looks
\* at, or none.
RoundDoes(cur, lost) ==
    /\ currentSeq' = cur /\ completedSeqs' = completedSeqs \cup Ended
    /\ queuedSeqs' = Looked \ (Ended \cup {cur} \cup
                               (IF mode = "Interleaved" THEN {currentSeq} ELSE {}))
    /\ seqStatus' = [s \in Sequences |-> IF s \in Ended THEN "Completed" ELSE seqStatus[s]]
    /\ entryStatus' = [x \in Sequences \X Entries |->
          IF \E j \in lost : Entry(j) = x THEN "Canceled" ELSE entryStatus[x]]
    /\ jobStatus' = [j \in AllJobs |-> IF j \in lost THEN "Canceled" ELSE jobStatus[j]]
    /\ \/ /\ jobList' = [j \in AllJobs |-> IF j \in lost THEN "done" ELSE jobList[j]]
          /\ UNCHANGED <<onEngine, enginePid, began>>
       \/ \E n \in Assignable(cur) :
          /\ jobList' = [j \in AllJobs |-> IF j \in lost THEN "done"
                                           ELSE IF j = n THEN "running" ELSE jobList[j]]
          /\ onEngine' = n /\ enginePid' = ParseJob(n)
          /\ began' = IF n.seq = 0 THEN began ELSE began \cup {n.seq}
    /\ UNCHANGED <<seqType, hasJobs, mode, submitTime, keptParses, subVars, closed, modes>>

\* The plays that a round drops, and the jobs that it may give the engine.
PlaysOf(cur) == {j \in Assignable(cur) : j.type = "Play"}
ChosenOf(cur) == Foremost({j \in PlaysOf(cur) : Playable(j)})
LostOf(cur) ==
    {j \in PlaysOf(cur) :
        Lost(j) /\ (\/ \A i \in ChosenOf(cur) : Before(EngineJobID(j), EngineJobID(i))
                    \/ ParseGone(j))}
NextOf(cur) ==
    IF ChosenOf(cur) # {} THEN ChosenOf(cur)
    ELSE Foremost({j \in Assignable(cur) : j.type = "Parse"})

\* A round does what RoundDoes says.
LEMMA RoundIs ==
  ASSUME Round
  PROVE  \E cur \in NextSeqs : \E lost \in SUBSET {j \in Queued : j.type = "Play"} :
            RoundDoes(cur, lost)
<1>1. \A cur : NextOf(cur) \subseteq Assignable(cur) /\ Assignable(cur) \subseteq Queued
  <2> SUFFICES ASSUME NEW cur
               PROVE  NextOf(cur) \subseteq Assignable(cur) /\ Assignable(cur) \subseteq Queued
    OBVIOUS
  <2>1. ChosenOf(cur) \subseteq PlaysOf(cur) BY ForemostIsOne DEF ChosenOf
  <2>2. Foremost({j \in Assignable(cur) : j.type = "Parse"}) \subseteq Assignable(cur)
    BY ForemostIsOne
  <2> QED BY <2>1, <2>2 DEF Assignable, NextOf, PlaysOf
<1>2. \A cur : LostOf(cur) \in SUBSET {j \in Queued : j.type = "Play"}
  BY <1>1 DEF LostOf, PlaysOf
<1>3. \E cur \in NextSeqs : RoundDoes(cur, LostOf(cur))
  BY <1>1, ZenonT(30) DEF Round, RoundDoes, Looked, Ended, NextOf, LostOf, PlaysOf, ChosenOf
<1> QED BY <1>2, <1>3

-----------------------------------------------------------------------------
(* Types. *)

SeqTypes ==
    /\ queuedSeqs \in SUBSET Sequences /\ completedSeqs \in SUBSET Sequences
    /\ currentSeq \in Sequences \cup {0}
    /\ seqType \in [Sequences -> {"Open", "Closed"}]
    /\ seqStatus \in [Sequences -> {"New", "Completed"}]
    /\ hasJobs \in [Sequences -> BOOLEAN]
    /\ mode \in {"Normal", "Interleaved"}
    /\ closed \in SUBSET Sequences /\ began \in SUBSET Sequences /\ modes \in Nat
SeqJobTypes ==
    /\ entryStatus \in [Sequences \X Entries -> {"none", "New", "Completed", "Canceled"}]
    /\ jobList \in [AllJobs -> {"none", "queued", "running", "done"}]
    /\ submitTime \in [AllJobs -> Nat] /\ mayMark \in Nat
    /\ jobStatus \in [AllJobs -> {"New", "Completed", "Canceled"}]
    /\ onEngine \in AllJobs \cup {Nothing} /\ enginePid \in AllJobs \cup {Nothing}
    /\ marking \in AllJobs \cup {Nothing}
    /\ keptParses \in Seq(AllJobs) /\ parseFound \in BOOLEAN

\* SequenceTypeOK is the two of them.
LEMMA SequenceTypeParts == SequenceTypeOK <=> SeqTypes /\ SeqJobTypes
BY DEF SequenceTypeOK, SeqTypes, SeqJobTypes

\* The list of the parses that are found is one of jobs.
LEMMA KeptTyped ==
  ASSUME SequenceIDs, SeqJobTypes, NEW j \in AllJobs
  PROVE  KeptWith(j) \in Seq(AllJobs)
<1> DEFINE short == SubSeq(keptParses, 1, LastParses - 1)
<1>1. keptParses \in Seq(AllJobs) /\ LastParses \in Nat \ {0} /\ <<j>> \in Seq(AllJobs)
  BY DEF SeqJobTypes, SequenceIDs
<1>2. CASE Len(keptParses) < LastParses
  BY <1>1, <1>2 DEF KeptWith
<1>3. CASE ~(Len(keptParses) < LastParses)
  <2>1. LastParses - 1 \in Nat /\ LastParses - 1 <= Len(keptParses)
    BY <1>1, <1>3
  <2>2. short \in Seq(AllJobs)
    BY <1>1, <2>1
  <2> HIDE DEF short
  <2>3. <<j>> \o short \in Seq(AllJobs)
    BY <1>1, <2>2
  <2> QED BY <1>1, <1>3, <2>3 DEF KeptWith, short
<1> QED BY <1>2, <1>3

\* The callers' steps keep the types.
LEMMA SequenceCallsTyped ==
  ASSUME SequenceIDs, SeqTypes, SeqJobTypes, NEW s \in Sequences,
         AddSequence(s) \/ CloseSequence(s) \/ CancelSequence(s) \/ AskStatus(s)
  PROVE  SeqTypes' /\ SeqJobTypes'
<1> USE DEF SeqTypes, SeqJobTypes
<1>1. CASE AddSequence(s)
  BY <1>1 DEF AddSequence, sjobVars, subVars, sqHistory
<1>2. CASE CloseSequence(s)
  <2>1. seqStatus' \in [Sequences -> {"New", "Completed"}]
    BY <1>2 DEF CloseSequence
  <2> QED BY <1>2, <2>1 DEF CloseSequence, sjobVars, subVars
<1>3. CASE CancelSequence(s)
  <2> DEFINE cancelled == [x \in Sequences \X Entries |->
            IF x[1] = s /\ x[2] \in Table(s) /\ entryStatus[x] \in {"none", "New"}
            THEN "Canceled" ELSE entryStatus[x]]
             hit == s = currentSeq /\ onEngine.seq = s /\ jobList[onEngine] = "running"
  <2>1. cancelled \in [Sequences \X Entries -> {"none", "New", "Completed", "Canceled"}]
    OBVIOUS
  <2>2. hit => onEngine \in AllJobs
    BY JobFacts
  <2>3. /\ closed' = closed \cup {s} /\ seqType' = [seqType EXCEPT ![s] = "Closed"]
        /\ seqStatus' \in {seqStatus, [seqStatus EXCEPT ![s] = "Completed"]}
        /\ UNCHANGED <<queuedSeqs, currentSeq, completedSeqs, hasJobs, mode, submitTime,
                       onEngine, enginePid, subVars, began, modes>>
    BY <1>3, Zenon DEF CancelSequence
  <2>4. CASE hit
    <3>1. /\ jobList' = [jobList EXCEPT ![onEngine] = "done"]
          /\ jobStatus' = [jobStatus EXCEPT ![onEngine] = "Canceled"]
          /\ entryStatus' = [cancelled EXCEPT ![Entry(onEngine)] = "Canceled"]
          /\ keptParses' = KeptWith(onEngine)
      BY <1>3, <2>4, Zenon DEF CancelSequence
    <3>2. KeptWith(onEngine) \in Seq(AllJobs) BY <2>2, <2>4, KeptTyped
    <3> HIDE DEF cancelled
    <3> QED BY <2>1, <2>2, <2>3, <2>4, <3>1, <3>2 DEF subVars
  <2>5. CASE ~hit
    <3>1. entryStatus' = cancelled /\ UNCHANGED <<jobList, jobStatus, keptParses>>
      BY <1>3, <2>5, Zenon DEF CancelSequence
    <3> HIDE DEF cancelled
    <3> QED BY <2>1, <2>3, <3>1 DEF subVars
  <2> QED BY <2>4, <2>5
<1>4. CASE AskStatus(s)
  BY <1>4 DEF AskStatus, sjobVars, subVars, sqHistory
<1> QED BY <1>1, <1>2, <1>3, <1>4

\* To add a job is to put it in the queue.
LEMMA AddToQueueTyped ==
  ASSUME SequenceIDs, SeqTypes, SeqJobTypes, NEW j \in AllJobs, AddToQueue(j)
  PROVE  /\ jobList' \in [AllJobs -> {"none", "queued", "running", "done"}]
         /\ hasJobs' \in [Sequences -> BOOLEAN]
         /\ UNCHANGED <<queuedSeqs, currentSeq, completedSeqs, seqType, seqStatus, jobStatus,
                        onEngine, enginePid>>
BY DEF AddToQueue, SeqTypes, SeqJobTypes

\* So do the submissions.
LEMMA SubmissionsTyped ==
  ASSUME SequenceIDs, SeqTypes, SeqJobTypes, NEW j \in AllJobs,
         SubmitParse(j) \/ MarkEntry(j) \/ PlayGoesOn
  PROVE  SeqTypes' /\ SeqJobTypes'
<1> USE DEF SeqTypes, SeqJobTypes
<1>1. CASE SubmitParse(j)
  <2>1. AddToQueue(j) /\ submitTime' \in [AllJobs -> Nat] /\ mayMark' \in Nat
        /\ UNCHANGED <<entryStatus, mode, keptParses, marking, parseFound, closed, began, modes>>
    BY <1>1 DEF SubmitParse, sqHistory
  <2> QED BY <2>1, AddToQueueTyped
<1>2. CASE MarkEntry(j)
  <2>1. /\ marking' = j /\ submitTime' \in [AllJobs -> Nat] /\ mayMark' \in Nat
        /\ UNCHANGED <<seqVars, mode, jobList, jobStatus, onEngine, enginePid, keptParses,
                       parseFound, sqHistory>>
    BY <1>2 DEF MarkEntry
  <2>2. entryStatus' \in [Sequences \X Entries -> {"none", "New", "Completed", "Canceled"}]
    BY <1>2 DEF MarkEntry
  <2> QED BY <2>1, <2>2 DEF seqVars, sqHistory
<1>3. CASE AddPlay
  <2>1. marking \in AllJobs /\ marking' = Nothing /\ AddToQueue(marking)
        /\ parseFound' = FALSE
        /\ UNCHANGED <<submitTime, entryStatus, mode, keptParses, mayMark, closed, began, modes>>
    BY <1>3 DEF AddPlay, sqHistory
  <2> QED BY <2>1, AddToQueueTyped
<1>4. CASE FindParse
  <2>1. /\ parseFound' \in BOOLEAN /\ marking' \in {marking, Nothing}
        /\ UNCHANGED <<seqVars, entryStatus, mode, sjobVars, keptParses, mayMark, sqHistory>>
    BY <1>4 DEF FindParse
  <2> QED BY <2>1 DEF seqVars, sjobVars, sqHistory
<1> QED BY <1>1, <1>2, <1>3, <1>4 DEF PlayGoesOn

\* The sequence that a round chooses is one of the lists, or none.
LEMMA NextSeqsTyped ==
  ASSUME SequenceIDs, SeqTypes, SeqJobTypes, NEW cur \in NextSeqs
  PROVE  cur \in Sequences \cup {0}
<1> DEFINE waiting == {s \in queuedSeqs \cup ({currentSeq} \ {0}) : ~IsDone(s)}
           first == Foremost({j \in Queued : j.seq \in waiting})
<1>1. waiting \subseteq Sequences
  BY DEF SeqTypes
<1>2. \A j \in first : j.seq \in waiting
  BY ForemostIsOne
<1>3. cur \in {currentSeq} \cup {0} \cup {j.seq : j \in first}
  BY DEF NextSeqs
<1> QED BY <1>1, <1>2, <1>3 DEF SeqTypes

\* And so do the scheduler's.
LEMMA RoundTyped ==
  ASSUME SequenceIDs, SeqTypes, SeqJobTypes, Round
  PROVE  SeqTypes' /\ SeqJobTypes'
<1>1. PICK cur \in NextSeqs, lost \in SUBSET {j \in Queued : j.type = "Play"} :
        RoundDoes(cur, lost)
  BY RoundIs
<1>2. cur \in Sequences \cup {0}
  BY NextSeqsTyped
<1>3. \A n \in Assignable(cur) : n \in AllJobs /\ ParseJob(n) \in AllJobs
                                 /\ n.seq \in Sequences \cup {0}
  BY JobFacts DEF Assignable, Queued
<1>4. Looked \subseteq Sequences /\ Ended \subseteq Sequences
  BY DEF Looked, Ended, SeqTypes
<1>5. /\ currentSeq' \in Sequences \cup {0} /\ completedSeqs' \in SUBSET Sequences
      /\ queuedSeqs' \in SUBSET Sequences
      /\ seqStatus' \in [Sequences -> {"New", "Completed"}]
      /\ UNCHANGED <<seqType, hasJobs, mode, closed, modes>>
  BY <1>1, <1>2, <1>4 DEF RoundDoes, SeqTypes
<1>6. /\ entryStatus' \in [Sequences \X Entries -> {"none", "New", "Completed", "Canceled"}]
      /\ jobStatus' \in [AllJobs -> {"New", "Completed", "Canceled"}]
      /\ UNCHANGED <<submitTime, keptParses, marking, parseFound, mayMark>>
  BY <1>1 DEF RoundDoes, SeqJobTypes, subVars
<1>7. /\ jobList' \in [AllJobs -> {"none", "queued", "running", "done"}]
      /\ onEngine' \in AllJobs \cup {Nothing} /\ enginePid' \in AllJobs \cup {Nothing}
      /\ began' \in SUBSET Sequences
  BY <1>1, <1>3 DEF RoundDoes, SeqJobTypes, SeqTypes
<1> QED BY <1>5, <1>6, <1>7 DEF SeqTypes, SeqJobTypes

\* What the end of a job does.
JobEndsAs(st) ==
    /\ onEngine # Nothing /\ onEngine' = Nothing /\ enginePid' \in {enginePid, Nothing}
    /\ IF jobList[onEngine] = "running"
       THEN /\ jobList' = [jobList EXCEPT ![onEngine] = "done"]
            /\ jobStatus' = [jobStatus EXCEPT ![onEngine] = st]
            /\ entryStatus' = EntryAfter(onEngine, st) /\ keptParses' = KeptWith(onEngine)
       ELSE UNCHANGED <<jobList, jobStatus, entryStatus, keptParses>>
    /\ UNCHANGED <<seqVars, mode, submitTime, subVars, sqHistory>>

\* A job ends as completed or as cancelled.
LEMMA JobEndsIs ==
  ASSUME JobEnds
  PROVE  \E st \in {"Completed", "Canceled"} : JobEndsAs(st)
<1>1. PICK st \in IF jobList[onEngine] = "running" THEN {"Completed", "Canceled"}
                  ELSE {"Canceled"} :
        /\ enginePid' \in CASE st = "Completed" -> {enginePid}
                            [] st = "Canceled" /\ onEngine.type = "Play" -> {enginePid, Nothing}
                            [] OTHER -> {Nothing}
        /\ IF jobList[onEngine] = "running"
           THEN /\ jobList' = [jobList EXCEPT ![onEngine] = "done"]
                /\ jobStatus' = [jobStatus EXCEPT ![onEngine] = st]
                /\ entryStatus' = EntryAfter(onEngine, st) /\ keptParses' = KeptWith(onEngine)
           ELSE UNCHANGED <<jobList, jobStatus, entryStatus, keptParses>>
  BY DEF JobEnds
<1>2. st \in {"Completed", "Canceled"} BY <1>1
<1>3. enginePid' \in {enginePid, Nothing} BY <1>1, <1>2
<1> QED BY <1>1, <1>2, <1>3, Zenon DEF JobEnds, JobEndsAs

\* The types, at the end of a job.
LEMMA JobEndsTyped ==
  ASSUME SequenceIDs, SeqTypes, SeqJobTypes, JobEnds
  PROVE  SeqTypes' /\ SeqJobTypes'
<1>1. PICK st \in {"Completed", "Canceled"} : JobEndsAs(st)
  BY JobEndsIs
<1>2. onEngine \in AllJobs
  BY <1>1 DEF JobEndsAs, SeqJobTypes
<1>3. EntryAfter(onEngine, st)
        \in [Sequences \X Entries -> {"none", "New", "Completed", "Canceled"}]
  BY <1>2, JobFacts DEF EntryAfter, SeqJobTypes
<1>4. SeqTypes'
  BY <1>1 DEF JobEndsAs, seqVars, sqHistory, SeqTypes
<1>5. SeqJobTypes'
  <2>1. KeptWith(onEngine) \in Seq(AllJobs) BY <1>2, KeptTyped
  <2> QED BY <1>1, <1>2, <1>3, <2>1 DEF JobEndsAs, SeqJobTypes, subVars
<1> QED BY <1>4, <1>5

\* The sequence lists, the results and the jobs keep the types of the code (SequenceTypeOK).
THEOREM SequenceTypeCorrect ==
  ASSUME SequenceIDs
  PROVE  SequenceSpec => []SequenceTypeOK
<1>1. SequenceInit => SeqTypes /\ SeqJobTypes
  <2> SUFFICES ASSUME SequenceInit PROVE SeqTypes /\ SeqJobTypes
    OBVIOUS
  <2>1. SeqTypes
    BY DEF SequenceInit, SeqTypes
  <2>2. keptParses \in Seq(AllJobs)
    BY DEF SequenceInit
  <2>3. /\ submitTime \in [AllJobs -> Nat]
        /\ entryStatus \in [Sequences \X Entries -> {"none", "New", "Completed", "Canceled"}]
    BY DEF SequenceInit
  <2> QED BY <2>1, <2>2, <2>3 DEF SequenceInit, SeqJobTypes
<1>2. SeqTypes /\ SeqJobTypes /\ [SequenceNext]_sqVars => (SeqTypes /\ SeqJobTypes)'
  <2> SUFFICES ASSUME SeqTypes, SeqJobTypes, [SequenceNext]_sqVars
               PROVE  (SeqTypes /\ SeqJobTypes)'
    OBVIOUS
  <2>1. CASE UNCHANGED sqVars
    BY <2>1 DEF sqVars, seqVars, sjobVars, subVars, sqHistory, SeqTypes, SeqJobTypes
  <2>2. ASSUME SetMode PROVE (SeqTypes /\ SeqJobTypes)'
    BY <2>2 DEF SetMode, seqVars, sjobVars, subVars, SeqTypes, SeqJobTypes
  <2>3. ASSUME PlayGoesOn PROVE (SeqTypes /\ SeqJobTypes)'
    <3>1. marking \in AllJobs BY <2>3 DEF PlayGoesOn, FindParse, AddPlay, SeqJobTypes
    <3> QED BY <2>3, <3>1, SubmissionsTyped
  <2> QED BY <2>1, <2>2, <2>3, SequenceCallsTyped, SubmissionsTyped, RoundTyped, JobEndsTyped
         DEF SequenceNext, PlayGoesOn
<1> QED BY <1>1, <1>2, SequenceTypeParts, PTL DEF SequenceSpec

-----------------------------------------------------------------------------
(* What is known of the jobs. *)

\* A sequence that was known stays known, and one that was found done stays so.
LEMMA KnownStays ==
  ASSUME SequenceIDs, SeqTypes, SeqJobTypes, [SequenceNext]_sqVars, NEW s \in Sequences
  PROVE  /\ Known(s) => Known(s)'
         /\ Completed(s) => Completed(s)'
<1> USE DEF Known, Active, Completed
<1>1. ASSUME NEW t \in Sequences,
             AddSequence(t) \/ CloseSequence(t) \/ CancelSequence(t) \/ AskStatus(t)
      PROVE  (Known(s) => Known(s)') /\ (Completed(s) => Completed(s)')
  BY <1>1 DEF AddSequence, CloseSequence, CancelSequence, AskStatus, SeqTypes
<1>2. ASSUME NEW j \in AllJobs, SubmitParse(j) \/ MarkEntry(j)
      PROVE  (Known(s) => Known(s)') /\ (Completed(s) => Completed(s)')
  BY <1>2 DEF SubmitParse, AddToQueue, MarkEntry, seqVars
<1>3. CASE FindParse \/ AddPlay \/ SetMode \/ JobEnds \/ UNCHANGED sqVars
  BY <1>3 DEF FindParse, AddPlay, AddToQueue, SetMode, JobEnds, seqVars, sqVars
<1>4. CASE Round
  <2>1. PICK cur \in NextSeqs, lost \in SUBSET {j \in Queued : j.type = "Play"} :
          RoundDoes(cur, lost)
    BY <1>4, RoundIs
  <2>2. mode = "Interleaved" => cur = currentSeq
    BY DEF NextSeqs
  <2>3. Known(s) => Known(s)'
    <3>1. s # 0 BY JobFacts
    <3> QED BY <2>1, <2>2, <3>1 DEF RoundDoes, Looked
  <2>4. Completed(s) => Completed(s)'
    BY <2>1 DEF RoundDoes
  <2> QED BY <2>3, <2>4
<1> QED BY <1>1, <1>2, <1>3, <1>4 DEF SequenceNext

\* The steps that touch neither the job lists nor the submissions.
LEMMA JobsRestKnown ==
  ASSUME SequenceIDs, SeqTypes, SeqJobTypes, JobsAreKnown, [SequenceNext]_sqVars,
         UNCHANGED <<jobList, submitTime, marking>>
  PROVE  JobsAreKnown'
<1>1. \A j \in AllJobs : j.seq # 0 => j.seq \in Sequences
  BY JobFacts
<1> QED BY <1>1, KnownStays DEF JobsAreKnown

\* A step that moves jobs in the lists, of those that are in one already.
LEMMA JobsMoveKnown ==
  ASSUME SequenceIDs, SeqTypes, SeqJobTypes, JobsAreKnown, [SequenceNext]_sqVars,
         UNCHANGED <<submitTime, marking>>,
         \A j \in AllJobs : jobList[j] = "none" => jobList'[j] = "none"
  PROVE  JobsAreKnown'
<1>1. \A j \in AllJobs : j.seq # 0 => j.seq \in Sequences
  BY JobFacts
<1>2. marking # Nothing => marking \in AllJobs
  BY DEF SeqJobTypes
<1> QED BY <1>1, <1>2, KnownStays DEF JobsAreKnown

\* JobsAreKnown is kept by every step.
LEMMA JobsStayKnown ==
  ASSUME SequenceIDs, SeqTypes, SeqJobTypes, JobsAreKnown, [SequenceNext]_sqVars
  PROVE  JobsAreKnown'
<1>1. \A j \in AllJobs : j.seq # 0 => j.seq \in Sequences
  BY JobFacts
<1>2. ASSUME NEW j \in AllJobs, SubmitParse(j) PROVE JobsAreKnown'
  <2>1. /\ jobList' = [jobList EXCEPT ![j] = "queued"]
        /\ submitTime' = [submitTime EXCEPT ![j] = mayMark + 1] /\ marking' = marking
        /\ (j.seq = 0 \/ Known(j.seq)) /\ submitTime[j] = 0 /\ mayMark \in Nat
    BY <1>2 DEF SubmitParse, AddToQueue, SeqJobTypes
  <2>2. marking # j
    BY <1>2, JobFacts DEF SubmitParse, JobsAreKnown
  <2>3. marking # Nothing => marking \in AllJobs
    BY DEF SeqJobTypes
  <2> QED BY <1>1, <2>1, <2>2, <2>3, KnownStays DEF JobsAreKnown, SeqJobTypes
<1>3. ASSUME NEW j \in AllJobs, MarkEntry(j) PROVE JobsAreKnown'
  <2>1. /\ submitTime' = [submitTime EXCEPT ![j] = mayMark + 1] /\ marking' = j
        /\ submitTime[ParseJob(j)] # 0 /\ submitTime[j] = 0
        /\ mayMark \in Nat /\ UNCHANGED jobList
    BY <1>3 DEF MarkEntry, SeqJobTypes
  <2>2. j.seq # 0 => Known(j.seq)
    BY <2>1, JobFacts DEF JobsAreKnown
  <2> QED BY <1>1, <2>1, <2>2, KnownStays DEF JobsAreKnown, SeqJobTypes
<1>4. CASE AddPlay
  <2>1. /\ marking \in AllJobs /\ marking' = Nothing /\ UNCHANGED submitTime
        /\ jobList' = [jobList EXCEPT ![marking] = "queued"]
    BY <1>4 DEF AddPlay, AddToQueue, SeqJobTypes
  <2>2. submitTime[marking] # 0
    BY <1>4 DEF AddPlay, JobsAreKnown
  <2> QED BY <1>1, <2>1, <2>2, KnownStays DEF JobsAreKnown, SeqJobTypes
<1>5. CASE Round
  <2>1. PICK cur \in NextSeqs, lost \in SUBSET {j \in Queued : j.type = "Play"} :
          RoundDoes(cur, lost)
    BY <1>5, RoundIs
  <2>2. Assignable(cur) \subseteq Queued BY DEF Assignable
  <2>3. \A j \in AllJobs : jobList[j] = "none" => jobList'[j] = "none"
    BY <2>1, <2>2 DEF RoundDoes, Queued
  <2> QED BY <2>1, <2>3, JobsMoveKnown DEF RoundDoes, subVars
<1>6. CASE JobEnds
  <2>1. PICK st \in {"Completed", "Canceled"} : JobEndsAs(st)
    BY <1>6, JobEndsIs
  <2>2. \A j \in AllJobs : jobList[j] = "none" => jobList'[j] = "none"
    BY <2>1 DEF JobEndsAs, SeqJobTypes
  <2> QED BY <2>1, <2>2, JobsMoveKnown DEF JobEndsAs, subVars
<1>7. ASSUME NEW s \in Sequences, CancelSequence(s) PROVE JobsAreKnown'
  <2>1. UNCHANGED <<submitTime, marking>>
    BY <1>7 DEF CancelSequence, subVars
  <2>2. \/ jobList' = jobList
        \/ jobList[onEngine] = "running" /\ jobList' = [jobList EXCEPT ![onEngine] = "done"]
    BY <1>7 DEF CancelSequence
  <2>3. \A j \in AllJobs : jobList[j] = "none" => jobList'[j] = "none"
    BY <2>2 DEF SeqJobTypes
  <2> QED BY <2>1, <2>3, JobsMoveKnown
<1>8. ASSUME NEW s \in Sequences, AddSequence(s) \/ CloseSequence(s) \/ AskStatus(s)
      PROVE  JobsAreKnown'
  BY <1>8, JobsRestKnown DEF AddSequence, CloseSequence, AskStatus, sjobVars, subVars
<1>9. CASE SetMode \/ UNCHANGED sqVars
  BY <1>9, JobsRestKnown DEF SetMode, sqVars, sjobVars, subVars
<1>10. CASE FindParse
  <2>1. marking' \in {marking, Nothing} /\ UNCHANGED <<jobList, submitTime>>
    BY <1>10 DEF FindParse, sjobVars
  <2> QED BY <1>1, <2>1, KnownStays DEF JobsAreKnown
<1> QED BY <1>2, <1>3, <1>4, <1>5, <1>6, <1>7, <1>8, <1>9, <1>10 DEF SequenceNext

-----------------------------------------------------------------------------
(* Sequences do not interleave. *)

\* A job that is added marks its sequence, or comes too late for it.
LEMMA AddedIsKept ==
  ASSUME SequenceIDs, SeqTypes, SeqJobTypes, ListsAreTrue, NEW j \in AllJobs, AddToQueue(j),
         j.seq = 0 \/ Known(j.seq)
  PROVE  /\ ListsAreTrue'
         /\ \A s \in Sequences : hasJobs[s] => hasJobs'[s]
         /\ UNCHANGED <<currentSeq, completedSeqs, seqStatus>>
<1>1. /\ jobList' = [jobList EXCEPT ![j] = "queued"]
      /\ UNCHANGED <<queuedSeqs, currentSeq, completedSeqs, seqStatus>>
      /\ j.seq # 0 => j.seq \in Sequences
  BY JobFacts DEF AddToQueue
<1>2. /\ \A s \in Sequences : hasJobs[s] => hasJobs'[s]
      /\ j.seq # 0 /\ Active(j.seq) => hasJobs'[j.seq]
  BY <1>1 DEF AddToQueue, SeqTypes
<1>3. \A i \in Queued' : i = j \/ i \in Queued
  BY <1>1 DEF Queued, SeqJobTypes
<1>4. \A i \in Queued : i.seq # 0 => i.seq \in Sequences
  BY JobFacts DEF Queued
<1>5. j.seq # 0 /\ ~Active(j.seq) => Completed(j.seq)
  BY DEF Known, ListsAreTrue
<1> QED BY <1>1, <1>2, <1>3, <1>4, <1>5 DEF ListsAreTrue, Completed

\* A step that leaves the queue, the marks and the completed list keeps what is known of them.
LEMMA ListsRestTrue ==
  ASSUME SequenceIDs, SeqTypes, SeqJobTypes, ListsAreTrue, [SequenceNext]_sqVars,
         Queued' \subseteq Queued, UNCHANGED hasJobs,
         \A s \in completedSeqs' : s \in completedSeqs \/ Completed(s)'
  PROVE  ListsAreTrue'
<1>1. \A j \in Queued' : j \in Queued /\ (j.seq # 0 => j.seq \in Sequences)
  BY JobFacts DEF Queued
<1>2. completedSeqs \subseteq Sequences
  BY DEF SeqTypes
<1> QED BY <1>1, <1>2, KnownStays DEF ListsAreTrue

\* ListsAreTrue is kept by every step.
LEMMA ListsStayTrue ==
  ASSUME SequenceIDs, SeqTypes, SeqJobTypes, JobsAreKnown, ListsAreTrue,
         [SequenceNext]_sqVars
  PROVE  ListsAreTrue'
<1>1. ASSUME NEW j \in AllJobs, SubmitParse(j) PROVE ListsAreTrue'
  BY <1>1, AddedIsKept DEF SubmitParse
<1>2. CASE AddPlay
  <2>1. marking \in AllJobs /\ AddToQueue(marking) /\ submitTime[marking] # 0
    BY <1>2 DEF AddPlay, JobsAreKnown, SeqJobTypes
  <2>2. marking.seq = 0 \/ Known(marking.seq)
    BY <2>1 DEF JobsAreKnown
  <2> QED BY <2>1, <2>2, AddedIsKept
<1>3. CASE Round
  <2>1. PICK cur \in NextSeqs, lost \in SUBSET {j \in Queued : j.type = "Play"} :
          RoundDoes(cur, lost)
    BY <1>3, RoundIs
  <2>2. Queued' \subseteq Queued /\ UNCHANGED hasJobs
    BY <2>1 DEF RoundDoes, Queued, SeqJobTypes
  <2>3. Ended \subseteq Sequences
    BY DEF Ended, Looked, SeqTypes
  <2>4. \A s \in completedSeqs' : s \in completedSeqs \/ Completed(s)'
    BY <2>1, <2>3 DEF RoundDoes, Completed
  <2> QED BY <2>2, <2>4, ListsRestTrue
<1>4. CASE JobEnds
  <2>1. PICK st \in {"Completed", "Canceled"} : JobEndsAs(st)
    BY <1>4, JobEndsIs
  <2>2. Queued' \subseteq Queued /\ UNCHANGED <<hasJobs, completedSeqs>>
    BY <2>1 DEF JobEndsAs, Queued, SeqJobTypes, seqVars
  <2> QED BY <2>2, ListsRestTrue
<1>5. ASSUME NEW s \in Sequences, CancelSequence(s) PROVE ListsAreTrue'
  <2>1. \/ jobList' = jobList
        \/ jobList' = [jobList EXCEPT ![onEngine] = "done"]
    BY <1>5 DEF CancelSequence
  <2>2. Queued' \subseteq Queued /\ UNCHANGED <<hasJobs, completedSeqs>>
    BY <1>5, <2>1 DEF CancelSequence, Queued, SeqJobTypes
  <2> QED BY <2>2, ListsRestTrue
<1>6. ASSUME NEW s \in Sequences, AddSequence(s) \/ CloseSequence(s) \/ AskStatus(s)
      PROVE  ListsAreTrue'
  <2>1. Queued' \subseteq Queued /\ UNCHANGED <<hasJobs, completedSeqs>>
    BY <1>6 DEF AddSequence, CloseSequence, AskStatus, sjobVars, Queued
  <2> QED BY <2>1, ListsRestTrue
<1>7. ASSUME NEW j \in AllJobs, MarkEntry(j) PROVE ListsAreTrue'
  <2>1. Queued' \subseteq Queued /\ UNCHANGED <<hasJobs, completedSeqs>>
    BY <1>7 DEF MarkEntry, seqVars, Queued
  <2> QED BY <2>1, ListsRestTrue
<1>8. CASE FindParse \/ SetMode \/ UNCHANGED sqVars
  <2>1. Queued' \subseteq Queued /\ UNCHANGED <<hasJobs, completedSeqs>>
    BY <1>8 DEF FindParse, SetMode, sqVars, seqVars, sjobVars, Queued
  <2> QED BY <2>1, ListsRestTrue
<1> QED BY <1>1, <1>2, <1>3, <1>4, <1>5, <1>6, <1>7, <1>8 DEF SequenceNext

\* In the Normal mode a round leaves the engine to the sequence that has it, or to another
\* when that one is done; and whichever begins is the one that has it now.
LEMMA RoundKeepsTurn ==
  ASSUME SequenceIDs, SeqTypes, SeqJobTypes, JobsAreKnown, ListsAreTrue, BegunIsCurrent, Round
  PROVE  BegunIsCurrent'
<1>1. PICK cur \in NextSeqs, lost \in SUBSET {j \in Queued : j.type = "Play"} :
        RoundDoes(cur, lost)
  BY RoundIs
<1>2. SUFFICES ASSUME modes = 0, NEW t \in began' PROVE Completed(t)' \/ (t = cur /\ hasJobs[t])
  BY <1>1 DEF BegunIsCurrent, RoundDoes
<1>3. mode = "Normal"
  BY <1>2 DEF BegunIsCurrent
<1>4. Ended = {s \in Looked : IsDone(s)} /\ Ended \subseteq Sequences
  BY <1>3 DEF Ended, Looked, SeqTypes
<1>5. \A s \in Sequences : Completed(s) \/ s \in Ended => Completed(s)'
  BY <1>1, <1>4 DEF RoundDoes, Completed
<1>6. CASE t \in began
  <2>1. t \in Sequences /\ t # 0
    BY <1>6, JobFacts DEF SeqTypes
  <2>2. CASE Completed(t) BY <1>5, <2>1, <2>2
  <2>3. CASE ~Completed(t)
    <3>1. t = currentSeq /\ hasJobs[t]
      BY <1>2, <1>6, <2>3 DEF BegunIsCurrent
    <3>2. t \in Looked
      BY <2>1, <3>1 DEF Looked
    <3>3. CASE IsDone(t) BY <1>4, <1>5, <2>1, <3>2, <3>3
    <3>4. CASE ~IsDone(t)
      <4>1. currentSeq # 0 /\ ~MakesWay(currentSeq)
        BY <2>1, <3>1, <3>4 DEF MakesWay
      <4>2. cur = currentSeq BY <4>1 DEF NextSeqs
      <4> QED BY <3>1, <4>2
    <3> QED BY <3>3, <3>4
  <2> QED BY <2>2, <2>3
<1>7. CASE t \notin began
  <2>1. PICK n \in Assignable(cur) : t = n.seq /\ n.seq # 0
    BY <1>1, <1>7 DEF RoundDoes
  <2>2. n \in Queued /\ (cur # 0 => n.seq = cur)
    BY <1>3 DEF Assignable
  <2>3. t \in Sequences /\ Known(t) /\ (hasJobs[t] \/ Completed(t))
    <3>1. n \in AllJobs /\ jobList[n] # "none" BY <2>2 DEF Queued
    <3> QED BY <2>1, <2>2, <3>1, JobFacts DEF JobsAreKnown, ListsAreTrue
  <2>4. CASE cur # 0
    BY <1>5, <2>1, <2>2, <2>3, <2>4
  <2>5. CASE cur = 0
    <3>1. ~IsDone(t) => t \notin Looked
      <4> DEFINE waiting == {s \in queuedSeqs \cup ({currentSeq} \ {0}) : ~IsDone(s)}
                 able == {j \in Queued : j.seq \in waiting}
      <4>1. SUFFICES ASSUME ~IsDone(t), t \in Looked PROVE FALSE
        OBVIOUS
      <4>2. n \in able
        BY <2>1, <2>2, <4>1 DEF Looked
      <4>3. Foremost(able) # {}
        BY <4>2 DEF Foremost
      <4>4. cur \in {j.seq : j \in Foremost(able)} \/ (currentSeq # 0 /\ cur = currentSeq)
        <5> HIDE DEF able
        <5>1. CASE currentSeq # 0 /\ ~MakesWay(currentSeq) BY <5>1 DEF NextSeqs
        <5>2. CASE ~(currentSeq # 0 /\ ~MakesWay(currentSeq))
          <6>1. NextSeqs = IF Foremost(able) = {} THEN {0} ELSE {j.seq : j \in Foremost(able)}
            BY <1>3, <5>2, Zenon DEF NextSeqs, able
          <6> QED BY <4>3, <6>1
        <5> QED BY <5>1, <5>2
      <4>5. \A j \in Foremost(able) : j.seq # 0
        <5>1. 0 \notin waiting BY JobFacts DEF SeqTypes
        <5>2. \A j \in Foremost(able) : j \in able BY ForemostIsOne
        <5> QED BY <5>1, <5>2
      <4> QED BY <2>5, <4>4, <4>5
    <3>2. Completed(t) => Completed(t)' BY <1>5, <2>3
    <3>3. IsDone(t) /\ t \in Looked => Completed(t)' BY <1>4, <1>5, <2>3
    <3>4. t \in Looked \/ Completed(t)
      BY <2>1, <2>3 DEF Known, Active, Looked, ListsAreTrue
    <3> QED BY <3>1, <3>2, <3>3, <3>4 DEF IsDone, Completed
  <2> QED BY <2>4, <2>5
<1> QED BY <1>6, <1>7

\* BegunIsCurrent is kept by every step.
LEMMA TurnIsKept ==
  ASSUME SequenceIDs, SeqTypes, SeqJobTypes, JobsAreKnown, ListsAreTrue, BegunIsCurrent,
         [SequenceNext]_sqVars
  PROVE  BegunIsCurrent'
<1>1. began \subseteq Sequences
  BY DEF SeqTypes
<1>2. ASSUME UNCHANGED <<modes, mode, began, currentSeq>>,
             \A s \in Sequences : hasJobs[s] => hasJobs'[s]
      PROVE  BegunIsCurrent'
  BY <1>1, <1>2, KnownStays DEF BegunIsCurrent
<1>3. ASSUME NEW j \in AllJobs, SubmitParse(j) PROVE BegunIsCurrent'
  BY <1>2, <1>3, AddedIsKept DEF SubmitParse, sqHistory
<1>4. CASE AddPlay
  <2>1. marking \in AllJobs /\ AddToQueue(marking) /\ submitTime[marking] # 0
    BY <1>4 DEF AddPlay, JobsAreKnown, SeqJobTypes
  <2>2. marking.seq = 0 \/ Known(marking.seq)
    BY <2>1 DEF JobsAreKnown
  <2> QED BY <1>2, <1>4, <2>1, <2>2, AddedIsKept DEF AddPlay, sqHistory
<1>5. CASE Round BY <1>5, RoundKeepsTurn
<1>6. CASE SetMode
  <2>1. modes' # 0 BY <1>6 DEF SetMode, SeqTypes
  <2> QED BY <2>1 DEF BegunIsCurrent
<1>7. ASSUME NEW s \in Sequences,
             AddSequence(s) \/ CloseSequence(s) \/ CancelSequence(s) \/ AskStatus(s)
      PROVE  BegunIsCurrent'
  BY <1>2, <1>7 DEF AddSequence, CloseSequence, CancelSequence, AskStatus, sqHistory
<1>8. ASSUME NEW j \in AllJobs, MarkEntry(j) PROVE BegunIsCurrent'
  BY <1>2, <1>8 DEF MarkEntry, seqVars, sqHistory
<1>9. CASE FindParse \/ JobEnds \/ UNCHANGED sqVars
  BY <1>2, <1>9 DEF FindParse, JobEnds, sqVars, seqVars, sqHistory
<1> QED BY <1>3, <1>4, <1>5, <1>6, <1>7, <1>8, <1>9 DEF SequenceNext

\* In the Normal mode, two sequences have both begun only if one of them is done: the jobs of
\* a sequence are not mixed with those of another (SequencesDoNotInterleave).
THEOREM SequencesTakeTurns ==
  ASSUME SequenceIDs
  PROVE  SequenceSpec => []SequencesDoNotInterleave
<1>1. SequenceInit => NoInterleaving
  BY DEF SequenceInit, NoInterleaving, JobsAreKnown, ListsAreTrue, BegunIsCurrent, Queued
<1>2. SequenceTypeOK /\ NoInterleaving /\ [SequenceNext]_sqVars => NoInterleaving'
  BY SequenceTypeParts, JobsStayKnown, ListsStayTrue, TurnIsKept DEF NoInterleaving
<1>3. NoInterleaving => SequencesDoNotInterleave
  BY DEF NoInterleaving, BegunIsCurrent, SequencesDoNotInterleave, IsDone, Completed
<1> QED BY <1>1, <1>2, <1>3, SequenceTypeCorrect, PTL DEF SequenceSpec

-----------------------------------------------------------------------------
(* A completed sequence was played. *)

\* A job that is done stays done, with its status.
LEMMA DoneStays ==
  ASSUME SequenceIDs, SeqTypes, SeqJobTypes, JobsAreKnown, [SequenceNext]_sqVars,
         NEW j \in AllJobs, jobList[j] = "done"
  PROVE  /\ jobList'[j] = "done"
         /\ jobStatus[j] = "Canceled" => jobStatus'[j] = "Canceled"
<1> USE DEF SeqJobTypes
<1>1. submitTime[j] # 0
  BY DEF JobsAreKnown
<1>2. ASSUME NEW i \in AllJobs, SubmitParse(i)
      PROVE  jobList'[j] = "done" /\ jobStatus'[j] = jobStatus[j]
  BY <1>1, <1>2 DEF SubmitParse, AddToQueue
<1>3. CASE AddPlay
  <2>1. marking \in AllJobs /\ jobList[marking] = "none" /\ AddToQueue(marking)
    BY <1>3 DEF AddPlay, JobsAreKnown
  <2> QED BY <2>1 DEF AddToQueue
<1>4. CASE Round
  <2>1. PICK cur \in NextSeqs, lost \in SUBSET {i \in Queued : i.type = "Play"} :
          RoundDoes(cur, lost)
    BY <1>4, RoundIs
  <2>2. j \notin lost /\ j \notin Assignable(cur)
    BY DEF Queued, Assignable
  <2> QED BY <2>1, <2>2 DEF RoundDoes
<1>5. CASE JobEnds
  <2>1. PICK st \in {"Completed", "Canceled"} : JobEndsAs(st)
    BY <1>5, JobEndsIs
  <2> QED BY <2>1 DEF JobEndsAs
<1>6. ASSUME NEW s \in Sequences, CancelSequence(s)
      PROVE  jobList'[j] = "done" /\ jobStatus'[j] = jobStatus[j]
  <2>1. \/ UNCHANGED <<jobList, jobStatus>>
        \/ /\ jobList[onEngine] = "running" /\ jobList' = [jobList EXCEPT ![onEngine] = "done"]
           /\ jobStatus' = [jobStatus EXCEPT ![onEngine] = "Canceled"]
    BY <1>6, Zenon DEF CancelSequence
  <2> QED BY <2>1
<1>7. CASE UNCHANGED <<jobList, jobStatus>> BY <1>7
<1> QED BY <1>2, <1>3, <1>4, <1>5, <1>6, <1>7
       DEF SequenceNext, AddSequence, CloseSequence, AskStatus, SetMode, MarkEntry, FindParse,
           sqVars, sjobVars

\* So an entry that was played stays played.
LEMMA PlayedStays ==
  ASSUME SequenceIDs, SeqTypes, SeqJobTypes, JobsAreKnown, [SequenceNext]_sqVars,
         NEW s, NEW e, Played(s, e)
  PROVE  Played(s, e)'
<1>1. PICK j \in SeqJobs : Witnesses(j, s, e)
  BY DEF Played
<1>2. j \in AllJobs
  BY DEF AllJobs
<1>3. Witnesses(j, s, e)'
  BY <1>1, <1>2, DoneStays DEF Witnesses
<1> QED BY <1>3 DEF Played

\* The steps that close nothing: an entry that gets a result gets it from a job, and a sequence
\* is found done only when it is.
LEMMA UnclosedRest ==
  ASSUME SequenceIDs, SeqTypes, SeqJobTypes, JobsAreKnown, UnclosedIsPlayed,
         [SequenceNext]_sqVars, UNCHANGED <<seqType, closed>>,
         \A s \in Sequences, e \in Entries :
            entryStatus'[s, e] \in {"Completed", "Canceled"} =>
                entryStatus'[s, e] = entryStatus[s, e] \/ Played(s, e)',
         \A s \in Sequences : Completed(s)' => Completed(s) \/ IsDone(s)
  PROVE  UnclosedIsPlayed'
<1> SUFFICES ASSUME NEW s \in Sequences \ closed
             PROVE  /\ seqType[s] = IF s \in OpenSequences THEN "Open" ELSE "Closed"
                    /\ \A e \in Entries :
                        entryStatus'[s, e] \in {"Completed", "Canceled"} => Played(s, e)'
                    /\ Completed(s)' => \A e \in Entries : Played(s, e)'
  BY DEF UnclosedIsPlayed, Completed
<1>1. seqType[s] = IF s \in OpenSequences THEN "Open" ELSE "Closed"
  BY DEF UnclosedIsPlayed
<1>2. ASSUME NEW e \in Entries, entryStatus'[s, e] \in {"Completed", "Canceled"}
      PROVE  Played(s, e)'
  BY <1>2, PlayedStays DEF UnclosedIsPlayed
<1>3. ASSUME Completed(s)', NEW e \in Entries PROVE Played(s, e)'
  <2>1. CASE Completed(s)
    BY <2>1, PlayedStays DEF UnclosedIsPlayed
  <2>2. CASE ~Completed(s)
    <3>1. seqType[s] = "Closed" /\ AllShotsDone(s)
      BY <1>3, <2>2 DEF IsDone, Completed
    <3>2. e \in Table(s)
      BY <1>1, <3>1 DEF Table
    <3>3. entryStatus[s, e] \in {"Completed", "Canceled"}
      BY <3>1, <3>2 DEF AllShotsDone
    <3> QED BY <3>3, PlayedStays DEF UnclosedIsPlayed
  <2> QED BY <2>1, <2>2
<1> QED BY <1>1, <1>2, <1>3

\* When a call closes a sequence, the others are what they were.
LEMMA UnclosedOfOthers ==
  ASSUME SequenceIDs, SeqTypes, SeqJobTypes, JobsAreKnown, UnclosedIsPlayed,
         [SequenceNext]_sqVars, NEW t \in Sequences, closed' = closed \cup {t},
         \A s \in Sequences \ {t} :
            /\ seqType'[s] = seqType[s] /\ seqStatus'[s] = seqStatus[s]
            /\ \A e \in Entries : entryStatus'[s, e] = entryStatus[s, e]
  PROVE  UnclosedIsPlayed'
BY PlayedStays DEF UnclosedIsPlayed, Completed

\* UnclosedIsPlayed is kept by every step.
LEMMA UnclosedStays ==
  ASSUME SequenceIDs, SeqTypes, SeqJobTypes, JobsAreKnown, UnclosedIsPlayed,
         [SequenceNext]_sqVars
  PROVE  UnclosedIsPlayed'
<1>1. CASE JobEnds
  <2>1. PICK st \in {"Completed", "Canceled"} : JobEndsAs(st)
    BY <1>1, JobEndsIs
  <2>2. onEngine \in AllJobs /\ UNCHANGED <<seqType, closed, seqStatus>>
    BY <2>1 DEF JobEndsAs, SeqJobTypes, seqVars, sqHistory
  <2>3. ASSUME NEW s \in Sequences, NEW e \in Entries, entryStatus'[s, e] # entryStatus[s, e]
        PROVE  Played(s, e)'
    <3>1. jobList[onEngine] = "running" /\ entryStatus' = EntryAfter(onEngine, st)
      BY <2>1, <2>3 DEF JobEndsAs
    <3>2. /\ onEngine.seq # 0 /\ (onEngine.type = "Play" \/ st = "Canceled")
          /\ entryStatus' = [entryStatus EXCEPT ![Entry(onEngine)] = st]
      BY <2>3, <3>1 DEF EntryAfter
    <3>3. Entry(onEngine) = <<s, e>> /\ onEngine \in SeqJobs
      BY <2>2, <2>3, <3>2, JobFacts DEF SeqJobTypes
    <3>4. jobList'[onEngine] = "done" /\ jobStatus'[onEngine] = st
      BY <2>1, <2>2, <3>1 DEF JobEndsAs, SeqJobTypes
    <3> QED BY <3>2, <3>3, <3>4 DEF Played, Witnesses
  <2> QED BY <2>2, <2>3, UnclosedRest DEF Completed
<1>2. CASE Round
  <2>1. PICK cur \in NextSeqs, lost \in SUBSET {j \in Queued : j.type = "Play"} :
          RoundDoes(cur, lost)
    BY <1>2, RoundIs
  <2>2. ASSUME NEW s \in Sequences, NEW e \in Entries, entryStatus'[s, e] # entryStatus[s, e]
        PROVE  Played(s, e)'
    <3>1. PICK j \in lost : Entry(j) = <<s, e>>
      BY <2>1, <2>2 DEF RoundDoes
    <3>2. j \in AllJobs /\ j.type = "Play" /\ j \in SeqJobs
      BY JobFacts DEF Queued
    <3>3. jobList'[j] = "done"
      BY <2>1, <3>2 DEF RoundDoes
    <3> QED BY <3>1, <3>2, <3>3 DEF Played, Witnesses
  <2>3. \A s \in Sequences : Completed(s)' => Completed(s) \/ IsDone(s)
    BY <2>1 DEF RoundDoes, Ended, Completed
  <2> QED BY <2>1, <2>2, <2>3, UnclosedRest DEF RoundDoes
<1>3. ASSUME NEW j \in AllJobs, MarkEntry(j) PROVE UnclosedIsPlayed'
  <2>1. \/ entryStatus' = entryStatus
        \/ entryStatus' = [entryStatus EXCEPT ![Entry(j)] = "New"]
    BY <1>3 DEF MarkEntry
  <2>2. \A s \in Sequences, e \in Entries :
            entryStatus'[s, e] \in {"Completed", "Canceled"} =>
                entryStatus'[s, e] = entryStatus[s, e]
    BY <2>1 DEF SeqJobTypes
  <2>3. UNCHANGED <<seqType, closed, seqStatus>>
    BY <1>3 DEF MarkEntry, seqVars, sqHistory
  <2> QED BY <2>2, <2>3, UnclosedRest DEF Completed
<1>4. ASSUME NEW s \in Sequences, CloseSequence(s) PROVE UnclosedIsPlayed'
  <2>1. \A t \in Sequences \ {s} : seqType'[t] = seqType[t] /\ seqStatus'[t] = seqStatus[t]
    BY <1>4 DEF CloseSequence, SeqTypes
  <2>2. closed' = closed \cup {s} /\ UNCHANGED entryStatus
    BY <1>4 DEF CloseSequence
  <2> QED BY <2>1, <2>2, UnclosedOfOthers
<1>5. ASSUME NEW s \in Sequences, CancelSequence(s) PROVE UnclosedIsPlayed'
  <2> DEFINE cancelled == [x \in Sequences \X Entries |->
            IF x[1] = s /\ x[2] \in Table(s) /\ entryStatus[x] \in {"none", "New"}
            THEN "Canceled" ELSE entryStatus[x]]
  <2>1. \A t \in Sequences \ {s} : \A e \in Entries : cancelled[t, e] = entryStatus[t, e]
    OBVIOUS
  <2>2. cancelled \in [Sequences \X Entries -> {"none", "New", "Completed", "Canceled"}]
    BY DEF SeqJobTypes
  <2>3. /\ closed' = closed \cup {s} /\ seqType' = [seqType EXCEPT ![s] = "Closed"]
        /\ seqStatus' \in {seqStatus, [seqStatus EXCEPT ![s] = "Completed"]}
        /\ \/ entryStatus' = cancelled
           \/ onEngine.seq = s /\ entryStatus' = [cancelled EXCEPT ![Entry(onEngine)] = "Canceled"]
    BY <1>5, Zenon DEF CancelSequence
  <2> HIDE DEF cancelled
  <2>4. \A t \in Sequences \ {s} : \A e \in Entries : entryStatus'[t, e] = entryStatus[t, e]
    BY <2>1, <2>2, <2>3 DEF Entry
  <2>5. \A t \in Sequences \ {s} : seqType'[t] = seqType[t] /\ seqStatus'[t] = seqStatus[t]
    BY <2>3 DEF SeqTypes
  <2> QED BY <2>3, <2>4, <2>5, UnclosedOfOthers
<1>6. ASSUME NEW s \in Sequences, AskStatus(s) PROVE UnclosedIsPlayed'
  <2>1. /\ IsDone(s) /\ seqStatus' = [seqStatus EXCEPT ![s] = "Completed"]
        /\ UNCHANGED <<seqType, closed, entryStatus>>
    BY <1>6 DEF AskStatus, sqHistory
  <2>2. \A t \in Sequences : Completed(t)' => Completed(t) \/ IsDone(t)
    BY <2>1 DEF Completed, SeqTypes
  <2> QED BY <2>1, <2>2, UnclosedRest
<1>7. CASE UNCHANGED <<seqType, closed, seqStatus, entryStatus>>
  BY <1>7, UnclosedRest DEF Completed
<1> QED BY <1>1, <1>2, <1>3, <1>4, <1>5, <1>6, <1>7
       DEF SequenceNext, AddSequence, SubmitParse, FindParse, AddPlay, AddToQueue, SetMode,
           sqVars, seqVars, sqHistory

\* A sequence that nobody closed or cancelled is completed only when a play of each of its
\* entries has ended, or the entry's parse was cancelled (CompletedMeansPlayed).
THEOREM CompletedWasPlayed ==
  ASSUME SequenceIDs
  PROVE  SequenceSpec => []CompletedMeansPlayed
<1>1. SequenceInit => PlayedInv
  <2> HAVE SequenceInit
  <2>1. JobsAreKnown /\ ListsAreTrue
    BY DEF SequenceInit, JobsAreKnown, ListsAreTrue, Queued
  <2>2. \A s \in Sequences : ~Completed(s) /\ \A e \in Entries : entryStatus[s, e] = "none"
    BY DEF SequenceInit, Completed
  <2>3. \A s \in Sequences : seqType[s] = IF s \in OpenSequences THEN "Open" ELSE "Closed"
    BY DEF SequenceInit
  <2> QED BY <2>1, <2>2, <2>3 DEF PlayedInv, UnclosedIsPlayed
<1>2. SequenceTypeOK /\ PlayedInv /\ [SequenceNext]_sqVars => PlayedInv'
  BY SequenceTypeParts, JobsStayKnown, ListsStayTrue, UnclosedStays DEF PlayedInv
<1>3. SequenceTypeOK /\ PlayedInv => CompletedMeansPlayed
  <2> SUFFICES ASSUME SequenceTypeOK, PlayedInv, NEW s \in completedSeqs \ closed,
                      NEW e \in Entries
               PROVE  Played(s, e)
    BY DEF CompletedMeansPlayed, Played, Witnesses
  <2>1. s \in Sequences BY SequenceTypeParts DEF SeqTypes
  <2> QED BY <2>1 DEF PlayedInv, ListsAreTrue, UnclosedIsPlayed
<1> QED BY <1>1, <1>2, <1>3, SequenceTypeCorrect, PTL DEF SequenceSpec

=============================================================================
