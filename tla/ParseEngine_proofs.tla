------------------------- MODULE ParseEngine_proofs -------------------------
(***************************************************************************)
(* Proofs about ParseEngine for any number of devices, parses and calls of *)
(* stop(): the types, that Parsed means that every device has parsed this  *)
(* very job, and that no event comes too late for its device.              *)
(***************************************************************************)
EXTENDS ParseEngine, TLAPS

\* The sizes are numbers.
Sizes == NDevices \in Nat /\ NParses \in Nat /\ MaxAborts \in Nat

-----------------------------------------------------------------------------
(* The state machine. *)

\* setState leaves the machine in one of its states, and takes it to the one asked for or
\* nowhere.
LEMMA SetStateGoes ==
    ASSUME NEW from \in EngineState, NEW target \in EngineState
    PROVE  /\ SetState(from, target) \in EngineState
           /\ SetState(from, target) \in {from, target}
BY DEF SetState

LEMMA StateNames == {"Idle", "Parsing", "Parsed", "Error"} \subseteq EngineState
BY DEF EngineState, NormalStates

-----------------------------------------------------------------------------
(* Types, in the groups that the actions leave alone together. *)

EngineTypes ==
    /\ targets \subseteq Devices \X Devices
    /\ eState \in EngineState /\ stopped \in BOOLEAN
    /\ parseID \in 0 .. NParses /\ activeParse \in 0 .. NParses
    /\ parser \in {"idle", "begun", "local", "loop", "wait", "asleep", "gather", "waitAll",
                   "asleepAll", "check", "judge"}
TreeTypes ==
    /\ nextID \in 1 .. NDevices + 1 /\ subtree \subseteq Devices
    /\ eventsFor \in [Devices -> SUBSET Sources] /\ sentWith \in [Devices -> SUBSET Sources]
    /\ owned \subseteq Devices /\ unreached \subseteq Devices
    /\ parsedOwned \in [Devices -> {"none", "Parsed", "Error"}]
DeviceTypes ==
    /\ asked \subseteq Devices \X (1 .. NParses) /\ silent \subseteq Devices
    /\ answers \subseteq Answer
AbortTypes ==
    /\ aborter \in {"idle", "Parsing", "Error", "flag"}
    /\ aborts \in Nat /\ missedStop \in BOOLEAN

LEMMA ParseTypeParts == ParseTypeOK <=> EngineTypes /\ TreeTypes /\ DeviceTypes /\ AbortTypes
BY Zenon DEF ParseTypeOK, EngineTypes, TreeTypes, DeviceTypes, AbortTypes

LEMMA EngineTypesNext ==
    ASSUME Sizes, EngineTypes, [ParseEngineNext]_peVars
    PROVE  EngineTypes'
<1> USE SetStateGoes, StateNames DEF EngineTypes, Sizes
<1>1. CASE BeginParse
  <2>1. SetState(eState, "Idle") \in EngineState
    OBVIOUS
  <2>2. SetState(SetState(eState, "Idle"), "Parsing") \in EngineState
    BY <2>1, StateNames DEF SetState
  <2>3. eState' \in EngineState
    BY <1>1, <2>2, Zenon DEF BeginParse
  <2>4. UNCHANGED targets /\ stopped' \in BOOLEAN /\ parser' = "begun" /\ activeParse' = 0
    BY <1>1, Zenon DEF BeginParse
  <2>5. parseID' \in 0 .. NParses
    BY <1>1 DEF BeginParse
  <2> HIDE SetStateGoes
  <2> QED BY <2>3, <2>4, <2>5
<1>2. CASE CheckJob
  BY <1>2 DEF CheckJob
<1>3. CASE ParseLocal \/ ParseNext \/ Judge
  BY <1>3 DEF ParseLocal, ParseNext, Judge, engineVars
<1>4. CASE LoopMoves
  BY <1>4 DEF LoopMoves
<1>5. CASE Check
  BY <1>5 DEF Check
<1>6. CASE HandleAnswer
  BY <1>6 DEF HandleAnswer, Awake
<1>7. CASE DeviceAnswers \/ AbortRead
  BY <1>7 DEF DeviceAnswers, AbortRead, engineVars
<1>8. CASE AbortSet
  BY <1>8 DEF AbortSet, SetStateOr
<1>9. CASE AbortFlag
  BY <1>9 DEF AbortFlag, Awake
<1>10. CASE UNCHANGED peVars
  BY <1>10 DEF peVars, engineVars
<1> QED BY <1>1, <1>2, <1>3, <1>4, <1>5, <1>6, <1>7, <1>8, <1>9, <1>10
        DEF ParseEngineNext, ParseThread, Abort

LEMMA TreeTypesNext ==
    ASSUME Sizes, EngineTypes, TreeTypes, DeviceTypes, [ParseEngineNext]_peVars
    PROVE  TreeTypes'
<1> USE DEF TreeTypes, Sizes
<1>1. CASE BeginParse
  BY <1>1 DEF BeginParse
<1>2. CASE CheckJob
  BY <1>2 DEF CheckJob
<1>3. CASE ParseLocal
  <2>1. [Devices -> {{}, {0}}] \subseteq [Devices -> SUBSET Sources]
    BY DEF Sources
  <2> QED BY <1>3, <2>1 DEF ParseLocal
<1>4. CASE ParseNext
  <2>1. nextID \in Devices /\ nextID' \in 1 .. NDevices + 1
    BY <1>4 DEF ParseNext, Devices
  <2>2. UNCHANGED <<eventsFor, parsedOwned>>
    BY <1>4 DEF ParseNext
  <2>3. SkipDevice \/ AskDevice \/ MissDevice
    BY <1>4 DEF ParseNext
  <2> QED BY <2>1, <2>2, <2>3 DEF SkipDevice, AskDevice, MissDevice
<1>5. CASE LoopMoves \/ Check \/ DeviceAnswers \/ AbortRead \/ AbortSet \/ AbortFlag
  BY <1>5 DEF LoopMoves, Check, DeviceAnswers, AbortRead, AbortSet, AbortFlag, treeVars
<1>6. CASE Judge
  BY <1>6 DEF Judge
<1>7. CASE HandleAnswer
  <2>1. PICK m \in answers :
            /\ \/ /\ parsedOwned' = IF m.dev \in owned
                                    THEN [parsedOwned EXCEPT ![m.dev] = m.state]
                                    ELSE parsedOwned
                  /\ eventsFor' = [d \in Devices |-> IF d \in m.events
                                                     THEN eventsFor[d] \cup {m.dev}
                                                     ELSE eventsFor[d]]
                  /\ subtree' = subtree \ {m.dev}
               \/ UNCHANGED <<parsedOwned, eventsFor, subtree>>
            /\ UNCHANGED <<nextID, sentWith, owned, unreached>>
    BY <1>7 DEF HandleAnswer
  <2>2. m.dev \in Devices /\ m.dev \in Sources /\ m.state \in {"Parsed", "Error"}
    BY DEF DeviceTypes, Answer, Devices, Sources
  <2> QED BY <2>1, <2>2
<1>8. CASE UNCHANGED peVars
  BY <1>8 DEF peVars, treeVars
<1> QED BY <1>1, <1>2, <1>3, <1>4, <1>5, <1>6, <1>7, <1>8
        DEF ParseEngineNext, ParseThread, Abort

\* Where the parse thread is, what it has done: it looks at devices only while its job is
\* active, begins with the first of them, and has sent jobs to none but those before nextID.
Turns ==
    /\ activeParse \in {0, parseID}
    /\ parser # "idle" => parseID # 0
    /\ parser \in {"idle", "begun", "local"} => nextID = 1
    /\ parser \in {"idle", "begun", "judge"} => activeParse = 0
    /\ parser \in {"local", "loop", "wait", "asleep"} => activeParse # 0
    /\ \A d \in Devices : sentWith[d] # {} => d < nextID

LEMMA TurnsNext ==
    ASSUME Sizes, EngineTypes, TreeTypes, Turns, [ParseEngineNext]_peVars
    PROVE  Turns'
<1> USE DEF Turns, Sizes
<1>1. CASE BeginParse
  BY <1>1 DEF BeginParse, EngineTypes
<1>2. CASE CheckJob
  BY <1>2 DEF CheckJob, EngineTypes
<1>3. CASE ParseLocal
  BY <1>3 DEF ParseLocal
<1>4. CASE ParseNext
  <2>1. parser' = "loop" /\ parser = "loop" /\ nextID' = nextID + 1 /\ nextID \in Nat
        /\ UNCHANGED <<activeParse, parseID>>
    BY <1>4 DEF ParseNext, engineVars, TreeTypes
  <2>2. \A d \in Devices : d # nextID => sentWith'[d] = sentWith[d]
    BY <1>4 DEF ParseNext, SkipDevice, AskDevice, MissDevice, TreeTypes
  <2>3. \A d \in Devices : sentWith'[d] # {} => d < nextID'
    BY <2>1, <2>2 DEF Devices
  <2> QED BY <2>1, <2>3
<1>5. CASE LoopMoves
  BY <1>5 DEF LoopMoves, treeVars
<1>6. CASE Check \/ DeviceAnswers \/ AbortRead \/ AbortSet
  BY <1>6 DEF Check, DeviceAnswers, AbortRead, AbortSet, treeVars, engineVars
<1>7. CASE Judge
  BY <1>7 DEF Judge
<1>8. CASE HandleAnswer
  <2>1. parser' = Awake \/ parser' = parser
    BY <1>8 DEF HandleAnswer
  <2> QED BY <1>8, <2>1 DEF HandleAnswer, Awake
<1>9. CASE AbortFlag
  BY <1>9 DEF AbortFlag, Awake, treeVars
<1>10. CASE UNCHANGED peVars
  BY <1>10 DEF peVars, treeVars, engineVars
<1> QED BY <1>1, <1>2, <1>3, <1>4, <1>5, <1>6, <1>7, <1>8, <1>9, <1>10
        DEF ParseEngineNext, ParseThread, Abort

LEMMA DeviceTypesNext ==
    ASSUME Sizes, EngineTypes, TreeTypes, DeviceTypes, Turns, [ParseEngineNext]_peVars
    PROVE  DeviceTypes'
<1> USE DEF DeviceTypes, Sizes
<1>1. CASE BeginParse
  BY <1>1 DEF BeginParse
<1>2. CASE ParseNext
  <2>1. <<nextID, parseID>> \in Devices \X (1 .. NParses)
    BY <1>2 DEF ParseNext, Devices, Turns, TreeTypes, EngineTypes
  <2>2. asked' \in {asked, asked \cup {<<nextID, parseID>>}}
    BY <1>2 DEF ParseNext, SkipDevice, AskDevice, MissDevice
  <2> QED BY <1>2, <2>1, <2>2 DEF ParseNext
<1>3. CASE CheckJob \/ ParseLocal \/ LoopMoves \/ Check \/ AbortRead \/ AbortSet \/ AbortFlag
  BY <1>3 DEF CheckJob, ParseLocal, LoopMoves, Check, AbortRead, AbortSet, AbortFlag, deviceVars
<1>4. CASE Judge
  BY <1>4 DEF Judge, deviceVars
<1>5. CASE DeviceAnswers
  <2>1. PICK a \in asked :
           /\ asked' = asked \ {a}
           /\ \/ /\ \E st \in {"Parsed", "Error"},
                       ds \in SUBSET {d \in Devices : <<a[1], d>> \in targets} :
                      answers' = answers \cup
                          {[dev |-> a[1], job |-> a[2], state |-> st, events |-> ds]}
                 /\ UNCHANGED silent
              \/ silent' = silent \cup (IF a[2] = parseID THEN {a[1]} ELSE {}) /\ UNCHANGED answers
    BY <1>5 DEF DeviceAnswers
  <2>2. a[1] \in Devices /\ a[2] \in 1 .. NParses
    OBVIOUS
  <2>3. ASSUME NEW st \in {"Parsed", "Error"}, NEW ds \in SUBSET Devices
        PROVE  [dev |-> a[1], job |-> a[2], state |-> st, events |-> ds] \in Answer
    BY <2>2 DEF Answer
  <2> QED BY <2>1, <2>2, <2>3
<1>6. CASE HandleAnswer
  BY <1>6 DEF HandleAnswer
<1>7. CASE UNCHANGED peVars
  BY <1>7 DEF peVars, deviceVars
<1> QED BY <1>1, <1>2, <1>3, <1>4, <1>5, <1>6, <1>7 DEF ParseEngineNext, ParseThread, Abort

LEMMA AbortTypesNext ==
    ASSUME EngineTypes, AbortTypes, [ParseEngineNext]_peVars
    PROVE  AbortTypes'
<1> USE DEF AbortTypes
<1>1. CASE ParseThread
  BY <1>1 DEF ParseThread, BeginParse, CheckJob, ParseLocal, ParseNext, LoopMoves, Check, Judge,
              abortVars
<1>2. CASE DeviceAnswers \/ HandleAnswer
  BY <1>2 DEF DeviceAnswers, HandleAnswer, abortVars
<1>3. CASE AbortRead
  BY <1>3 DEF AbortRead
<1>4. CASE AbortSet
  BY <1>4 DEF AbortSet
<1>5. CASE AbortFlag
  BY <1>5 DEF AbortFlag
<1>6. CASE UNCHANGED peVars
  BY <1>6 DEF peVars, abortVars
<1> QED BY <1>1, <1>2, <1>3, <1>4, <1>5, <1>6 DEF ParseEngineNext, Abort

\* What the later invariants are proved from.
Base == EngineTypes /\ TreeTypes /\ DeviceTypes /\ AbortTypes /\ Turns

LEMMA BaseHolds == ASSUME Sizes PROVE ParseSpec => []Base
<1>1. ParseInit => Base
  <2> SUFFICES ASSUME ParseInit PROVE Base
    OBVIOUS
  <2>1. targets \subseteq Devices \X Devices
    BY DEF ParseInit
  <2>2. stopped \in BOOLEAN /\ missedStop \in BOOLEAN
    BY Zenon DEF ParseInit
  <2>3. "Idle" \in EngineState
    BY StateNames
  <2>4. EngineTypes /\ AbortTypes
    BY <2>1, <2>2, <2>3 DEF ParseInit, EngineTypes, AbortTypes, Sizes
  <2>5. TreeTypes /\ DeviceTypes
    BY DEF ParseInit, TreeTypes, DeviceTypes, Sizes
  <2>6. Turns
    BY DEF ParseInit, Turns
  <2> QED BY <2>4, <2>5, <2>6 DEF Base
<1>2. Base /\ [ParseEngineNext]_peVars => Base'
  BY EngineTypesNext, TreeTypesNext, DeviceTypesNext, AbortTypesNext, TurnsNext DEF Base
<1> QED BY <1>1, <1>2, PTL DEF ParseSpec

\* The variables of the parse keep their types, for any number of devices, parses and stops.
THEOREM ParseTypeCorrect == ASSUME Sizes PROVE ParseSpec => []ParseTypeOK
<1>1. Base => ParseTypeOK
  BY ParseTypeParts DEF Base
<1> QED BY <1>1, BaseHolds, PTL

-----------------------------------------------------------------------------
(* The word of a device in the parse under way: its job is with it, or its     *)
(* answer is on its way, or has been handled, or will never come.              *)

Asked(d)    == <<d, parseID>> \in asked
Answered(d) == \E m \in answers : m.dev = d /\ m.job = parseID
Told(d)     == parsedOwned[d] # "none"
HasJob(d)   == Asked(d) \/ Answered(d) \/ Told(d) \/ d \in silent

\* Nothing is of a parse to come.
ParsesNumbered ==
    /\ \A a \in asked : a[2] <= parseID
    /\ \A m \in answers : m.job <= parseID

\* A device that has its job is owned, and owned are those before nextID.
OwnedOnly ==
    /\ \A d \in Devices : HasJob(d) => d \in owned
    /\ parser # "idle" => \A d \in owned : d < nextID

\* A device has one word.
OneWord ==
    /\ \A d \in Devices : /\ Asked(d) => ~Answered(d) /\ ~Told(d) /\ d \notin silent
                          /\ Answered(d) => ~Told(d) /\ d \notin silent
                          /\ Told(d) => d \notin silent
    /\ \A m, n \in answers : m.dev = n.dev /\ m.job = parseID /\ n.job = parseID => m = n

Words == ParsesNumbered /\ OwnedOnly /\ OneWord

\* A new parse: what is on its way is of an earlier one.
LEMMA WordsBegin == ASSUME Base, Words, BeginParse PROVE Words'
<1> USE DEF Words, ParsesNumbered, Base
<1>1. parseID \in Nat /\ parseID' = parseID + 1 /\ asked' = asked /\ answers' = answers
  BY DEF BeginParse, EngineTypes
<1>2. asked \subseteq Devices \X Nat /\ \A m \in answers : m.job \in Nat
  BY DEF DeviceTypes, Answer
<1>3. ParsesNumbered'
  BY <1>1, <1>2
<1>4. \A d \in Devices : ~HasJob(d)'
  <2> SUFFICES ASSUME NEW d \in Devices PROVE ~HasJob(d)'
    OBVIOUS
  <2>1. ~Asked(d)'
    BY <1>1, <1>2 DEF Asked
  <2>2. ~Answered(d)'
    BY <1>1, <1>2 DEF Answered
  <2>3. ~Told(d)' /\ d \notin silent'
    BY DEF BeginParse, Told
  <2> QED BY <2>1, <2>2, <2>3 DEF HasJob
<1>5. \A m \in answers' : m.job # parseID'
  BY <1>1, <1>2
<1>6. owned' = {}
  BY DEF BeginParse
<1>7. OwnedOnly'
  BY <1>4, <1>6 DEF OwnedOnly
<1>8. OneWord'
  BY <1>4, <1>5 DEF OneWord, HasJob
<1> QED BY <1>3, <1>7, <1>8

\* A device that is sent its job had no word before, since it was not owned.
LEMMA WordsParseNext == ASSUME Base, Words, ParseNext PROVE Words'
<1> USE DEF Words, Base
<1>1. /\ parser = "loop" /\ nextID \in Devices /\ nextID' = nextID + 1 /\ nextID \in Nat
      /\ UNCHANGED <<parser, parseID, parsedOwned, answers, silent>>
  BY DEF ParseNext, engineVars, TreeTypes, Devices
<1>2. parseID \in Nat /\ owned \subseteq Nat
  BY DEF EngineTypes, TreeTypes, Devices
<1>3. nextID \notin owned
  BY <1>1, <1>2 DEF OwnedOnly
<1>4. \A d \in Devices : /\ Answered(d)' <=> Answered(d)
                         /\ Told(d)' <=> Told(d)
  BY <1>1 DEF Answered, Told
<1>5. CASE UNCHANGED <<owned, asked>>
  <2>1. \A d \in Devices : Asked(d)' <=> Asked(d)
    BY <1>1, <1>5 DEF Asked
  <2>2. ParsesNumbered'
    BY <1>1, <1>5 DEF ParsesNumbered
  <2>3. OwnedOnly'
    BY <1>1, <1>2, <1>4, <1>5, <2>1 DEF OwnedOnly, HasJob
  <2>4. OneWord'
    BY <1>1, <1>4, <2>1 DEF OneWord
  <2> QED BY <2>2, <2>3, <2>4
<1>6. CASE AskDevice
  <2>1. owned' = owned \cup {nextID} /\ asked' = asked \cup {<<nextID, parseID>>}
    BY <1>6 DEF AskDevice
  <2>2. \A d \in Devices : Asked(d)' <=> Asked(d) \/ d = nextID
    BY <1>1, <2>1 DEF Asked
  <2>3. ~HasJob(nextID)
    BY <1>1, <1>3 DEF OwnedOnly
  <2>4. ParsesNumbered'
    BY <1>1, <1>2, <2>1 DEF ParsesNumbered
  <2>5. OwnedOnly'
    BY <1>1, <1>2, <1>4, <2>1, <2>2 DEF OwnedOnly, HasJob
  <2>6. OneWord'
    BY <1>1, <1>4, <2>2, <2>3 DEF OneWord, HasJob
  <2> QED BY <2>4, <2>5, <2>6
<1> QED BY <1>5, <1>6 DEF ParseNext, SkipDevice, MissDevice

\* An answer takes the place of the job, or nothing ever does.
LEMMA WordsAnswers == ASSUME Base, Words, DeviceAnswers PROVE Words'
<1> USE DEF Words, Base
<1>1. UNCHANGED <<parser, parseID, parsedOwned, owned, nextID>>
  BY DEF DeviceAnswers, engineVars, treeVars
<1>2. PICK a \in asked :
         /\ asked' = asked \ {a}
         /\ \/ /\ \E st \in {"Parsed", "Error"},
                     ds \in SUBSET {d \in Devices : <<a[1], d>> \in targets} :
                    answers' = answers \cup
                        {[dev |-> a[1], job |-> a[2], state |-> st, events |-> ds]}
               /\ UNCHANGED silent
            \/ silent' = silent \cup (IF a[2] = parseID THEN {a[1]} ELSE {}) /\ UNCHANGED answers
  BY DEF DeviceAnswers
<1>3. a[1] \in Devices /\ a[2] \in Nat /\ a = <<a[1], a[2]>> /\ a[2] <= parseID
  BY DEF DeviceTypes, ParsesNumbered
<1>4. \A d \in Devices : /\ Told(d)' <=> Told(d)
                         /\ Asked(d)' <=> Asked(d) /\ ~(d = a[1] /\ a[2] = parseID)
  BY <1>1, <1>2, <1>3 DEF Told, Asked
<1>5. a[2] = parseID => Asked(a[1])
  BY <1>3 DEF Asked
<1>6. CASE UNCHANGED silent /\ answers' # answers
  <2>1. PICK n : n.dev = a[1] /\ n.job = a[2] /\ answers' = answers \cup {n}
    <3>1. PICK st \in {"Parsed", "Error"}, ds \in SUBSET {d \in Devices : <<a[1], d>> \in targets} :
              answers' = answers \cup {[dev |-> a[1], job |-> a[2], state |-> st, events |-> ds]}
      BY <1>2, <1>6
    <3> WITNESS [dev |-> a[1], job |-> a[2], state |-> st, events |-> ds]
    <3> QED BY <3>1
  <2>2. \A d \in Devices : Answered(d)' <=> Answered(d) \/ (d = a[1] /\ a[2] = parseID)
    BY <1>1, <2>1 DEF Answered
  <2>3. ParsesNumbered'
    BY <1>1, <1>2, <1>3, <2>1 DEF ParsesNumbered
  <2>4. OwnedOnly'
    BY <1>1, <1>4, <1>5, <1>6, <2>2 DEF OwnedOnly, HasJob
  <2>5. ASSUME NEW m \in answers', NEW k \in answers',
               m.dev = k.dev, m.job = parseID, k.job = parseID
        PROVE  m = k
    <3>1. CASE m = n /\ k \in answers
      BY <1>3, <1>5, <2>1, <2>5, <3>1 DEF OneWord, Answered
    <3>2. CASE k = n /\ m \in answers
      BY <1>3, <1>5, <2>1, <2>5, <3>2 DEF OneWord, Answered
    <3> QED BY <2>1, <2>5, <3>1, <3>2 DEF OneWord
  <2>6. OneWord'
    BY <1>1, <1>4, <1>5, <1>6, <2>2, <2>5 DEF OneWord
  <2> QED BY <2>3, <2>4, <2>6
<1>7. CASE UNCHANGED answers
  <2>1. \A d \in Devices : Answered(d)' <=> Answered(d)
    BY <1>1, <1>7 DEF Answered
  <2>2. \A d \in Devices : d \in silent' => d \in silent \/ (d = a[1] /\ a[2] = parseID)
    BY <1>2
  <2>3. ParsesNumbered'
    BY <1>1, <1>2, <1>7 DEF ParsesNumbered
  <2>4. OwnedOnly'
    BY <1>1, <1>4, <1>5, <2>1, <2>2 DEF OwnedOnly, HasJob
  <2>5. OneWord'
    BY <1>1, <1>4, <1>5, <1>7, <2>1, <2>2 DEF OneWord
  <2> QED BY <2>3, <2>4, <2>5
<1> QED BY <1>2, <1>6, <1>7

\* An answer that is handled has been told; one that is dropped leaves no word.
LEMMA WordsHandle == ASSUME Base, Words, HandleAnswer PROVE Words'
<1> USE DEF Words, Base
<1>1. UNCHANGED <<parseID, asked, owned, nextID, silent>>
  BY DEF HandleAnswer
<1>2. PICK m \in answers :
         /\ answers' = answers \ {m}
         /\ \/ /\ activeParse = m.job
               /\ parsedOwned' = IF m.dev \in owned THEN [parsedOwned EXCEPT ![m.dev] = m.state]
                                 ELSE parsedOwned
               /\ parser' = Awake
            \/ UNCHANGED <<parsedOwned, parser>>
  BY DEF HandleAnswer, ForThisParse
<1>3. m.dev \in Devices /\ m.job \in 1 .. NParses
  BY DEF DeviceTypes, Answer
<1>4. activeParse = m.job => m.job = parseID
  BY <1>3 DEF Turns
<1>5. parser' # "idle" => parser # "idle"
  BY <1>2 DEF Awake
<1>6. \A d \in Devices : /\ Asked(d)' <=> Asked(d)
                         /\ Answered(d)' => Answered(d)
                         /\ Answered(d)' => ~(d = m.dev /\ m.job = parseID)
  BY <1>1, <1>2 DEF Asked, Answered, OneWord
<1>7. \A d \in Devices : Told(d)' => Told(d) \/ (d = m.dev /\ m.job = parseID)
  BY <1>2, <1>4 DEF Told, TreeTypes
<1>8. m.job = parseID => Answered(m.dev)
  BY DEF Answered
<1>9. ParsesNumbered'
  BY <1>1, <1>2 DEF ParsesNumbered
<1>10. OwnedOnly'
  BY <1>1, <1>3, <1>5, <1>6, <1>7, <1>8 DEF OwnedOnly, HasJob
<1>11. OneWord'
  BY <1>1, <1>2, <1>3, <1>6, <1>7, <1>8 DEF OneWord
<1> QED BY <1>9, <1>10, <1>11

LEMMA WordsNext == ASSUME Base, Words, [ParseEngineNext]_peVars PROVE Words'
<1>1. CASE UNCHANGED <<parseID, parsedOwned, deviceVars, owned, nextID>>
           /\ (parser = "idle" => parser' = "idle")
  BY <1>1 DEF Words, ParsesNumbered, OwnedOnly, OneWord, HasJob, Asked, Answered, Told, deviceVars
<1>2. CASE CheckJob \/ ParseLocal \/ LoopMoves \/ Check \/ AbortRead \/ AbortSet \/ AbortFlag
  <2>1. UNCHANGED <<parseID, parsedOwned, deviceVars, owned, nextID>>
    BY <1>2, Zenon DEF CheckJob, ParseLocal, LoopMoves, Check, AbortRead, AbortSet, AbortFlag,
                       treeVars, engineVars
  <2>2. parser = "idle" => parser' = "idle"
    BY <1>2 DEF CheckJob, ParseLocal, LoopMoves, Check, AbortRead, AbortSet, AbortFlag, Awake,
                engineVars
  <2> QED BY <1>1, <2>1, <2>2
<1>3. CASE Judge
  BY <1>3 DEF Judge, Words, ParsesNumbered, OwnedOnly, OneWord, HasJob, Asked, Answered, Told,
              deviceVars
<1>4. CASE UNCHANGED peVars
  BY <1>1, <1>4 DEF peVars, treeVars, engineVars
<1> QED BY <1>2, <1>3, <1>4, WordsBegin, WordsParseNext, WordsAnswers, WordsHandle
        DEF ParseEngineNext, ParseThread, Abort

-----------------------------------------------------------------------------
(* Parsed means that all devices have said so. *)

AllParsed == eState = "Parsed" => OwnedParsed

LEMMA AllParsedNext ==
    ASSUME Base, AllParsed, [ParseEngineNext]_peVars
    PROVE  AllParsed'
<1> USE DEF AllParsed, OwnedParsed
<1>1. \A x \in EngineState : /\ SetState(x, "Error") = "Parsed" => x = "Parsed"
                             /\ SetStateOr(x, "Idle", "Error") = "Parsed" => x = "Parsed"
  BY DEF SetState, SetStateOr
<1>2. eState \in EngineState
  BY DEF Base, EngineTypes
<1>3. CASE BeginParse
  BY <1>3 DEF BeginParse
<1>4. CASE CheckJob \/ ParseLocal \/ Check
  BY <1>1, <1>2, <1>4 DEF CheckJob, ParseLocal, Check, treeVars
<1>5. CASE ParseNext
  BY <1>5 DEF ParseNext, engineVars
<1>6. CASE LoopMoves \/ Judge \/ DeviceAnswers \/ AbortRead \/ AbortFlag
  BY <1>6 DEF LoopMoves, Judge, DeviceAnswers, AbortRead, AbortFlag, treeVars, engineVars
<1>7. CASE HandleAnswer
  BY <1>7 DEF HandleAnswer
<1>8. CASE AbortSet
  BY <1>1, <1>2, <1>8 DEF AbortSet, treeVars
<1>9. CASE UNCHANGED peVars
  BY <1>9 DEF peVars, treeVars, engineVars
<1> QED BY <1>3, <1>4, <1>5, <1>6, <1>7, <1>8, <1>9 DEF ParseEngineNext, ParseThread, Abort

LEMMA WordsHold == ASSUME Sizes PROVE ParseSpec => [](Base /\ Words)
<1>1. ParseInit => Words
  BY DEF ParseInit, Words, ParsesNumbered, OwnedOnly, OneWord, HasJob, Asked, Answered, Told
<1>2. Words /\ Base /\ [ParseEngineNext]_peVars => Words'
  BY WordsNext
<1> QED BY <1>1, <1>2, BaseHolds, PTL DEF ParseSpec

\* An engine is Parsed only if every device it has sent a job has parsed this very job, in
\* parse(), handleParseMessage() and allEngineStateCheck(), for any number of devices: their
\* late answers to earlier parses and the stops in between do not count.
THEOREM ParsedMeansParsed == ASSUME Sizes PROVE ParseSpec => []ParsedMeansAllParsed
<1>1. ParseInit => AllParsed
  BY DEF ParseInit, AllParsed
<1>2. AllParsed /\ Base /\ [ParseEngineNext]_peVars => AllParsed'
  BY AllParsedNext
<1>3. Base /\ Words /\ AllParsed => ParsedMeansAllParsed
  BY DEF Base, TreeTypes, Words, OneWord, AllParsed, OwnedParsed, Asked, Told, ParsedMeansAllParsed
<1> QED BY <1>1, <1>2, <1>3, WordsHold, PTL DEF ParseSpec

-----------------------------------------------------------------------------
(* No event comes too late.  A device that may generate events for another one *)
(* stays in the tree until its answer has been handled, and none is left there *)
(* for a device that has been looked at.                                       *)

AnswersGoDown == \A m \in answers : \A d \in m.events : <<m.dev, d>> \in targets
NoneBehind == \A d \in Devices, s \in subtree : d < nextID => <<s, d>> \notin targets
InSubtree ==
    activeParse # 0 =>
        \A d \in Devices : nextID <= d \/ Asked(d) \/ Answered(d) => d \in subtree

InTime == AnswersGoDown /\ NoneBehind /\ InSubtree /\ EventsReachTheirDevice

LEMMA InTimeParseNext ==
    ASSUME Base, Words, InTime, ParseNext
    PROVE  InTime'
<1> USE DEF Base, InTime
<1>1. /\ parser = "loop" /\ nextID \in Devices /\ nextID' = nextID + 1 /\ nextID \in Nat
      /\ ~Depends(nextID) /\ activeParse # 0
      /\ UNCHANGED <<parser, activeParse, parseID, targets, eventsFor, answers>>
  BY DEF ParseNext, engineVars, TreeTypes, Devices, Turns
<1>2. \A d \in Devices : d < nextID' => d < nextID \/ d = nextID
  BY <1>1 DEF Devices
<1>3. subtree' \subseteq subtree
  BY DEF ParseNext, SkipDevice, AskDevice, MissDevice
<1>4. AnswersGoDown'
  BY <1>1 DEF AnswersGoDown
<1>5. NoneBehind'
  BY <1>1, <1>2, <1>3 DEF NoneBehind, Depends
<1>6. InSubtree'
  <2> SUFFICES ASSUME NEW d \in Devices, nextID' <= d \/ Asked(d)' \/ Answered(d)'
               PROVE  d \in subtree'
    BY DEF InSubtree
  <2>1. d < nextID /\ (Asked(d) \/ Answered(d)) => d # nextID
    BY <1>1 DEF Devices
  <2>2. Asked(nextID) \/ Answered(nextID) => FALSE
    <3>1. nextID \notin owned
      BY <1>1 DEF Words, OwnedOnly
    <3> QED BY <1>1, <3>1 DEF Words, OwnedOnly, HasJob
  <2>3. Answered(d)' <=> Answered(d)
    BY <1>1 DEF Answered
  <2>4. CASE AskDevice
    <3>1. Asked(d)' => Asked(d) \/ d = nextID
      BY <1>1, <2>4 DEF AskDevice, Asked
    <3>2. nextID <= d \/ Asked(d) \/ Answered(d)
      BY <1>1, <2>3, <3>1 DEF Devices
    <3> QED BY <1>1, <2>4, <3>2 DEF InSubtree, AskDevice
  <2>5. CASE SkipDevice \/ MissDevice
    <3>1. Asked(d)' <=> Asked(d)
      BY <1>1, <2>5 DEF SkipDevice, MissDevice, Asked
    <3>2. d # nextID
      BY <1>1, <2>2, <2>3, <3>1 DEF Devices
    <3>3. nextID <= d \/ Asked(d) \/ Answered(d)
      BY <1>1, <2>3, <3>1 DEF Devices
    <3> QED BY <1>1, <2>5, <3>2, <3>3 DEF InSubtree, SkipDevice, MissDevice
  <2> QED BY <2>4, <2>5 DEF ParseNext
<1>7. EventsReachTheirDevice'
  <2> SUFFICES ASSUME NEW d \in Devices, d < nextID'
               PROVE  (eventsFor[d] = sentWith[d] \/ d \in unreached)'
    BY DEF EventsReachTheirDevice
  <2>1. CASE d = nextID
    <3>1. sentWith[nextID] = {}
      BY <1>1 DEF Turns
    <3> QED BY <1>1, <2>1, <3>1 DEF ParseNext, SkipDevice, AskDevice, MissDevice, TreeTypes
  <2>2. CASE d # nextID
    <3>1. eventsFor[d] = sentWith[d] \/ d \in unreached
      BY <1>2, <2>2 DEF EventsReachTheirDevice
    <3>2. sentWith'[d] = sentWith[d] /\ unreached \subseteq unreached'
      BY <1>1, <2>2 DEF ParseNext, SkipDevice, AskDevice, MissDevice, TreeTypes
    <3> QED BY <1>1, <3>1, <3>2
  <2> QED BY <2>1, <2>2
<1> QED BY <1>4, <1>5, <1>6, <1>7

\* The events of an answer are for devices that have not been looked at.
LEMMA InTimeHandle ==
    ASSUME Base, Words, InTime, HandleAnswer
    PROVE  InTime'
<1> USE DEF Base, InTime
<1>1. UNCHANGED <<targets, parseID, activeParse, nextID, sentWith, unreached, asked>>
  BY DEF HandleAnswer
<1>2. PICK m \in answers :
         /\ answers' = answers \ {m}
         /\ \/ /\ activeParse = m.job
               /\ eventsFor' = [d \in Devices |-> IF d \in m.events
                                                  THEN eventsFor[d] \cup {m.dev}
                                                  ELSE eventsFor[d]]
               /\ subtree' = subtree \ {m.dev}
            \/ UNCHANGED <<eventsFor, subtree>>
  BY DEF HandleAnswer, ForThisParse
<1>3. m.dev \in Devices /\ m.job \in 1 .. NParses
  BY DEF DeviceTypes, Answer
<1>4. activeParse = m.job => m.job = parseID /\ activeParse # 0 /\ Answered(m.dev)
  BY <1>3 DEF Turns, Answered
<1>5. AnswersGoDown'
  BY <1>1, <1>2 DEF AnswersGoDown
<1>6. NoneBehind'
  BY <1>1, <1>2 DEF NoneBehind
<1>7. InSubtree'
  <2> SUFFICES ASSUME activeParse # 0, NEW d \in Devices,
                      nextID <= d \/ Asked(d)' \/ Answered(d)'
               PROVE  d \in subtree'
    BY <1>1 DEF InSubtree
  <2>1. (Asked(d)' <=> Asked(d)) /\ (Answered(d)' => Answered(d))
    BY <1>1, <1>2 DEF Asked, Answered
  <2>2. d \in subtree
    BY <2>1 DEF InSubtree
  <2>3. ASSUME activeParse = m.job PROVE d # m.dev
    <3>1. m.dev < nextID /\ m.dev \in Nat /\ nextID \in Nat
      <4>1. m.dev \in owned
        BY <1>3, <1>4, <2>3 DEF Words, OwnedOnly, HasJob
      <4>2. parser # "idle"
        BY DEF Turns
      <4> QED BY <1>3, <4>1, <4>2 DEF Words, OwnedOnly, Devices, TreeTypes
    <3>2. ~Asked(m.dev) /\ (Answered(m.dev)' => FALSE)
      BY <1>1, <1>2, <1>3, <1>4, <2>3 DEF Words, OneWord, Answered
    <3> QED BY <2>1, <3>1, <3>2
  <2> QED BY <1>2, <2>2, <2>3
<1>8. EventsReachTheirDevice'
  <2> SUFFICES ASSUME NEW d \in Devices, d < nextID
               PROVE  eventsFor'[d] = eventsFor[d]
    BY <1>1 DEF EventsReachTheirDevice
  <2>1. ASSUME activeParse = m.job PROVE d \notin m.events
    <3>1. m.dev \in subtree
      BY <1>3, <1>4, <2>1 DEF InSubtree
    <3> QED BY <3>1 DEF NoneBehind, AnswersGoDown
  <2> QED BY <1>2, <2>1 DEF TreeTypes
<1> QED BY <1>5, <1>6, <1>7, <1>8

LEMMA InTimeAnswers ==
    ASSUME Base, Words, InTime, DeviceAnswers
    PROVE  InTime'
<1> USE DEF Base, InTime
<1>1. UNCHANGED <<targets, parseID, activeParse, nextID, subtree, eventsFor, sentWith, unreached>>
  BY DEF DeviceAnswers, engineVars, treeVars
<1>2. PICK a \in asked :
         /\ asked' = asked \ {a}
         /\ \/ \E st \in {"Parsed", "Error"},
                  ds \in SUBSET {d \in Devices : <<a[1], d>> \in targets} :
                 answers' = answers \cup
                     {[dev |-> a[1], job |-> a[2], state |-> st, events |-> ds]}
            \/ UNCHANGED answers
  BY DEF DeviceAnswers
<1>3. a[1] \in Devices /\ a = <<a[1], a[2]>>
  BY DEF DeviceTypes
<1>4. a[2] = parseID => Asked(a[1])
  BY <1>3 DEF Asked
<1>5. \A d \in Devices : (Asked(d)' => Asked(d)) /\ (Answered(d)' => Answered(d) \/ Asked(d))
  BY <1>1, <1>2, <1>4 DEF Asked, Answered
<1>6. AnswersGoDown'
  <2> SUFFICES ASSUME NEW m \in answers', m \notin answers, NEW d \in m.events
               PROVE  <<m.dev, d>> \in targets
    BY <1>1 DEF AnswersGoDown
  <2>1. PICK st \in {"Parsed", "Error"}, ds \in SUBSET {e \in Devices : <<a[1], e>> \in targets} :
           m = [dev |-> a[1], job |-> a[2], state |-> st, events |-> ds]
    BY <1>2
  <2>2. m.dev = a[1] /\ d \in ds
    BY <2>1
  <2> QED BY <2>2
<1>7. NoneBehind' /\ EventsReachTheirDevice'
  BY <1>1 DEF NoneBehind, EventsReachTheirDevice
<1>8. InSubtree'
  BY <1>1, <1>5 DEF InSubtree
<1> QED BY <1>6, <1>7, <1>8

LEMMA InTimeNext ==
    ASSUME Base, Words, InTime, [ParseEngineNext]_peVars
    PROVE  InTime'
<1> USE DEF Base, InTime
<1>1. ASSUME nextID' = 1, UNCHANGED <<targets, answers>>, InSubtree' PROVE InTime'
  <2>1. NoneBehind' /\ EventsReachTheirDevice'
    BY <1>1 DEF NoneBehind, EventsReachTheirDevice, Devices
  <2> QED BY <1>1, <2>1 DEF AnswersGoDown
<1>2. CASE BeginParse
  BY <1>1, <1>2 DEF BeginParse, Turns, InSubtree
<1>3. CASE CheckJob
  <2>1. InSubtree'
    BY <1>3 DEF CheckJob, Turns, InSubtree
  <2>2. nextID' = 1 /\ UNCHANGED <<targets, answers>>
    BY <1>3 DEF CheckJob, Turns, deviceVars
  <2> QED BY <1>1, <2>1, <2>2
<1>4. CASE ParseLocal
  <2>1. InSubtree'
    BY <1>4 DEF ParseLocal, InSubtree, deviceVars, Asked, Answered
  <2>2. nextID' = 1 /\ UNCHANGED <<targets, answers>>
    BY <1>4 DEF ParseLocal, Turns, deviceVars
  <2> QED BY <1>1, <2>1, <2>2
<1>5. CASE Judge
  BY <1>1, <1>5 DEF Judge, Turns, InSubtree, deviceVars
<1>6. ASSUME UNCHANGED <<targets, treeVars, parseID, asked, answers>>,
             activeParse' \in {0, activeParse}
      PROVE  InTime'
  BY <1>6 DEF treeVars, AnswersGoDown, NoneBehind, InSubtree, EventsReachTheirDevice, Asked,
     Answered
<1>7. CASE Check \/ LoopMoves \/ AbortRead \/ AbortSet \/ AbortFlag
  BY <1>6, <1>7 DEF Check, LoopMoves, AbortRead, AbortSet, AbortFlag, engineVars, deviceVars
<1>8. CASE UNCHANGED peVars
  BY <1>6, <1>8 DEF peVars, engineVars, deviceVars
<1> QED BY <1>2, <1>3, <1>4, <1>5, <1>7, <1>8, InTimeParseNext, InTimeAnswers, InTimeHandle
        DEF ParseEngineNext, ParseThread, Abort

\* When parseDevice() has looked at a device, everything that the others have generated for
\* it was in its job, for any tree of targets: getDependentNodeCount makes it wait for them.
THEOREM EventsAreInTime == ASSUME Sizes PROVE ParseSpec => []EventsReachTheirDevice
<1>1. ParseInit => InTime
  <2> SUFFICES ASSUME ParseInit PROVE InTime
    OBVIOUS
  <2>1. NoneBehind /\ EventsReachTheirDevice
    BY DEF ParseInit, NoneBehind, EventsReachTheirDevice
  <2>2. AnswersGoDown /\ InSubtree
    BY DEF ParseInit, AnswersGoDown, InSubtree
  <2> QED BY <2>1, <2>2 DEF InTime
<1>2. InTime /\ Base /\ Words /\ [ParseEngineNext]_peVars => InTime'
  BY InTimeNext
<1>3. InTime => EventsReachTheirDevice
  BY DEF InTime
<1> QED BY <1>1, <1>2, <1>3, WordsHold, PTL DEF ParseSpec

=============================================================================
