----------------------------- MODULE ParseEngine -----------------------------
(***************************************************************************)
(* LocalEventEngine::parse on a device that is the server of others: after *)
(* its own events it sends each device its parse job, once all devices     *)
(* that may generate events for it have answered.  The parse thread holds  *)
(* parseMutex but in its waits, a message handler takes it, and stop()     *)
(* does not.  Devices are numbered as sortTree orders them; devices this   *)
(* one does not serve leave the tree like devices without events.          *)
(***************************************************************************)
EXTENDS EngineStates, Naturals, FiniteSets

CONSTANTS NDevices,  \* devices below this one
          NParses,   \* parse jobs, one after the other
          MaxAborts  \* calls of stop

Devices == 1 .. NDevices
Sources == 0 .. NDevices   \* 0: the shot and this device itself

VARIABLES
    targets,    \* the declared targets: edges of the dependency tree
    eState,     \* state
    stopped,    \* cancelled, until parse() has looked at it
    parseID,    \* lastParseID, 0 before the first
    activeParse,\* activeParseJobID, 0 without activeParseJob
    parser,     \* where the parse thread is
    nextID,     \* the next of orderedDependents
    subtree,    \* localSubtree: devices not removed
    eventsFor,  \* eventsByTarget: whose events there are for a device
    sentWith,   \* history: whose events were in the device's parse job
    owned,      \* ownedTargets
    parsedOwned,\* parsedOwnedTargets, "none" where it has no key
    unreached,  \* missingTargets
    asked,      \* devices that have a job and have not answered
    answers,    \* ParseComplete messages on their way
    aborter,    \* where stop() is
    aborts, missedStop, \* history: calls of stop, and one that notified nobody
    silent      \* history: devices that will never answer in this parse

treeVars   == <<nextID, subtree, eventsFor, sentWith, owned, unreached>>
engineVars == <<eState, stopped, parseID, activeParse, parser>>
deviceVars == <<asked, answers, silent>>
abortVars  == <<aborter, aborts, missedStop>>
peVars == <<targets, engineVars, treeVars, parsedOwned, deviceVars, abortVars>>

Answer == [dev : Devices, job : 1 .. NParses, state : {"Parsed", "Error"},
           events : SUBSET Devices]

\* The engine, the tree, the messages and the callers have the types of the code.
ParseTypeOK ==
    /\ targets \subseteq Devices \X Devices
    /\ eState \in EngineState /\ stopped \in BOOLEAN
    /\ parseID \in 0 .. NParses /\ activeParse \in 0 .. NParses
    /\ parser \in {"idle", "begun", "local", "loop", "wait", "asleep", "gather", "waitAll",
                   "asleepAll", "check", "judge"}
    /\ nextID \in 1 .. NDevices + 1 /\ subtree \subseteq Devices
    /\ eventsFor \in [Devices -> SUBSET Sources] /\ sentWith \in [Devices -> SUBSET Sources]
    /\ owned \subseteq Devices /\ unreached \subseteq Devices
    /\ parsedOwned \in [Devices -> {"none", "Parsed", "Error"}]
    /\ asked \subseteq Devices \X (1 .. NParses) /\ silent \subseteq Devices
    /\ answers \subseteq Answer
    /\ aborter \in {"idle", "Parsing", "Error", "flag"}
    /\ aborts \in Nat /\ missedStop \in BOOLEAN

\* The targets may be any that can be sorted.
ParseInit ==
    /\ targets \in SUBSET {e \in Devices \X Devices : e[1] < e[2]}
    /\ eState = "Idle" /\ stopped = FALSE /\ parseID = 0 /\ activeParse = 0
    /\ parser = "idle" /\ nextID = 1 /\ subtree = {}
    /\ eventsFor = [d \in Devices |-> {}] /\ sentWith = [d \in Devices |-> {}]
    /\ owned = {} /\ parsedOwned = [d \in Devices |-> "none"] /\ unreached = {}
    /\ asked = {} /\ answers = {}
    /\ aborter = "idle" /\ aborts = 0 /\ missedStop = FALSE /\ silent = {}

-----------------------------------------------------------------------------
(* The parse thread. *)

\* clear() and the first setState.
BeginParse ==
    /\ parser = "idle" /\ parseID < NParses /\ parser' = "begun"
    /\ parseID' = parseID + 1 /\ activeParse' = 0
    /\ eState' = SetState(SetState(eState, "Idle"), "Parsing") /\ stopped' = FALSE
    /\ eventsFor' = [d \in Devices |-> {}] /\ owned' = {} /\ unreached' = {} /\ silent' = {}
    /\ parsedOwned' = [d \in Devices |-> "none"]
    /\ UNCHANGED <<targets, nextID, subtree, sentWith, asked, answers, abortVars>>

\* A job without a shot or a tree, or a stop() meanwhile: parse() returns, and sends no
\* ParseComplete.  Otherwise the subtree is made and the loop can begin.
CheckJob ==
    /\ parser = "begun" /\ stopped' = FALSE
    /\ \/ parser' = "judge" /\ stopped /\ UNCHANGED <<eState, activeParse, subtree>>
       \/ parser' = "judge" /\ eState' = SetState(eState, "Error") /\ UNCHANGED <<activeParse, subtree>>
       \/ /\ parser' = "local" /\ ~stopped /\ activeParse' = parseID /\ subtree' = Devices
          /\ UNCHANGED eState
    /\ UNCHANGED <<targets, parseID, nextID, eventsFor, sentWith, owned, unreached, parsedOwned,
                   deviceVars, abortVars>>

\* parseDevice for the device itself, the root of its tree: the shot and its own partner
\* events give some devices something to parse.
ParseLocal ==
    /\ parser = "local" /\ parser' = "loop"
    /\ eventsFor' \in [Devices -> {{}, {0}}]
    /\ eState' \in {eState, SetState(eState, "Error")}
    /\ UNCHANGED <<targets, stopped, parseID, activeParse, nextID, subtree, sentWith, owned,
                   unreached, parsedOwned, deviceVars, abortVars>>

\* parseDevice for another one: it is skipped, gets a job, or cannot be contacted.
SkipDevice ==
    /\ eventsFor[nextID] = {} /\ subtree' = subtree \ {nextID}
    /\ UNCHANGED <<owned, asked, sentWith, unreached>>
AskDevice ==
    /\ eventsFor[nextID] # {} /\ owned' = owned \cup {nextID}
    /\ asked' = asked \cup {<<nextID, parseID>>}
    /\ sentWith' = [sentWith EXCEPT ![nextID] = eventsFor[nextID]]
    /\ UNCHANGED <<subtree, unreached>>
MissDevice ==
    /\ eventsFor[nextID] # {} /\ subtree' = subtree \ {nextID}
    /\ unreached' = unreached \cup {nextID}
    /\ UNCHANGED <<owned, asked, sentWith>>

\* getDependentNodeCount is not zero.  Mutant: what is sent off counts no more.
DependsOnRest(d) == \E s \in subtree \ owned : <<s, d>> \in targets
Depends(d) == \E s \in subtree : <<s, d>> \in targets

ParseNext ==
    /\ parser = "loop" /\ eState = "Parsing" /\ nextID <= NDevices /\ ~Depends(nextID)
    /\ SkipDevice \/ AskDevice \/ MissDevice
    /\ nextID' = nextID + 1
    /\ UNCHANGED <<targets, engineVars, eventsFor, parsedOwned, answers, silent,
                   abortVars>>

\* The rest of the loop, the wait for the owned devices, and the waits themselves.
AllAnswered == Cardinality({d \in Devices : parsedOwned[d] # "none"}) = Cardinality(owned)
LoopMoves ==
    /\ \/ /\ parser = "loop" /\ eState = "Parsing" /\ nextID <= NDevices /\ Depends(nextID)
          /\ parser' = "wait"
       \/ /\ parser = "loop" /\ (eState # "Parsing" \/ nextID > NDevices)
          /\ parser' = "gather"
       \/ /\ parser = "gather"
          /\ parser' = IF eState = "Parsing" /\ ~AllAnswered THEN "waitAll" ELSE "check"
       \/ parser = "wait" /\ parser' = "asleep"
       \/ parser = "waitAll" /\ parser' = "asleepAll"
    /\ UNCHANGED <<targets, eState, stopped, parseID, activeParse, treeVars, parsedOwned,
                   deviceVars, abortVars>>

\* allEngineStateCheck, the errors of this device's own parser, and the end of parse(); of
\* cancelParseJob's call to the owned devices what they answer is theirs.
OwnedParsed == \A d \in owned : parsedOwned[d] = "Parsed"

Check ==
    /\ parser = "check" /\ parser' = "judge" /\ activeParse' = 0
    /\ \/ OwnedParsed /\ SetStateOk(eState, "Parsed") /\ eState' = "Parsed"
       \/ eState' = SetState(eState, "Error")
    /\ UNCHANGED <<targets, stopped, parseID, treeVars, parsedOwned, deviceVars, abortVars>>

\* runJob reports the job; the engine is free, and the locals of parse() are gone.
Judge ==
    /\ parser = "judge" /\ parser' = "idle"
    /\ nextID' = 1 /\ subtree' = {} /\ sentWith' = [d \in Devices |-> {}]
    /\ missedStop' = FALSE
    /\ UNCHANGED <<targets, eState, stopped, parseID, activeParse, eventsFor, owned, unreached,
                   parsedOwned, deviceVars, aborter, aborts>>

ParseThread == BeginParse \/ CheckJob \/ ParseLocal \/ ParseNext \/ LoopMoves \/ Check \/ Judge

-----------------------------------------------------------------------------
(* The devices and the message handler. *)

\* A device parses its job and answers, with the events it has generated for its targets;
\* or it never does: its job was cancelled in its queue, or it is gone.
DeviceAnswers == \E a \in asked :
    /\ asked' = asked \ {a}
    /\ \/ /\ \E st \in {"Parsed", "Error"}, ds \in SUBSET {d \in Devices : <<a[1], d>> \in targets} :
               answers' = answers \cup {[dev |-> a[1], job |-> a[2], state |-> st, events |-> ds]}
          /\ UNCHANGED silent
       \/ silent' = silent \cup (IF a[2] = parseID THEN {a[1]} ELSE {}) /\ UNCHANGED answers
    /\ UNCHANGED <<targets, engineVars, treeVars, parsedOwned, abortVars>>

\* handleParseMessage: an answer to the parse that is under way.
\* Mutants: an answer to any parse; the parse thread is not notified.
ForAnyParse(m)  == activeParse # 0
ForThisParse(m) == activeParse = m.job
StaysAsleep == parser
Awake == CASE parser = "asleep" -> "loop" [] parser = "asleepAll" -> "gather" [] OTHER -> parser

HandleAnswer == \E m \in answers :
    /\ parser \in {"asleep", "asleepAll", "judge", "idle"}
    /\ answers' = answers \ {m}
    /\ IF ForThisParse(m) /\ eState = "Parsing"
       THEN /\ parsedOwned' = IF m.dev \in owned THEN [parsedOwned EXCEPT ![m.dev] = m.state]
                              ELSE parsedOwned
            /\ eventsFor' = [d \in Devices |-> IF d \in m.events THEN eventsFor[d] \cup {m.dev}
                                               ELSE eventsFor[d]]
            /\ subtree' = subtree \ {m.dev} /\ parser' = Awake
       ELSE UNCHANGED <<parsedOwned, eventsFor, subtree, parser>>
    /\ UNCHANGED <<targets, eState, stopped, parseID, activeParse, nextID, sentWith, owned,
                   unreached, asked, silent, abortVars>>

-----------------------------------------------------------------------------
(* stop(), which holds no lock: it acts on the state it has read. *)

AbortRead ==
    /\ aborter = "idle" /\ aborts < MaxAborts /\ eState \in {"Parsing", "Error"}
    /\ aborts' = aborts + 1 /\ aborter' = eState
    /\ UNCHANGED <<targets, engineVars, treeVars, parsedOwned, deviceVars, missedStop>>

AbortSet ==
    /\ aborter = "Parsing" /\ aborter' = "flag" /\ eState' = SetStateOr(eState, "Idle", "Error")
    /\ UNCHANGED <<targets, stopped, parseID, activeParse, parser, treeVars, parsedOwned,
                   deviceVars, aborts, missedStop>>

\* cancelled is set; of an engine that was Parsing releaseParseLock notifies the parse
\* thread, which does not hear it when it is about to sleep.
AbortFlag ==
    /\ aborter \in {"Error", "flag"} /\ aborter' = "idle"
    /\ stopped' = (parser = "begun" \/ stopped)
    /\ IF aborter = "flag"
       THEN parser' = Awake /\ missedStop' = (missedStop \/ parser \in {"wait", "waitAll"})
       ELSE UNCHANGED <<parser, missedStop>>
    /\ UNCHANGED <<targets, eState, parseID, activeParse, treeVars, parsedOwned, deviceVars,
                   aborts>>

Abort == AbortRead \/ AbortSet \/ AbortFlag

ParseEngineNext == ParseThread \/ DeviceAnswers \/ HandleAnswer \/ Abort

ParseSpec == ParseInit /\ [][ParseEngineNext]_peVars

ParseGoesOn == CheckJob \/ ParseLocal \/ ParseNext \/ LoopMoves \/ Check \/ Judge
AbortGoesOn == AbortSet \/ AbortFlag

\* The threads run, devices answer or will never do, messages are delivered.
ParseFairSpec ==
    /\ ParseSpec
    /\ WF_peVars(ParseGoesOn) /\ WF_peVars(AbortGoesOn)
    /\ WF_peVars(DeviceAnswers) /\ WF_peVars(HandleAnswer)

-----------------------------------------------------------------------------
(* Properties. *)

\* An engine that is Parsed has the word of every device it has sent a job, for this parse:
\* no answer to an earlier one, late as it may come, counts.
ParsedMeansAllParsed ==
    eState = "Parsed" =>
        \A d \in owned : /\ parsedOwned[d] = "Parsed"
                         /\ d \notin silent /\ <<d, parseID>> \notin asked

\* No event comes too late: when a device has got its job, everything that is known to have
\* been generated for it was in it.
EventsReachTheirDevice ==
    \A d \in Devices :
        d < nextID => eventsFor[d] = sentWith[d] \/ d \in unreached

\* A parse ends, aborted or not, unless a device that was sent a job never answers, or
\* stop() notified while the parse thread was between its test and its sleep.
ParseEnds ==
    parser # "idle" ~> parser = "idle" \/ missedStop \/ silent \cap owned # {}

=============================================================================
