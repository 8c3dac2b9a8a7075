--------------------------- MODULE MessageGrouper ---------------------------
(***************************************************************************)
(* STI::Device::MessageGrouper: messages that come in a burst are sent as  *)
(* one.  The loop waits a warmup time for the rest of the burst, sends     *)
(* what was collected, without the mutex, and waits a cooldown time before *)
(* it sends more.  A wait may end early (stop notifies); time is not       *)
(* measured.  Messages are numbered in the order they are added.           *)
(***************************************************************************)
EXTENDS Naturals, Sequences

CONSTANTS Senders,      \* threads that call addMessage
          MaxMessages,  \* messages added
          MaxStops      \* calls of stop, each followed by a start

VARIABLES
    grouping,   \* running
    phase,      \* state
    cached,     \* messageCached
    message,    \* the messages merged into one; what was sent stays there
    toDispatch, \* the group the loop is sending
    loop,       \* where the loop's thread is
    immediate,  \* by sender: the message it is about to send itself, 0 if none
    offered,    \* history: messages added
    sent,       \* history: the groups sent, in order
    stops       \* history: calls of stop

gVars == <<grouping, phase, cached, message, toDispatch, loop, immediate, offered, sent, stops>>

\* The state, the pending message and the loop have the types of the code.
GrouperTypeOK ==
    /\ grouping \in BOOLEAN /\ cached \in BOOLEAN
    /\ phase \in {"Idle", "Warming", "Sending", "Cooling"}
    /\ message \in SUBSET (1 .. MaxMessages) /\ toDispatch \in SUBSET (1 .. MaxMessages)
    /\ loop \in {"off", "top", "idle", "warm", "sending", "cooling"}
    /\ immediate \in [Senders -> 0 .. MaxMessages]
    /\ offered \in 0 .. MaxMessages /\ stops \in Nat
    /\ sent \in Seq(SUBSET (1 .. MaxMessages))

GrouperInit ==
    /\ grouping = TRUE /\ phase = "Idle" /\ cached = FALSE /\ message = {} /\ toDispatch = {}
    /\ loop = "top" /\ immediate = [s \in Senders |-> 0]
    /\ offered = 0 /\ sent = <<>> /\ stops = 0

-----------------------------------------------------------------------------
(* The callers. *)

\* A message that can be grouped joins the one that waits, or becomes it.
\* Mutant: it always becomes it.
MergedLast(m) == {m}
Merged(m) == IF cached /\ phase # "Idle" THEN message \cup {m} ELSE {m}

AddGroupable(m) ==
    /\ message' = Merged(m) /\ cached' = TRUE
    /\ phase' = IF phase = "Idle" THEN "Warming" ELSE phase
    /\ loop' = IF phase = "Idle" /\ loop = "idle" THEN "warm" ELSE loop
    /\ UNCHANGED immediate

\* One that cannot is sent by its caller, once the mutex is free again.
AddImmediate(s, m) ==
    immediate' = [immediate EXCEPT ![s] = m] /\ UNCHANGED <<message, cached, phase, loop>>

AddMessage(s) ==
    /\ offered < MaxMessages /\ immediate[s] = 0 /\ offered' = offered + 1
    /\ IF grouping THEN AddGroupable(offered') \/ AddImmediate(s, offered')
       ELSE UNCHANGED <<message, cached, phase, loop, immediate>>
    /\ UNCHANGED <<grouping, toDispatch, sent, stops>>

DispatchImmediate(s) ==
    /\ immediate[s] # 0
    /\ sent' = Append(sent, {immediate[s]}) /\ immediate' = [immediate EXCEPT ![s] = 0]
    /\ UNCHANGED <<grouping, phase, cached, message, toDispatch, loop, offered, stops>>

\* stop() joins the thread; the next start() finds it ended.
StopGrouper ==
    /\ grouping /\ stops < MaxStops /\ stops' = stops + 1
    /\ grouping' = FALSE /\ loop' = IF loop = "idle" THEN "warm" ELSE loop
    /\ UNCHANGED <<phase, cached, message, toDispatch, immediate, offered, sent>>

StartGrouper ==
    /\ ~grouping /\ loop = "off"
    /\ grouping' = TRUE /\ loop' = "top"
    /\ UNCHANGED <<phase, cached, message, toDispatch, immediate, offered, sent, stops>>

-----------------------------------------------------------------------------
(* messageHandlerLoop, which holds cacherMutex except in its waits and while it sends:   *)
(* each action is the code from one such point to the next.                              *)

\* A round begins at its first wait.
Turn(ph) == IF ~grouping THEN "off" ELSE IF ph = "Idle" THEN "idle" ELSE "warm"

Top ==
    /\ loop = "top" /\ loop' = Turn(phase)
    /\ UNCHANGED <<grouping, phase, cached, message, toDispatch, immediate, offered, sent,
                   stops>>

\* What is sent does not wait any more.  Mutant: it does.
CachedStill == cached
CachedAfter == FALSE

\* The warmup wait is over: the burst is sent, unless the grouper was stopped.
SendGroup ==
    /\ loop = "warm"
    /\ IF phase = "Warming" /\ grouping
       THEN /\ loop' = "sending" /\ phase' = "Sending"
            /\ cached' = CachedAfter /\ toDispatch' = IF cached THEN message ELSE {}
       ELSE loop' = "cooling" /\ UNCHANGED <<phase, cached, toDispatch>>
    /\ UNCHANGED <<grouping, message, immediate, offered, sent, stops>>

Sent ==
    /\ loop = "sending" /\ loop' = "cooling" /\ phase' = "Cooling"
    /\ sent' = IF toDispatch = {} THEN sent ELSE Append(sent, toDispatch)
    /\ toDispatch' = {}
    /\ UNCHANGED <<grouping, cached, message, immediate, offered, stops>>

\* The cooldown wait is over, or there was none: the messages that came meanwhile warm up.
NextPhase == IF cached /\ grouping THEN "Warming" ELSE "Idle"

Cooled ==
    /\ loop = "cooling" /\ phase' = NextPhase /\ loop' = Turn(phase')
    /\ UNCHANGED <<grouping, cached, message, toDispatch, immediate, offered, sent, stops>>

GrouperLoop == Top \/ SendGroup \/ Sent \/ Cooled

GrouperNext ==
    \/ GrouperLoop \/ StopGrouper \/ StartGrouper
    \/ \E s \in Senders : AddMessage(s) \/ DispatchImmediate(s)

GrouperSpec == GrouperInit /\ [][GrouperNext]_gVars

\* The loop's thread runs, its waits end, and dispatchMessage returns.
GrouperFairSpec == GrouperSpec /\ WF_gVars(GrouperLoop)

-----------------------------------------------------------------------------
(* Properties. *)

WasSent(m) == \E i \in DOMAIN sent : m \in sent[i]

\* Every message is sent, by its caller or by the loop, though no other comes after it,
\* unless the grouper stops.
GrouperSends ==
    []<>(stops > 0 \/ \A m \in 1 .. offered : WasSent(m) \/ \E s \in Senders : immediate[s] = m)

\* A message is sent once, and groups leave in the order of their messages; only a message
\* that cannot be grouped overtakes the ones that wait, alone.
GrouperOrder ==
    \A i, j \in DOMAIN sent : i < j =>
        \A m \in sent[i], n \in sent[j] :
            m < n \/ (m > n /\ (sent[i] = {m} \/ sent[j] = {n}))

=============================================================================
