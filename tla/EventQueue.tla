----------------------------- MODULE EventQueue -----------------------------
(***************************************************************************)
(* STI::Utils::EventQueue: a handler thread takes events from a list under *)
(* fifoMutex and handles them without it, while other threads add events,  *)
(* clear the list, start the queue and stop it.  Every critical section is *)
(* one action.  The events are numbered in the order they are added.       *)
(***************************************************************************)
EXTENDS Naturals, Sequences

CONSTANTS MaxEvents,  \* events added
          MaxClears,  \* calls of clearEvents
          MaxStarts   \* calls of start

VARIABLES
    fifo,           \* the events that wait
    running,        \* events are accepted and the thread goes on
    eventToHandle,  \* the thread's local copy, 0 before the first
    fresh,          \* history: this copy has not been handled yet
    thread,         \* where the handler thread is
    owner,          \* "stopping" while stop() joins the thread
    added,          \* history: events offered
    handled,        \* history: events handled, in their order
    clears, wiped,  \* history: calls of clearEvents, and one since the last start
    starts          \* history: calls of start

qVars == <<fifo, running, eventToHandle, fresh, thread, owner, added, handled, clears,
           wiped, starts>>

Places == {"off", "loop", "wait", "asleep", "take", "gate", "handle"}

\* The variables have the types the code gives them; the handled events are a sequence of
\* events that were added (0 for the empty one).
QueueTypeOK ==
    /\ fifo \in Seq(1 .. MaxEvents) /\ running \in BOOLEAN
    /\ eventToHandle \in 0 .. MaxEvents /\ fresh \in BOOLEAN
    /\ thread \in Places /\ owner \in {"idle", "stopping"}
    /\ added \in 0 .. MaxEvents /\ handled \in Seq(0 .. MaxEvents)
    /\ clears \in Nat /\ wiped \in BOOLEAN /\ starts \in Nat

QueueInit ==
    /\ fifo = <<>> /\ running = FALSE /\ eventToHandle = 0 /\ fresh = FALSE
    /\ thread = "off" /\ owner = "idle" /\ added = 0 /\ handled = <<>>
    /\ clears = 0 /\ wiped = FALSE /\ starts = 0

Woken == thread' = IF thread = "asleep" THEN "wait" ELSE thread
GoTo(from, to) == thread = from /\ thread' = to

-----------------------------------------------------------------------------
(* The callers. *)

\* addEvent and addPriorityEvent, which puts the event in front.  A queue that does not
\* run refuses it.  Mutants: the thread is not notified; the queue takes the event anyway.
InsertAnyway(line) == fifo' = line /\ Woken
InsertSilent(line) == fifo' = (IF running THEN line ELSE fifo) /\ UNCHANGED thread
Insert(line) == IF running THEN fifo' = line /\ Woken ELSE UNCHANGED <<fifo, thread>>

AddEvent ==
    /\ added < MaxEvents /\ added' = added + 1
    /\ \E line \in {Append(fifo, added'), <<added'>> \o fifo} : Insert(line)
    /\ UNCHANGED <<running, eventToHandle, fresh, owner, handled, clears, wiped, starts>>

ClearEvents ==
    /\ clears < MaxClears /\ clears' = clears + 1 /\ wiped' = TRUE
    /\ fifo' = <<>> /\ Woken
    /\ UNCHANGED <<running, eventToHandle, fresh, owner, added, handled, starts>>

\* What was left in the list by a stop is still there.
Start ==
    /\ owner = "idle" /\ ~running /\ starts < MaxStarts
    /\ running' = TRUE /\ thread' = "loop" /\ starts' = starts + 1
    /\ eventToHandle' = 0 /\ fresh' = FALSE /\ wiped' = FALSE
    /\ UNCHANGED <<fifo, owner, added, handled, clears>>

\* stop() returns at once from a queue that does not run; else it joins the thread.
\* Mutant: the thread is not notified.
HaltSilent == running' = FALSE /\ UNCHANGED thread
Halt == running' = FALSE /\ Woken

Stop ==
    /\ owner = "idle" /\ running /\ Halt /\ owner' = "stopping"
    /\ UNCHANGED <<fifo, eventToHandle, fresh, added, handled, clears, wiped, starts>>

Joined ==
    /\ owner = "stopping" /\ thread = "off" /\ owner' = "idle"
    /\ UNCHANGED <<fifo, running, eventToHandle, fresh, thread, added, handled, clears,
                   wiped, starts>>

-----------------------------------------------------------------------------
(* The handler thread.  running is read at "loop" and "gate" without the mutex. *)

Loop ==
    /\ GoTo("loop", IF running THEN "wait" ELSE "off")
    /\ UNCHANGED <<fifo, running, eventToHandle, fresh, owner, added, handled, clears, wiped,
                   starts>>

Wait ==
    /\ GoTo("wait", IF fifo = <<>> /\ running THEN "asleep" ELSE "take")
    /\ UNCHANGED <<fifo, running, eventToHandle, fresh, owner, added, handled, clears, wiped,
                   starts>>

\* The list may have been cleared since wait() returned: then the copy stays what it was.
\* Mutant: the event is copied and left in the list.
RestKept(line) == line
Rest(line) == Tail(line)

TakeEvent ==
    /\ GoTo("take", "gate")
    /\ IF fifo = <<>> THEN UNCHANGED <<fifo, eventToHandle, fresh>>
       ELSE eventToHandle' = Head(fifo) /\ fifo' = Rest(fifo) /\ fresh' = TRUE
    /\ UNCHANGED <<running, owner, added, handled, clears, wiped, starts>>

\* After a stop the event that was taken is not handled.
Gate ==
    /\ GoTo("gate", IF running THEN "handle" ELSE "loop")
    /\ handled' = IF running THEN Append(handled, eventToHandle) ELSE handled
    /\ fresh' = FALSE
    /\ UNCHANGED <<fifo, running, eventToHandle, owner, added, clears, wiped, starts>>

\* handleEvent returns.
HandleDone ==
    /\ GoTo("handle", "loop")
    /\ UNCHANGED <<fifo, running, eventToHandle, fresh, owner, added, handled, clears, wiped,
                   starts>>

Handler == Loop \/ Wait \/ TakeEvent \/ Gate \/ HandleDone

QueueNext == AddEvent \/ ClearEvents \/ Start \/ Stop \/ Joined \/ Handler

QueueSpec == QueueInit /\ [][QueueNext]_qVars

\* The thread runs and handleEvent returns.
QueueFairSpec == QueueSpec /\ WF_qVars(Handler) /\ WF_qVars(Joined)

-----------------------------------------------------------------------------
(* Properties. *)

\* An event is in one place, once: it waits, is about to be handled, or was handled.  A
\* second time is possible only when clearEvents fell between the wait and the copy.
QueueAtMostOnce ==
    LET line == (IF fresh THEN <<eventToHandle>> ELSE <<>>) \o fifo IN
    /\ \A i, j \in DOMAIN line : line[i] = line[j] => i = j
    /\ \A i \in DOMAIN line, j \in DOMAIN handled : line[i] # handled[j]
    /\ clears = 0 => \A i, j \in DOMAIN handled : handled[i] = handled[j] => i = j

\* The queue is a Mailbox.
Box == INSTANCE Mailbox WITH
    Events <- 1 .. MaxEvents, pending <- fifo, delivered <- handled, open <- running,
    held <- IF fresh THEN {eventToHandle} ELSE {}
QueueIsMailbox == Box!Mail

\* An event that waits is handled, unless the queue is cleared or stopped: the thread does
\* not sleep through the notification of an event added while it is at work.
QueueHandles ==
    \A e \in 1 .. MaxEvents :
        running /\ (\E i \in DOMAIN fifo : fifo[i] = e)
            ~> ~running \/ clears > 0 \/ \E i \in DOMAIN handled : handled[i] = e

\* stop() returns: the thread leaves its wait and ends.
QueueStops == owner = "stopping" ~> owner = "idle"

=============================================================================
