------------------------------ MODULE Tickets ------------------------------
(***************************************************************************)
(* ParseTicketManager and ResultTicketManager: a client waits for its job  *)
(* through a ticket, which the manager ends when the scheduler's messages  *)
(* say so.  makeTicket and the message handlers hold managerMutex.  There  *)
(* is one parse and one play of it; the queue of the messages is an        *)
(* EventQueue; the updates no manager acts upon are left out.              *)
(***************************************************************************)
EXTENDS Naturals, Sequences

CONSTANTS MaxTickets   \* calls of makeTicket

Kinds == {"Parse", "Play"}
TicketNumbers == 1 .. MaxTickets

VARIABLES
    list,    \* the job list that holds the job, or "none"
    status,  \* its EngineJobStatus
    engine,  \* what the job's thread has done
    spoiled, \* the engine's cancelled flag, which the job's thread looks at in the end
    saved,   \* the shot's result is stored
    cancelling, \* _cancelJob has taken the job out of its list
    mail,    \* the messages on their way, as <<kind, what>>
    looking, \* the ticket whose makeTicket searches the results, or 0
    tickets, \* the map of the managers: a ticket, or 0
    jobOf, ticketStatus, \* of the tickets
    made,    \* number of tickets
    heard,   \* history: jobs whose ParseComplete or PlayComplete has been handled
    late,    \* history: tickets made for such jobs
    replaced \* history: tickets put out of the map by another ticket of their job

jobVars    == <<list, status, engine, spoiled, saved, cancelling>>
ticketVars == <<tickets, jobOf, ticketStatus, made, heard, late, replaced>>
tkVars     == <<jobVars, ticketVars, mail, looking>>

\* Jobs, messages and tickets have the types of the code.
TicketsTypeOK ==
    /\ list \in [Kinds -> {"none", "queued", "running", "done"}]
    /\ status \in [Kinds -> {"New", "Running", "Completed", "Canceled", "Archived"}]
    /\ engine \in [Kinds -> {"off", "begun", "ready", "kept", "told", "over"}]
    /\ spoiled \in [Kinds -> BOOLEAN] /\ saved \in BOOLEAN
    /\ cancelling \in [Kinds -> BOOLEAN]
    /\ mail \in Seq(Kinds \X {"ready", "done", "Completed", "Canceled"})
    /\ looking \in 0 .. MaxTickets /\ tickets \in [Kinds -> 0 .. MaxTickets]
    /\ jobOf \in [TicketNumbers -> Kinds] /\ made \in 0 .. MaxTickets
    /\ ticketStatus \in [TicketNumbers -> {"Unmade", "Running", "Complete", "Canceled"}]
    /\ heard \in SUBSET Kinds /\ late \in SUBSET TicketNumbers
    /\ replaced \in SUBSET TicketNumbers

TicketsInit ==
    /\ list = [k \in Kinds |-> "none"] /\ status = [k \in Kinds |-> "New"]
    /\ engine = [k \in Kinds |-> "off"] /\ spoiled = [k \in Kinds |-> FALSE]
    /\ saved = FALSE /\ cancelling = [k \in Kinds |-> FALSE]
    /\ mail = <<>> /\ looking = 0 /\ tickets = [k \in Kinds |-> 0]
    /\ jobOf = [n \in TicketNumbers |-> "Parse"] /\ made = 0
    /\ ticketStatus = [n \in TicketNumbers |-> "Unmade"]
    /\ heard = {} /\ late = {} /\ replaced = {}

-----------------------------------------------------------------------------
(* The scheduler, as far as the managers can see it. *)

Set(f, k, v) == f' = [f EXCEPT ![k] = v]
Send(k, what) == mail' = Append(mail, <<k, what>>)

\* A play can be submitted and assigned once its parse has been completed.
Submit(k) ==
    /\ list[k] = "none" /\ status[k] = "New" /\ ~cancelling[k]
    /\ k = "Play" => status["Parse"] = "Completed"
    /\ Set(list, k, "queued")
    /\ UNCHANGED <<status, engine, spoiled, saved, cancelling, mail, looking, ticketVars>>

Assign(k) ==
    /\ list[k] = "queued" /\ Set(list, k, "running") /\ Set(status, k, "Running")
    /\ Set(engine, k, "begun")
    /\ UNCHANGED <<spoiled, saved, cancelling, mail, looking, ticketVars>>

\* _cancelJob, which does not hold jobMutex: the job is in no list for a while.
CancelOut(k) ==
    /\ list[k] \in {"queued", "running"} /\ Set(list, k, "none")
    /\ Set(cancelling, k, TRUE) /\ Set(status, k, "Canceled")
    /\ Set(spoiled, k, spoiled[k] \/ engine[k] \in {"begun", "ready", "kept"})
    /\ UNCHANGED <<engine, saved, mail, looking, ticketVars>>

CancelIn(k) ==
    /\ cancelling[k] /\ Set(cancelling, k, FALSE)
    /\ Set(list, k, "done") /\ Set(status, k, "Canceled") /\ Send(k, "Canceled")
    /\ UNCHANGED <<engine, spoiled, saved, looking, ticketVars>>

\* A play announces that it is ready, with the parse's id in its message.
EngineReady ==
    /\ engine["Play"] = "begun" /\ Set(engine, "Play", "ready") /\ Send("Play", "ready")
    /\ UNCHANGED <<list, status, spoiled, saved, cancelling, looking, ticketVars>>

\* The shot's result is saved, if it can be.
EngineSaves ==
    /\ engine["Play"] = "ready" /\ Set(engine, "Play", "kept") /\ saved' \in BOOLEAN
    /\ UNCHANGED <<list, status, spoiled, cancelling, mail, looking, ticketVars>>

\* The end of engine->parse or play: PlayComplete is sent whatever has happened, and so is
\* ParseComplete, unless the engine was not parsed or not cleared at all.
EngineDone(k) ==
    /\ engine[k] = (IF k = "Parse" THEN "begun" ELSE "kept") /\ Set(engine, k, "told")
    /\ \E failed \in BOOLEAN : Set(spoiled, k, spoiled[k] \/ failed)
    /\ Send(k, "done")
    /\ UNCHANGED <<list, status, saved, cancelling, looking, ticketVars>>

EngineGivesUp(k) ==
    /\ engine[k] = "begun" /\ Set(engine, k, "told") /\ Set(spoiled, k, TRUE)
    /\ UNCHANGED <<list, status, saved, cancelling, mail, looking, ticketVars>>

\* jobComplete, jobCanceled.
Report(k) ==
    LET st == IF spoiled[k] THEN "Canceled" ELSE "Completed" IN
    /\ engine[k] = "told" /\ Set(engine, k, "over")
    /\ IF list[k] = "running"
       THEN Set(list, k, "done") /\ Set(status, k, st) /\ Send(k, st)
       ELSE UNCHANGED <<list, status, mail>>
    /\ UNCHANGED <<spoiled, saved, cancelling, looking, ticketVars>>

\* Newer jobs drive it out of the completed list.
Archive(k) ==
    /\ list[k] = "done" /\ Set(list, k, "none") /\ Set(status, k, "Archived")
    /\ UNCHANGED <<engine, spoiled, saved, cancelling, mail, looking, ticketVars>>

-----------------------------------------------------------------------------
(* The managers.  While makeTicket searches the results it holds managerMutex. *)

GetStatus(k) == IF list[k] = "none" THEN "NotFound" ELSE status[k]

\* The end of makeTicket.  Only a ticket that runs stays in the map, in place of one that
\* was there.  Mutant: it stays there in any case.
MapEntryKept(n, st) == n
MapEntry(n, st) == IF st = "Running" THEN n ELSE 0

Made(k, n, st) ==
    /\ Set(tickets, k, MapEntry(n, st))
    /\ jobOf' = [jobOf EXCEPT ![n] = k] /\ ticketStatus' = [ticketStatus EXCEPT ![n] = st]
    /\ made' = n
    /\ replaced' = replaced \cup ({tickets[k]} \ {0})
    /\ late' = IF k \in heard THEN late \cup {n} ELSE late
    /\ UNCHANGED heard

\* A parse that is not found is cancelled; a shot may have been stored.
\* Mutant: the status of the job is taken over as it is.
VerdictStatus(k) == GetStatus(k)
Verdict(k) ==
    CASE GetStatus(k) \in {"New", "Running"} -> "Running"
      [] GetStatus(k) = "Completed" -> "Complete"
      [] GetStatus(k) = "Canceled" -> "Canceled"
      [] OTHER -> IF k = "Parse" THEN "Canceled" ELSE "Search"

MakeTicket(k) ==
    /\ made < MaxTickets /\ looking = 0 /\ (list[k] # "none" \/ status[k] # "New")
    /\ IF Verdict(k) = "Search"
       THEN looking' = made + 1 /\ UNCHANGED ticketVars
       ELSE Made(k, made + 1, Verdict(k)) /\ UNCHANGED looking
    /\ UNCHANGED <<jobVars, mail>>

FindShot ==
    /\ looking # 0 /\ looking' = 0
    /\ Made("Play", looking, IF saved THEN "Complete" ELSE "Canceled")
    /\ UNCHANGED <<jobVars, mail>>

\* handleMessage of the two managers, both for EngineSchedulerMessage and for
\* EngineJobUpdate: what becomes of the ticket of the parse and of the play.  Any message
\* of the engine about another step than the parse ends the parse's ticket.
\* Mutants: a play is complete when it is ready; its ticket is not told of a cancellation.
ParseOutcome(m) ==
    CASE m \in {<<"Parse", "done">>, <<"Parse", "Completed">>} -> "Complete"
      [] m \in {<<"Parse", "Canceled">>, <<"Play", "ready">>, <<"Play", "done">>} -> "Canceled"
      [] OTHER -> "Running"
PlayOutcomeAny(m) ==
    CASE m \in {<<"Play", "ready">>, <<"Play", "done">>} -> "Complete"
      [] m = <<"Play", "Canceled">> -> "Canceled"
      [] OTHER -> "Running"
PlayOutcomeDone(m) == IF m = <<"Play", "done">> THEN "Complete" ELSE "Running"
PlayOutcome(m) ==
    CASE m = <<"Play", "done">> -> "Complete"
      [] m = <<"Play", "Canceled">> -> "Canceled"
      [] OTHER -> "Running"

Handle ==
    LET m == Head(mail)
        outcome == [k \in Kinds |-> IF k = "Parse" THEN ParseOutcome(m) ELSE PlayOutcome(m)]
        ended == {k \in Kinds : tickets[k] # 0 /\ outcome[k] # "Running"} IN
    /\ looking = 0 /\ mail # <<>> /\ mail' = Tail(mail)
    /\ tickets' = [k \in Kinds |-> IF k \in ended THEN 0 ELSE tickets[k]]
    /\ ticketStatus' = [n \in TicketNumbers |->
          IF \E k \in ended : tickets[k] = n THEN outcome[jobOf[n]] ELSE ticketStatus[n]]
    /\ heard' = IF m[2] = "done" THEN heard \cup {m[1]} ELSE heard
    /\ UNCHANGED <<jobVars, looking, jobOf, made, late, replaced>>

-----------------------------------------------------------------------------

TicketJobs ==
    \/ \E k \in Kinds : Assign(k) \/ CancelIn(k) \/ EngineDone(k) \/ EngineGivesUp(k) \/ Report(k)
    \/ EngineReady \/ EngineSaves
TicketManagers == Handle \/ FindShot

TicketsNext ==
    \/ TicketJobs \/ TicketManagers
    \/ \E k \in Kinds : Submit(k) \/ CancelOut(k) \/ Archive(k) \/ MakeTicket(k)

TicketsSpec == TicketsInit /\ [][TicketsNext]_tkVars

\* Jobs that were submitted are run to their end, and messages are handled.
TicketsFairSpec == TicketsSpec /\ WF_tkVars(TicketJobs) /\ WF_tkVars(TicketManagers)

-----------------------------------------------------------------------------
(* Properties. *)

\* A ticket is Complete only when the engine has ended the job, so that what a shot has
\* stored is there, and Canceled only if the job was cancelled, has failed or is forgotten:
\* no message about the play of a parse spoils the parse's own ticket.
TicketsTellTruth ==
    \A n \in TicketNumbers :
        LET k == jobOf[n] IN
        /\ ticketStatus[n] = "Complete" => engine[k] \in {"kept", "told", "over"}
        /\ ticketStatus[n] = "Canceled" =>
              spoiled[k] \/ cancelling[k] \/ status[k] \in {"Canceled", "Archived"}

\* A ticket that runs is in its manager's map, or another ticket of the job has taken its
\* place; one that has ended is not kept there.
TicketsInMap ==
    /\ \A k \in Kinds : tickets[k] # 0 => ticketStatus[tickets[k]] = "Running"
    /\ \A n \in TicketNumbers :
          ticketStatus[n] = "Running" => tickets[jobOf[n]] = n \/ n \in replaced

\* A ticket ends, however it was made between the steps of its job, with two exceptions:
\* another ticket of the job took its place, or PlayComplete had been handled before.
TicketsEnd ==
    []<>(\A n \in TicketNumbers :
            \/ ticketStatus[n] # "Running" \/ n \in replaced
            \/ n \in late /\ jobOf[n] = "Play")

=============================================================================
