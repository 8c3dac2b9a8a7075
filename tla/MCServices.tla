----------------------------- MODULE MCServices -----------------------------
(***************************************************************************)
(* The services around the scheduler's core, for TLC: each of them is a    *)
(* system of its own, and a behaviour is one of one of them, chosen in the *)
(* beginning, while the variables of the others rest.                      *)
(***************************************************************************)
EXTENDS EventQueue, MessageGrouper, TaskScheduler, ParseEngine, Tickets

VARIABLE part

vars == <<part, qVars, gVars, tVars, tkVars, peVars>>

Init ==
    /\ part \in {"queue", "grouper", "tasks", "tickets", "parse"}
    /\ QueueInit /\ GrouperInit /\ TaskInit /\ TicketsInit /\ ParseInit

Next ==
    \/ /\ part = "queue" /\ QueueNext
       /\ UNCHANGED <<part, gVars, tVars, tkVars, peVars>>
    \/ /\ part = "grouper" /\ GrouperNext
       /\ UNCHANGED <<part, qVars, tVars, tkVars, peVars>>
    \/ /\ part = "tasks" /\ TaskNext
       /\ UNCHANGED <<part, qVars, gVars, tkVars, peVars>>
    \/ /\ part = "tickets" /\ TicketsNext
       /\ UNCHANGED <<part, qVars, gVars, tVars, peVars>>
    \/ /\ part = "parse" /\ ParseEngineNext
       /\ UNCHANGED <<part, qVars, gVars, tVars, tkVars>>

\* Each part is as fair as its own specification.
Spec ==
    /\ Init /\ [][Next]_vars
    /\ WF_qVars(part = "queue" /\ Handler)
    /\ WF_qVars(part = "queue" /\ Joined)
    /\ WF_gVars(part = "grouper" /\ GrouperLoop)
    /\ WF_tVars(part = "tasks" /\ TaskLoop)
    /\ WF_tVars(part = "tasks" /\ TaskUser)
    /\ WF_tkVars(part = "tickets" /\ TicketJobs)
    /\ WF_tkVars(part = "tickets" /\ TicketManagers)
    /\ WF_peVars(part = "parse" /\ ParseGoesOn)
    /\ WF_peVars(part = "parse" /\ AbortGoesOn)
    /\ WF_peVars(part = "parse" /\ DeviceAnswers)
    /\ WF_peVars(part = "parse" /\ HandleAnswer)

-----------------------------------------------------------------------------
(* The properties of the parts. *)

\* The variables of each part have the types of its code.
ServicesTypeOK ==
    /\ QueueTypeOK /\ GrouperTypeOK /\ TaskTypeOK
    /\ TicketsTypeOK /\ ParseTypeOK

=============================================================================
