---------------------------- MODULE MCSchedulers ----------------------------
(***************************************************************************)
(* The scheduler's job lists and its sequences, for TLC: a behaviour is    *)
(* one of JobScheduler or one of SequenceScheduler, chosen in the          *)
(* beginning, while the variables of the other rest.                       *)
(***************************************************************************)
EXTENDS MCJobScheduler, SequenceScheduler

VARIABLE part

SchedulersInit == part \in {"jobs", "sequences"} /\ Init /\ SequenceInit

SchedulersNext ==
    \/ part = "jobs" /\ Next /\ UNCHANGED <<part, sqVars>>
    \/ part = "sequences" /\ SequenceNext /\ UNCHANGED <<part, vars>>

\* Each part is as fair as its own specification.
SchedulersSpec ==
    /\ SchedulersInit /\ [][SchedulersNext]_<<part, vars, sqVars>>
    /\ SF_vars(part = "jobs" /\ Scheduler)
    /\ SF_vars(part = "jobs" /\ PlayAdd)
    /\ WF_vars(part = "jobs" /\ Canceller)
    /\ \A e \in Engines : SF_vars(part = "jobs" /\ JobThread(e))
    /\ WF_sqVars(part = "sequences" /\ Round)
    /\ WF_sqVars(part = "sequences" /\ JobEnds)
    /\ WF_sqVars(part = "sequences" /\ PlayGoesOn)

=============================================================================
