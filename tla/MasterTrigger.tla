--------------------------- MODULE MasterTrigger ---------------------------
(***************************************************************************)
(* MasterTrigger.cpp: the barrier a play waits on until every armed device *)
(* has reported that it waits for the trigger.  Every method runs under    *)
(* mtriggerMutex and every method that changes what waitForArmFor tests    *)
(* notifies under it, so one method is one step on a value:                *)
(*   shot     the play job the object was made for, 0 when the engine's    *)
(*            pointer is null (a name for the object's identity)           *)
(*   running  cleared by stop(), set by every entry to waitForArmFor       *)
(*   status   the status map; an id that is not a key has status "None"    *)
(***************************************************************************)

EXTENDS Naturals

TriggerStatus == {"None", "Arming", "Waiting", "Triggered"}

MasterTriggerType(Ids, Shots) ==
    [shot : Shots \cup {0}, running : BOOLEAN, status : [Ids -> TriggerStatus]]

\* masterTrigger.reset(): the engine holds no trigger object.
NullTrigger(Ids) ==
    [shot |-> 0, running |-> FALSE, status |-> [i \in Ids |-> "None"]]

\* Mutant: the object is taken for the next play job's.
NewArmedLater(Ids, s, ids) ==
    [shot |-> s + 1, running |-> FALSE,
     status |-> [i \in Ids |-> IF i \in ids THEN "Arming" ELSE "None"]]

\* make_shared<MasterTrigger> followed by arm(ids).
NewArmed(Ids, s, ids) ==
    [shot |-> s, running |-> FALSE,
     status |-> [i \in Ids |-> IF i \in ids THEN "Arming" ELSE "None"]]

\* arm(id)
ArmId(m, id) == [m EXCEPT !.status = [@ EXCEPT ![id] = "Arming"]]

\* The first statement of waitForArmFor.
EnterWait(m) == [m EXCEPT !.running = TRUE]

\* stop(), called only when the pointer is not null.
StopWait(m) == IF m.shot = 0 THEN m ELSE [m EXCEPT !.running = FALSE]

\* ready(id) and triggerFired(id): only an id that is a key changes.
SetKnown(m, id, st) ==
    IF m.status[id] = "None" THEN m
                             ELSE [m EXCEPT !.status = [@ EXCEPT ![id] = st]]
ReadyId(m, id) == SetKnown(m, id, "Waiting")
FiredId(m, id) == SetKnown(m, id, "Triggered")

\* Mutant: an id that is still arming does not count.
AllWaitingOrArming(Ids, m) == \A i \in Ids : m.status[i] # "Triggered"

\* _allStatusMatch(Waiting)
AllWaiting(Ids, m) == \A i \in Ids : m.status[i] \in {"None", "Waiting"}

\* The predicate waitForArmFor waits for.
ArmWaitOver(Ids, m) == ~m.running \/ AllWaiting(Ids, m)

=============================================================================
