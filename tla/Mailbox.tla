------------------------------- MODULE Mailbox -------------------------------
(***************************************************************************)
(* What an EventQueue promises the component that owns it: events wait in  *)
(* one line, an urgent one at its head, and are handed over one at a time  *)
(* and in that order.  An event is lost only if the queue is cleared or    *)
(* closed; one is handed over a second time only after a clear.            *)
(***************************************************************************)
EXTENDS Naturals, Sequences

CONSTANT Events

VARIABLES pending,   \* the events that wait
          held,      \* the event taken from the line and not handed over yet, if any
          delivered, \* the events handed over, in their order
          open,      \* events are accepted
          wiped      \* the queue has been cleared since it was last opened

mailVars == <<pending, held, delivered, open, wiped>>

MailInit == pending = <<>> /\ held = {} /\ delivered = <<>> /\ open = FALSE /\ wiped = FALSE

Post == \E e \in Events :
    /\ open
    /\ pending' \in {Append(pending, e), <<e>> \o pending}
    /\ UNCHANGED <<held, delivered, open, wiped>>

Take ==
    /\ pending # <<>> /\ held = {}
    /\ held' = {Head(pending)} /\ pending' = Tail(pending)
    /\ UNCHANGED <<delivered, open, wiped>>

Deliver == \E e \in held :
    /\ held' = {} /\ delivered' = Append(delivered, e)
    /\ UNCHANGED <<pending, open, wiped>>

\* The last event once more, or an empty one if there was none.
Again ==
    /\ wiped /\ held = {}
    /\ \E e \in Events \cup {0} : delivered' = Append(delivered, e)
    /\ UNCHANGED <<pending, held, open, wiped>>

Drop ==
    /\ ~open /\ held' = {}
    /\ UNCHANGED <<pending, delivered, open, wiped>>

Wipe ==
    /\ pending' = <<>> /\ wiped' = TRUE
    /\ UNCHANGED <<held, delivered, open>>

Open  == open' = TRUE /\ wiped' = FALSE /\ UNCHANGED <<pending, held, delivered>>
Close == open' = FALSE /\ UNCHANGED <<pending, held, delivered, wiped>>

MailNext == Post \/ Take \/ Deliver \/ Again \/ Drop \/ Wipe \/ Open \/ Close

Mail == MailInit /\ [][MailNext]_mailVars

=============================================================================
