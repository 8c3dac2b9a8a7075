------------------------------ MODULE JobLedger ------------------------------
(***************************************************************************)
(* What the scheduler promises its clients of a job, as they see it in the *)
(* update messages and the completed lists: it is accepted, is started or  *)
(* given up, finishes, once, at the head of the ledger of its type, and is *)
(* archived when as many later ones have finished as the ledger has room   *)
(* for.  Only a job that a client withdrew before it had finished may be   *)
(* started or finish again.                                                *)
(***************************************************************************)
EXTENDS Naturals, Sequences

CONSTANTS Jobs,  \* records with a type
          Room   \* the size of the ledger of each type

VARIABLES notice,    \* what the clients were told last of each job
          ledger,    \* the jobs that finished last, of each type, the newest first
          withdrawn  \* the jobs a client withdrew

ledgerVars == <<notice, ledger, withdrawn>>

LedgerInit ==
    /\ notice = [j \in Jobs |-> "None"]
    /\ ledger = [k \in DOMAIN Room |-> <<>>]
    /\ withdrawn = {}

Notify(j, what) == notice' = [notice EXCEPT ![j] = what]
Listed(j)  == \E i \in DOMAIN ledger[j.type] : ledger[j.type][i] = j
Pending(j) == notice[j] \in {"Queued", "Running"}

Accept(j) ==
    /\ notice[j] = "None" /\ Notify(j, "Queued")
    /\ UNCHANGED <<ledger, withdrawn>>

Withdraw(j) ==
    /\ Pending(j) /\ withdrawn' = withdrawn \cup {j}
    /\ UNCHANGED <<notice, ledger>>

Start(j) ==
    /\ notice[j] = "Queued" \/ j \in withdrawn
    /\ Notify(j, "Running")
    /\ UNCHANGED <<ledger, withdrawn>>

\* The job at the head, and the older ones as far as there is room.
Finish(j) ==
    LET line == <<j>> \o ledger[j.type]
        room == Room[j.type]
        left == {line[i] : i \in DOMAIN line \ 1 .. room} IN
    /\ Pending(j) \/ j \in withdrawn
    /\ ~Listed(j)
    /\ ledger' = [ledger EXCEPT ![j.type] =
                    SubSeq(line, 1, IF Len(line) > room THEN room ELSE Len(line))]
    /\ notice' = [i \in Jobs |-> IF i \in left THEN "Archive"
                                 ELSE IF i = j THEN "Complete" ELSE notice[i]]
    /\ UNCHANGED withdrawn

\* A job that was withdrawn keeps the place it has.
Repeat(j) ==
    /\ j \in withdrawn /\ Listed(j) /\ Notify(j, "Complete")
    /\ UNCHANGED <<ledger, withdrawn>>

LedgerNext == \E j \in Jobs : Accept(j) \/ Withdraw(j) \/ Start(j) \/ Finish(j) \/ Repeat(j)

LedgerSpec == LedgerInit /\ [][LedgerNext]_ledgerVars

=============================================================================
