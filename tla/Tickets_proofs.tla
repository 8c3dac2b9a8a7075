--------------------------- MODULE Tickets_proofs ---------------------------
(***************************************************************************)
(* Proofs about the ticket managers, for any number of tickets: what a     *)
(* ticket says is true of its job, and a ticket that runs is in the map.   *)
(***************************************************************************)
EXTENDS Tickets, TLAPS

\* The number of tickets is a number.
Bound == MaxTickets \in Nat

-----------------------------------------------------------------------------
(* The job: what its list, its status and its engine say of each other.        *)

\* The job was cancelled, has failed, or is forgotten: this is never taken back.
Gone(k) == spoiled[k] \/ cancelling[k] \/ status[k] \in {"Canceled", "Archived"}

EngineEnded == {"told", "over"}

JobLists == \A k \in Kinds :
    /\ list[k] = "queued" => status[k] = "New"
    /\ list[k] = "running" => status[k] = "Running"
    /\ list[k] = "done" => status[k] \in {"Completed", "Canceled"}
    /\ list[k] = "none" => status[k] = "New" \/ Gone(k)
    /\ status[k] = "New" => list[k] \in {"none", "queued"}
JobEngines == \A k \in Kinds :
    /\ status[k] = "New" => engine[k] = "off"
    /\ status[k] = "Completed" => engine[k] = "over"
    /\ engine[k] \in {"begun", "ready", "kept", "told"} => list[k] = "running" \/ Gone(k)
    /\ engine[k] = "over" => status[k] = "Completed" \/ Gone(k)
\* Nothing is done about the play until the parse is over.
PlayFollows == engine["Parse"] # "over" =>
    list["Play"] = "none" /\ engine["Play"] = "off" /\ ~cancelling["Play"]
ShotSaved == saved => engine["Play"] \in {"kept"} \cup EngineEnded

JobInv == JobLists /\ JobEngines /\ PlayFollows /\ ShotSaved

JobTypes == /\ list \in [Kinds -> {"none", "queued", "running", "done"}]
            /\ status \in [Kinds -> {"New", "Running", "Completed", "Canceled", "Archived"}]
            /\ engine \in [Kinds -> {"off", "begun", "ready", "kept", "told", "over"}]
            /\ spoiled \in [Kinds -> BOOLEAN] /\ saved \in BOOLEAN
            /\ cancelling \in [Kinds -> BOOLEAN]

\* What the scheduler and the engine do to a job, with no regard to the messages.
JobMoves(k) ==
    Submit(k) \/ Assign(k) \/ CancelOut(k) \/ CancelIn(k) \/ EngineReady \/ EngineSaves
    \/ EngineDone(k) \/ EngineGivesUp(k) \/ Report(k) \/ Archive(k)

\* The engine goes on, and a job that is gone stays so.
GoesOn == \A k \in Kinds :
    /\ Gone(k) => Gone(k)'
    /\ engine[k] \in {"kept"} \cup EngineEnded => engine'[k] \in {"kept"} \cup EngineEnded
    /\ engine[k] \in EngineEnded => engine'[k] \in EngineEnded
    /\ engine[k] = "over" => engine'[k] = "over"

LEMMA JobNext ==
    ASSUME JobTypes, JobInv, NEW k \in Kinds, JobMoves(k)
    PROVE  JobTypes' /\ JobInv' /\ GoesOn
<1> USE DEF JobTypes, JobInv, Kinds, Set, EngineEnded
<1>1. CASE Submit(k)
  BY <1>1 DEF Submit, JobLists, JobEngines, PlayFollows, ShotSaved, GoesOn, Gone
<1>2. CASE Assign(k)
  BY <1>2 DEF Assign, JobLists, JobEngines, PlayFollows, ShotSaved, GoesOn, Gone
<1>3. CASE CancelOut(k)
  BY <1>3 DEF CancelOut, JobLists, JobEngines, PlayFollows, ShotSaved, GoesOn, Gone
<1>4. CASE CancelIn(k)
  BY <1>4 DEF CancelIn, JobLists, JobEngines, PlayFollows, ShotSaved, GoesOn, Gone
<1>5. CASE EngineReady
  BY <1>5 DEF EngineReady, JobLists, JobEngines, PlayFollows, ShotSaved, GoesOn, Gone
<1>6. CASE EngineSaves
  BY <1>6 DEF EngineSaves, JobLists, JobEngines, PlayFollows, ShotSaved, GoesOn, Gone
<1>7. CASE EngineDone(k)
  BY <1>7 DEF EngineDone, JobLists, JobEngines, PlayFollows, ShotSaved, GoesOn, Gone
<1>8. CASE EngineGivesUp(k)
  BY <1>8 DEF EngineGivesUp, JobLists, JobEngines, PlayFollows, ShotSaved, GoesOn, Gone
<1>9. CASE Report(k)
  BY <1>9 DEF Report, JobLists, JobEngines, PlayFollows, ShotSaved, GoesOn, Gone
<1>10. CASE Archive(k)
  BY <1>10 DEF Archive, JobLists, JobEngines, PlayFollows, ShotSaved, GoesOn, Gone
<1> QED BY <1>1, <1>2, <1>3, <1>4, <1>5, <1>6, <1>7, <1>8, <1>9, <1>10 DEF JobMoves

LEMMA JobQuiet ==
    ASSUME JobTypes, JobInv, UNCHANGED jobVars
    PROVE  JobTypes' /\ JobInv' /\ GoesOn
BY DEF jobVars, JobTypes, JobInv, JobLists, JobEngines, PlayFollows, ShotSaved, GoesOn, Gone

-----------------------------------------------------------------------------
(* The messages on their way.                                                  *)

Whats == {"ready", "done", "Completed", "Canceled"}

MailType == mail \in Seq(Kinds \X Whats)

\* What is said of a job is so, and of a play nothing is said before its parse is over.
TrueOf(m) == /\ m[2] \in {"done", "Completed"} => engine[m[1]] \in EngineEnded
             /\ m[2] = "Canceled" => Gone(m[1])
             /\ m[1] = "Play" => engine["Parse"] = "over"
MailTrue  == \A i \in 1 .. Len(mail) : TrueOf(mail[i])

ParseCompleted == <<"Parse", "Completed">>

\* A parse ends with a message that says so, unless it is gone.
ParseOver == engine["Parse"] # "over" /\ engine'["Parse"] = "over"
                => Gone("Parse")' \/ mail' = Append(mail, ParseCompleted)

LEMMA MailSent ==
    ASSUME JobTypes, JobInv, NEW k \in Kinds, JobMoves(k)
    PROVE  /\ \/ mail' = mail
              \/ \E m \in Kinds \X Whats : mail' = Append(mail, m) /\ TrueOf(m)'
           /\ ParseOver
<1> USE DEF JobTypes, Kinds, Set, EngineEnded, Whats, TrueOf, ParseOver, ParseCompleted
<1>1. CASE Submit(k) \/ Assign(k) \/ CancelOut(k) \/ EngineSaves \/ EngineGivesUp(k) \/ Archive(k)
  BY <1>1 DEF Submit, Assign, CancelOut, EngineSaves, EngineGivesUp, Archive
<1>2. CASE CancelIn(k)
  <2>1. mail' = Append(mail, <<k, "Canceled">>) /\ UNCHANGED engine /\ status'[k] = "Canceled"
    BY <1>2 DEF CancelIn, Send
  <2>2. k = "Play" => engine["Parse"] = "over"
    BY <1>2 DEF CancelIn, JobInv, PlayFollows
  <2>3. TrueOf(<<k, "Canceled">>)'
    BY <2>1, <2>2 DEF Gone
  <2>4. <<k, "Canceled">> \in Kinds \X Whats
    OBVIOUS
  <2> QED BY <2>1, <2>2, <2>3, <2>4
<1>3. CASE EngineReady
  <2>1. mail' = Append(mail, <<"Play", "ready">>) /\ engine'["Parse"] = engine["Parse"]
    BY <1>3 DEF EngineReady, Send
  <2>2. engine["Parse"] = "over"
    BY <1>3 DEF EngineReady, JobInv, PlayFollows
  <2>3. TrueOf(<<"Play", "ready">>)'
    BY <2>1, <2>2
  <2>4. <<"Play", "ready">> \in Kinds \X Whats
    OBVIOUS
  <2> QED BY <2>1, <2>2, <2>3, <2>4
<1>4. CASE EngineDone(k)
  <2>1. mail' = Append(mail, <<k, "done">>) /\ engine' = [engine EXCEPT ![k] = "told"]
    BY <1>4 DEF EngineDone, Send
  <2>2. k = "Play" => engine["Parse"] = "over"
    BY <1>4 DEF EngineDone, JobInv, PlayFollows
  <2>3. TrueOf(<<k, "done">>)'
    BY <2>1, <2>2
  <2>4. <<k, "done">> \in Kinds \X Whats
    OBVIOUS
  <2> QED BY <2>1, <2>2, <2>3, <2>4
<1>5. CASE Report(k)
  <2>1. engine[k] = "told" /\ engine' = [engine EXCEPT ![k] = "over"]
    BY <1>5 DEF Report
  <2>2. k = "Play" => engine'["Parse"] = "over"
    BY <2>1 DEF JobInv, PlayFollows
  <2>3. CASE list[k] # "running"
    <3>1. Gone(k)' /\ mail' = mail
      BY <1>5, <2>1, <2>3 DEF Report, JobInv, JobEngines, Gone
    <3> QED BY <2>1, <3>1
  <2>4. CASE list[k] = "running" /\ spoiled[k]
    <3>1. mail' = Append(mail, <<k, "Canceled">>) /\ Gone(k)'
      BY <1>5, <2>4 DEF Report, Send, Gone
    <3>2. TrueOf(<<k, "Canceled">>)'
      BY <2>2, <3>1
    <3>3. <<k, "Canceled">> \in Kinds \X Whats
      OBVIOUS
    <3> QED BY <2>1, <3>1, <3>2, <3>3
  <2>5. CASE list[k] = "running" /\ ~spoiled[k]
    <3>1. mail' = Append(mail, <<k, "Completed">>)
      BY <1>5, <2>5 DEF Report, Send
    <3>2. TrueOf(<<k, "Completed">>)'
      BY <2>1, <2>2
    <3>3. <<k, "Completed">> \in Kinds \X Whats
      OBVIOUS
    <3> QED BY <2>1, <3>1, <3>2, <3>3
  <2> QED BY <2>3, <2>4, <2>5
<1> QED BY <1>1, <1>2, <1>3, <1>4, <1>5 DEF JobMoves

\* A truth stays one.
LEMMA TrueStays ==
    ASSUME GoesOn, NEW m \in Kinds \X Whats, TrueOf(m)
    PROVE  TrueOf(m)'
BY DEF GoesOn, TrueOf, Kinds, EngineEnded

LEMMA MailNext ==
    ASSUME MailType, MailTrue, GoesOn,
           mail' = mail \/ \E m \in Kinds \X Whats : mail' = Append(mail, m) /\ TrueOf(m)'
    PROVE  MailType' /\ MailTrue'
<1>1. CASE mail' = mail
  <2>1. ASSUME NEW i \in 1 .. Len(mail) PROVE TrueOf(mail[i])'
    <3>1. mail[i] \in Kinds \X Whats
      BY <2>1 DEF MailType
    <3> QED BY <1>1, <3>1, TrueStays DEF MailTrue, TrueOf
  <2> QED BY <1>1, <2>1 DEF MailType, MailTrue
<1>2. ASSUME NEW m \in Kinds \X Whats, mail' = Append(mail, m), TrueOf(m)'
      PROVE  MailType' /\ MailTrue'
  <2>1. MailType' /\ Len(mail') = Len(mail) + 1 /\ Len(mail) \in Nat /\ mail'[Len(mail) + 1] = m
        /\ \A i \in 1 .. Len(mail) : mail'[i] = mail[i]
    BY <1>2 DEF MailType
  <2>2. ASSUME NEW i \in 1 .. Len(mail') PROVE TrueOf(mail[i])'
    <3>1. CASE i = Len(mail) + 1
      BY <1>2, <2>1, <3>1 DEF TrueOf
    <3>2. CASE i \in 1 .. Len(mail)
      <4>1. mail[i] \in Kinds \X Whats
        BY <3>2 DEF MailType
      <4> QED BY <2>1, <3>2, <4>1, TrueStays DEF MailTrue, TrueOf
    <3> QED BY <2>1, <2>2, <3>1, <3>2
  <2> QED BY <2>1, <2>2 DEF MailTrue
<1> QED BY <1>1, <1>2

-----------------------------------------------------------------------------
(* The tickets.                                                                *)

TicketTypes ==
    /\ tickets \in [Kinds -> 0 .. MaxTickets] /\ made \in 0 .. MaxTickets
    /\ looking \in 0 .. MaxTickets
    /\ jobOf \in [TicketNumbers -> Kinds]
    /\ ticketStatus \in [TicketNumbers -> {"Unmade", "Running", "Complete", "Canceled"}]
    /\ heard \in SUBSET Kinds /\ late \in SUBSET TicketNumbers
    /\ replaced \in SUBSET TicketNumbers

\* The ticket that a search is made for is the next one, and its job is gone.
Search   == looking # 0 => looking = made + 1 /\ Gone("Play")
Unmade   == \A n \in TicketNumbers : n > made => ticketStatus[n] = "Unmade"
OwnTicket == \A k \in Kinds : tickets[k] # 0 => jobOf[tickets[k]] = k /\ tickets[k] <= made

\* While a ticket of the parse runs, and the parse is not gone, the message that will end it
\* is on its way once the parse is over, before any about the play.
Waits     == tickets["Parse"] # 0 /\ ~Gone("Parse")
Announced == Waits /\ engine["Parse"] = "over"
                => \E j \in 1 .. Len(mail) : mail[j] = ParseCompleted
InOrder   == Waits => \A i \in 1 .. Len(mail) : mail[i][1] = "Play"
                => \E j \in 1 .. Len(mail) : j < i /\ mail[j] = ParseCompleted

TicketInv == TicketTypes /\ Search /\ Unmade /\ OwnTicket /\ TicketsInMap /\ TicketsTellTruth
MailInv   == MailType /\ MailTrue /\ Announced /\ InOrder
JobsInv   == JobTypes /\ JobInv

\* The jobs go on.
LEMMA OrderSent ==
    ASSUME MailInv, GoesOn, ParseOver, UNCHANGED tickets, MailTrue',
           mail' = mail \/ \E m \in Kinds \X Whats : mail' = Append(mail, m)
    PROVE  Announced' /\ InOrder'
<1> SUFFICES ASSUME Waits' PROVE Announced' /\ InOrder'
  BY DEF Announced, InOrder
<1>1. Waits
  BY DEF Waits, GoesOn, Kinds
<1>2. /\ Len(mail) \in Nat
      /\ \A i \in 1 .. Len(mail) : mail'[i] = mail[i]
      /\ Len(mail') = Len(mail) \/ Len(mail') = Len(mail) + 1
  BY DEF MailInv, MailType
<1>3. ASSUME NEW j \in 1 .. Len(mail), mail[j] = ParseCompleted
      PROVE  j \in 1 .. Len(mail') /\ mail'[j] = ParseCompleted
  BY <1>2, <1>3
<1>4. Announced'
  <2>1. CASE engine["Parse"] = "over"
    <3>1. PICK j \in 1 .. Len(mail) : mail[j] = ParseCompleted
      BY <1>1, <2>1 DEF MailInv, Announced
    <3> QED BY <1>3, <3>1 DEF Announced
  <2>2. CASE engine["Parse"] # "over" /\ mail' = Append(mail, ParseCompleted)
    <3>1. Len(mail') = Len(mail) + 1 /\ mail'[Len(mail) + 1] = ParseCompleted
      BY <2>2 DEF MailInv, MailType, ParseCompleted, Kinds, Whats
    <3>2. Len(mail) + 1 \in 1 .. Len(mail')
      BY <1>2, <3>1
    <3> QED BY <3>1, <3>2 DEF Announced
  <2>3. CASE engine'["Parse"] # "over"
    BY <2>3 DEF Announced
  <2> QED BY <2>1, <2>2, <2>3 DEF ParseOver, Waits
<1>5. InOrder'
  <2> SUFFICES ASSUME NEW i \in 1 .. Len(mail'), mail'[i][1] = "Play"
               PROVE  \E j \in 1 .. Len(mail') : j < i /\ mail'[j] = ParseCompleted
    BY DEF InOrder
  <2>1. CASE i \in 1 .. Len(mail)
    <3>1. PICK j \in 1 .. Len(mail) : j < i /\ mail[j] = ParseCompleted
      BY <1>1, <1>2, <2>1 DEF MailInv, InOrder
    <3> QED BY <1>3, <3>1
  <2>2. CASE i = Len(mail) + 1
    <3>1. engine'["Parse"] = "over"
      BY DEF MailTrue, TrueOf
    <3>2. PICK j \in 1 .. Len(mail') : mail'[j] = ParseCompleted
      BY <1>4, <3>1 DEF Announced
    <3>3. j # i
      BY <3>2 DEF ParseCompleted
    <3> QED BY <1>2, <2>2, <3>2, <3>3
  <2> QED BY <1>2, <2>1, <2>2
<1> QED BY <1>4, <1>5

LEMMA TicketsUntouched ==
    ASSUME TicketInv, GoesOn, UNCHANGED <<ticketVars, looking>>
    PROVE  TicketInv'
<1> USE DEF TicketInv, ticketVars
<1>1. TicketTypes' /\ Search' /\ Unmade' /\ OwnTicket' /\ TicketsInMap'
  BY DEF TicketTypes, Search, Unmade, OwnTicket, TicketsInMap, GoesOn, Kinds
<1>2. TicketsTellTruth'
  BY DEF TicketsTellTruth, GoesOn, Gone, EngineEnded, TicketTypes
<1> QED BY <1>1, <1>2

LEMMA JobStepNext ==
    ASSUME JobsInv, MailInv, TicketInv, NEW k \in Kinds, JobMoves(k)
    PROVE  JobsInv' /\ MailInv' /\ TicketInv'
<1>1. JobsInv' /\ GoesOn
  BY JobNext DEF JobsInv
<1>2. UNCHANGED <<ticketVars, looking>>
  BY DEF JobMoves, Submit, Assign, CancelOut, CancelIn, EngineReady, EngineSaves, EngineDone,
     EngineGivesUp, Report, Archive
<1>3. MailType' /\ MailTrue'
  BY <1>1, MailSent, MailNext DEF JobsInv, MailInv
<1>4. Announced' /\ InOrder'
  BY <1>1, <1>2, <1>3, MailSent, OrderSent DEF JobsInv, ticketVars
<1> QED BY <1>1, <1>2, <1>3, <1>4, TicketsUntouched DEF MailInv

\* A ticket is made with a status that is true of the job; it waits only for a job that
\* may still end.
LEMMA MadeNext ==
    ASSUME Bound, JobsInv, MailInv, TicketInv, UNCHANGED <<jobVars, mail>>,
           NEW k \in Kinds, NEW n \in TicketNumbers, n = made + 1,
           NEW st \in {"Running", "Complete", "Canceled"}, Made(k, n, st),
           st = "Complete" => engine[k] \in {"kept"} \cup EngineEnded,
           st = "Canceled" => Gone(k),
           st = "Running" => engine[k] # "over" \/ Gone(k),
           looking' = 0
    PROVE  JobsInv' /\ MailInv' /\ TicketInv'
<1>1. JobsInv' /\ GoesOn
  BY JobQuiet DEF JobsInv
<1>2. tickets' = [tickets EXCEPT ![k] = IF st = "Running" THEN n ELSE 0]
      /\ jobOf' = [jobOf EXCEPT ![n] = k] /\ ticketStatus' = [ticketStatus EXCEPT ![n] = st]
      /\ made' = n /\ replaced' = replaced \cup ({tickets[k]} \ {0})
      /\ heard' = heard /\ late' \in SUBSET TicketNumbers
  BY DEF Made, MapEntry, Set, TicketInv, TicketTypes
<1>3. TicketTypes'
  <2>1. n \in 0 .. MaxTickets /\ 0 \in 0 .. MaxTickets /\ {tickets[k]} \ {0} \subseteq TicketNumbers
    BY DEF Bound, TicketInv, TicketTypes, TicketNumbers
  <2>2. tickets' \in [Kinds -> 0 .. MaxTickets]
    BY <1>2, <2>1 DEF TicketInv, TicketTypes
  <2>3. jobOf' \in [TicketNumbers -> Kinds]
        /\ ticketStatus' \in [TicketNumbers -> {"Unmade", "Running", "Complete", "Canceled"}]
    BY <1>2 DEF TicketInv, TicketTypes
  <2>4. looking' \in 0 .. MaxTickets /\ made' \in 0 .. MaxTickets
    BY <1>2, <2>1
  <2>5. heard' \in SUBSET Kinds /\ late' \in SUBSET TicketNumbers
        /\ replaced' \in SUBSET TicketNumbers
    BY <1>2, <2>1 DEF TicketInv, TicketTypes
  <2> QED BY <2>2, <2>3, <2>4, <2>5 DEF TicketTypes
<1>4. Search' /\ Unmade' /\ OwnTicket'
  BY <1>2 DEF Bound, TicketInv, TicketTypes, Search, Unmade, OwnTicket, TicketNumbers
<1>5. TicketsInMap'
  BY <1>2 DEF Bound, TicketInv, TicketTypes, Unmade, OwnTicket, TicketsInMap, TicketNumbers
<1>6. TicketsTellTruth'
  BY <1>2 DEF TicketInv, TicketTypes, TicketsTellTruth, jobVars, Gone, EngineEnded
<1>7. MailType' /\ MailTrue'
  BY <1>1, MailNext DEF MailInv
<1>8. Announced' /\ InOrder'
  <2>1. CASE Waits /\ tickets'["Parse"] # 0
    BY <2>1 DEF MailInv, Announced, InOrder, Waits, jobVars, Gone
  <2>2. CASE ~Waits /\ Waits'
    <3>1. engine["Parse"] # "over"
      BY <1>2, <2>2 DEF Waits, jobVars, Gone, TicketInv, TicketTypes, Kinds
    <3>2. \A i \in 1 .. Len(mail) : mail[i][1] # "Play"
      BY <3>1 DEF MailInv, MailTrue, TrueOf
    <3> QED BY <3>1, <3>2 DEF Announced, InOrder, jobVars
  <2> QED BY <2>1, <2>2 DEF Announced, InOrder, Waits
<1> QED BY <1>1, <1>3, <1>4, <1>5, <1>6, <1>7, <1>8 DEF MailInv, TicketInv

LEMMA MakeTicketNext ==
    ASSUME Bound, JobsInv, MailInv, TicketInv, NEW k \in Kinds, MakeTicket(k)
    PROVE  JobsInv' /\ MailInv' /\ TicketInv'
<1>1. made + 1 \in TicketNumbers /\ looking = 0 /\ (list[k] # "none" \/ status[k] # "New")
      /\ UNCHANGED <<jobVars, mail>>
  BY DEF MakeTicket, Bound, TicketInv, TicketTypes, TicketNumbers
<1>2. CASE Verdict(k) = "Search"
  <2>1. looking' = made + 1 /\ UNCHANGED ticketVars /\ Gone("Play")
    BY <1>1, <1>2 DEF MakeTicket, Verdict, GetStatus, JobsInv, JobTypes, JobInv, JobLists, Gone,
       Kinds
  <2>2. TicketInv'
    BY <1>1, <2>1 DEF TicketInv, TicketTypes, Search, Unmade, OwnTicket, TicketsInMap,
       TicketsTellTruth, ticketVars, jobVars, Gone, TicketNumbers
  <2>3. JobsInv' /\ GoesOn
    BY <1>1, JobQuiet DEF JobsInv
  <2>4. MailType' /\ MailTrue'
    BY <1>1, <2>3, MailNext DEF MailInv
  <2>5. Announced' /\ InOrder'
    BY <1>1, <2>1 DEF MailInv, Announced, InOrder, Waits, ticketVars, jobVars, Gone
  <2> QED BY <2>2, <2>3, <2>4, <2>5 DEF MailInv
<1>3. CASE Verdict(k) # "Search"
  <2>1. Made(k, made + 1, Verdict(k)) /\ looking' = 0
    BY <1>1, <1>3 DEF MakeTicket
  <2>2. /\ Verdict(k) \in {"Running", "Complete", "Canceled"}
        /\ Verdict(k) = "Complete" => engine[k] \in {"kept"} \cup EngineEnded
        /\ Verdict(k) = "Canceled" => Gone(k)
        /\ Verdict(k) = "Running" => engine[k] # "over" \/ Gone(k)
    BY <1>1, <1>3 DEF Verdict, GetStatus, JobsInv, JobTypes, JobInv, JobLists, JobEngines, Gone,
       EngineEnded
  <2> QED BY <1>1, <2>1, <2>2, MadeNext
<1> QED BY <1>2, <1>3

\* The search ends: what was saved is there.
LEMMA FindShotNext ==
    ASSUME Bound, JobsInv, MailInv, TicketInv, FindShot
    PROVE  JobsInv' /\ MailInv' /\ TicketInv'
<1>1. looking = made + 1 /\ looking \in TicketNumbers /\ Gone("Play") /\ looking' = 0
      /\ UNCHANGED <<jobVars, mail>>
  BY DEF FindShot, Bound, TicketInv, TicketTypes, Search, TicketNumbers
<1>2. saved => engine["Play"] \in {"kept"} \cup EngineEnded
  BY DEF JobsInv, JobInv, ShotSaved
<1>3. PICK st \in {"Running", "Complete", "Canceled"} :
         Made("Play", looking, st) /\ st = IF saved THEN "Complete" ELSE "Canceled"
  BY DEF FindShot
<1>4. "Play" \in Kinds
  BY DEF Kinds
<1> QED BY <1>1, <1>2, <1>3, <1>4, MadeNext

\* A message is handled.
LEMMA HandleNext ==
    ASSUME Bound, JobsInv, MailInv, TicketInv, Handle
    PROVE  JobsInv' /\ MailInv' /\ TicketInv'
<1> DEFINE m == Head(mail)
           outcome == [k \in Kinds |-> IF k = "Parse" THEN ParseOutcome(m) ELSE PlayOutcome(m)]
           ended == {k \in Kinds : tickets[k] # 0 /\ outcome[k] # "Running"}
<1>1. /\ mail # <<>> /\ mail' = Tail(mail) /\ looking = 0
      /\ tickets' = [k \in Kinds |-> IF k \in ended THEN 0 ELSE tickets[k]]
      /\ ticketStatus' = [n \in TicketNumbers |->
            IF \E k \in ended : tickets[k] = n THEN outcome[jobOf[n]] ELSE ticketStatus[n]]
      /\ UNCHANGED <<jobVars, looking, jobOf, made, late, replaced>>
  BY DEF Handle
<1>2. /\ Len(mail) \in Nat \ {0} /\ Len(mail') = Len(mail) - 1
      /\ \A i \in 1 .. Len(mail') : i + 1 \in 1 .. Len(mail) /\ mail'[i] = mail[i + 1]
      /\ m = mail[1] /\ m \in Kinds \X Whats /\ MailType'
  BY <1>1 DEF MailInv, MailType
<1>3. JobsInv' /\ GoesOn
  BY <1>1, JobQuiet DEF JobsInv
<1>4. MailTrue'
  <2>1. ASSUME NEW i \in 1 .. Len(mail') PROVE TrueOf(mail[i])'
    <3>1. TrueOf(mail[i + 1])
      BY <1>2 DEF MailInv, MailTrue
    <3> QED BY <1>1, <1>2, <3>1 DEF TrueOf, jobVars, Gone
  <2> QED BY <2>1 DEF MailTrue
<1>5. outcome \in [Kinds -> {"Running", "Complete", "Canceled"}]
  BY DEF ParseOutcome, PlayOutcome
<1>6. heard' \in SUBSET Kinds
  BY <1>2 DEF Handle, TicketInv, TicketTypes
<1>7. TicketTypes' /\ Search' /\ Unmade' /\ OwnTicket'
  <2>1. TicketTypes'
    BY <1>1, <1>5, <1>6 DEF Bound, TicketInv, TicketTypes
  <2>2. Search' /\ OwnTicket'
    BY <1>1 DEF TicketInv, TicketTypes, Search, OwnTicket
  <2>3. Unmade'
    <3> SUFFICES ASSUME NEW n \in TicketNumbers, n > made PROVE ticketStatus'[n] = "Unmade"
      BY <1>1 DEF Unmade
    <3>1. \A k \in ended : tickets[k] <= made
      BY DEF TicketInv, OwnTicket
    <3>2. \A k \in ended : tickets[k] # n
      BY <3>1 DEF TicketInv, TicketTypes, TicketNumbers, Bound
    <3> QED BY <1>1, <3>2 DEF TicketInv, Unmade
  <2> QED BY <2>1, <2>2, <2>3
<1>8. ASSUME NEW n \in TicketNumbers, NEW k \in ended, tickets[k] = n
      PROVE  jobOf[n] = k /\ ticketStatus'[n] = outcome[k] /\ outcome[k] # "Running"
  <2>1. jobOf[n] = k
    BY <1>8 DEF TicketInv, OwnTicket
  <2> QED BY <1>1, <1>8, <2>1
<1>9. ASSUME NEW n \in TicketNumbers, \A k \in ended : tickets[k] # n
      PROVE  ticketStatus'[n] = ticketStatus[n]
  BY <1>1, <1>9
<1> HIDE DEF outcome
<1>10. TicketsInMap'
  <2>1. ASSUME NEW k \in Kinds, tickets'[k] # 0 PROVE ticketStatus'[tickets'[k]] = "Running"
    <3>1. tickets'[k] = tickets[k] /\ k \notin ended
      BY <1>1, <2>1
    <3>2. tickets[k] \in TicketNumbers /\ jobOf[tickets[k]] = k
      BY <2>1, <3>1 DEF TicketInv, TicketTypes, OwnTicket, TicketNumbers, Bound
    <3>3. \A j \in ended : tickets[j] # tickets[k]
      BY <3>1, <3>2 DEF TicketInv, OwnTicket
    <3> QED BY <1>9, <2>1, <3>1, <3>2, <3>3 DEF TicketInv, TicketsInMap
  <2>2. ASSUME NEW n \in TicketNumbers, ticketStatus'[n] = "Running"
        PROVE  tickets'[jobOf[n]] = n \/ n \in replaced
    <3>1. \A k \in ended : tickets[k] # n
      BY <1>8, <2>2
    <3>2. jobOf[n] \in Kinds /\ (tickets[jobOf[n]] = n \/ n \in replaced)
      BY <1>9, <2>2, <3>1 DEF TicketInv, TicketTypes, TicketsInMap
    <3> QED BY <1>1, <3>1, <3>2
  <2> QED BY <1>1, <2>1, <2>2 DEF TicketsInMap
<1> USE DEF outcome
<1>11. /\ outcome["Parse"] = "Complete" => engine["Parse"] \in EngineEnded
       /\ outcome["Play"] = "Complete" => engine["Play"] \in EngineEnded
       /\ outcome["Play"] = "Canceled" => Gone("Play")
       /\ outcome["Parse"] = "Canceled" => Gone("Parse") \/ m[1] = "Play"
  <2>1. TrueOf(m)
    BY <1>2 DEF MailInv, MailTrue
  <2>2. outcome["Parse"] = ParseOutcome(m) /\ outcome["Play"] = PlayOutcome(m)
    BY DEF Kinds
  <2> HIDE DEF outcome, m
  <2>3. m = <<m[1], m[2]>> /\ m[1] \in Kinds
    BY <1>2
  <2> QED BY <2>1, <2>2, <2>3 DEF ParseOutcome, PlayOutcome, TrueOf, Kinds
<1> HIDE DEF outcome, m
<1>12. tickets["Parse"] # 0 /\ outcome["Parse"] = "Canceled" => Gone("Parse")
  <2> SUFFICES ASSUME tickets["Parse"] # 0, ~Gone("Parse"), m[1] = "Play" PROVE FALSE
    BY <1>11
  <2>1. 1 \in 1 .. Len(mail) /\ mail[1][1] = "Play"
    BY <1>2
  <2> QED BY <2>1 DEF MailInv, InOrder, Waits
<1>13. TicketsTellTruth'
  <2>1. ASSUME NEW k \in ended
        PROVE  /\ outcome[k] = "Complete" => engine[k] \in EngineEnded
               /\ outcome[k] = "Canceled" => Gone(k)
    BY <1>11, <1>12 DEF Kinds
  <2>2. ASSUME NEW n \in TicketNumbers
        PROVE  /\ ticketStatus'[n] = "Complete" => engine[jobOf[n]] \in {"kept"} \cup EngineEnded
               /\ ticketStatus'[n] = "Canceled" => Gone(jobOf[n])
    <3>1. CASE \E k \in ended : tickets[k] = n
      BY <1>8, <2>1, <3>1
    <3>2. CASE ~ \E k \in ended : tickets[k] = n
      BY <1>9, <3>2 DEF TicketInv, TicketsTellTruth, Gone, EngineEnded
    <3> QED BY <3>1, <3>2
  <2> QED BY <1>1, <2>2 DEF TicketsTellTruth, Gone, EngineEnded, jobVars
<1>14. Announced' /\ InOrder'
  <2> SUFFICES ASSUME Waits' PROVE Announced' /\ InOrder'
    BY DEF Announced, InOrder
  <2>1. Waits /\ outcome["Parse"] = "Running"
    BY <1>1 DEF Waits, Kinds, jobVars, Gone
  <2>2. m # ParseCompleted
    BY <2>1 DEF outcome, ParseOutcome, ParseCompleted, Kinds
  <2>3. ASSUME NEW j \in 1 .. Len(mail), mail[j] = ParseCompleted
        PROVE  j - 1 \in 1 .. Len(mail') /\ mail'[j - 1] = ParseCompleted
    <3>1. j # 1
      BY <1>2, <2>2, <2>3
    <3>2. j - 1 \in 1 .. Len(mail')
      BY <1>2, <3>1
    <3> QED BY <1>2, <2>3, <3>2
  <2>4. Announced'
    BY <1>1, <2>1, <2>3 DEF MailInv, Announced, jobVars
  <2>5. InOrder'
    <3> SUFFICES ASSUME NEW i \in 1 .. Len(mail'), mail'[i][1] = "Play"
                 PROVE  \E j \in 1 .. Len(mail') : j < i /\ mail'[j] = ParseCompleted
      BY DEF InOrder
    <3>1. i + 1 \in 1 .. Len(mail) /\ mail[i + 1][1] = "Play"
      BY <1>2
    <3>2. PICK j \in 1 .. Len(mail) : j < i + 1 /\ mail[j] = ParseCompleted
      BY <2>1, <3>1 DEF MailInv, InOrder
    <3>3. j - 1 \in 1 .. Len(mail') /\ mail'[j - 1] = ParseCompleted /\ j - 1 < i
      BY <2>3, <3>2
    <3> QED BY <3>3
  <2> QED BY <2>4, <2>5
<1> QED BY <1>2, <1>3, <1>4, <1>7, <1>10, <1>13, <1>14 DEF MailInv, TicketInv

-----------------------------------------------------------------------------
(* The theorems. *)

LEMMA AllInit == ASSUME Bound, TicketsInit PROVE JobsInv /\ MailInv /\ TicketInv
<1>1. JobsInv
  BY DEF TicketsInit, JobsInv, JobTypes, JobInv, JobLists, JobEngines, PlayFollows, ShotSaved,
     Gone, Kinds
<1>2. MailInv
  <2>1. mail = <<>> /\ Len(mail) = 0 /\ mail \in Seq(Kinds \X Whats) /\ tickets["Parse"] = 0
    BY DEF TicketsInit, Kinds
  <2> QED BY <2>1 DEF MailInv, MailType, MailTrue, Announced, InOrder, Waits
<1>3. TicketInv
  BY DEF TicketsInit, Bound, TicketInv, TicketTypes, Search, Unmade, OwnTicket, TicketsInMap,
     TicketsTellTruth, TicketNumbers, Kinds
<1> QED BY <1>1, <1>2, <1>3

LEMMA AllNext ==
    ASSUME Bound, JobsInv, MailInv, TicketInv, [TicketsNext]_tkVars
    PROVE  JobsInv' /\ MailInv' /\ TicketInv'
<1>1. CASE TicketJobs \/ \E k \in Kinds : Submit(k) \/ CancelOut(k) \/ Archive(k)
  <2>1. PICK k \in Kinds : JobMoves(k)
    BY <1>1 DEF TicketJobs, JobMoves, Kinds
  <2> QED BY <2>1, JobStepNext
<1>2. CASE TicketManagers
  BY <1>2, HandleNext, FindShotNext DEF TicketManagers
<1>3. ASSUME NEW k \in Kinds, MakeTicket(k) PROVE JobsInv' /\ MailInv' /\ TicketInv'
  BY <1>3, MakeTicketNext
<1>4. CASE UNCHANGED tkVars
  <2>1. JobsInv' /\ GoesOn /\ TicketInv'
    BY <1>4, JobQuiet, TicketsUntouched DEF tkVars, JobsInv
  <2>2. MailType' /\ MailTrue'
    BY <1>4, <2>1, MailNext DEF tkVars, MailInv
  <2>3. Announced' /\ InOrder'
    BY <1>4 DEF tkVars, ticketVars, jobVars, MailInv, Announced, InOrder, Waits, Gone
  <2> QED BY <2>1, <2>2, <2>3 DEF MailInv
<1> QED BY <1>1, <1>2, <1>3, <1>4 DEF TicketsNext

LEMMA AllHolds == ASSUME Bound PROVE TicketsSpec => [](JobsInv /\ MailInv /\ TicketInv)
<1>1. TicketsInit => JobsInv /\ MailInv /\ TicketInv
  BY AllInit
<1>2. (JobsInv /\ MailInv /\ TicketInv) /\ [TicketsNext]_tkVars
         => (JobsInv /\ MailInv /\ TicketInv)'
  BY AllNext
<1> QED BY <1>1, <1>2, PTL DEF TicketsSpec

\* The variables of managers and jobs keep their types, for any number of tickets.
THEOREM TicketsTypeCorrect == ASSUME Bound PROVE TicketsSpec => []TicketsTypeOK
<1>1. JobsInv /\ MailInv /\ TicketInv => TicketsTypeOK
  BY DEF JobsInv, JobTypes, MailInv, MailType, TicketInv, TicketTypes, TicketsTypeOK, Whats
<1> QED BY <1>1, AllHolds, PTL

\* What handleMessage and makeTicket write into a ticket is true of its job, whenever the
\* ticket was made and however the job was cancelled: for any number of tickets.
THEOREM TicketsAreTrue == ASSUME Bound PROVE TicketsSpec => []TicketsTellTruth
<1>1. JobsInv /\ MailInv /\ TicketInv => TicketsTellTruth
  BY DEF TicketInv
<1> QED BY <1>1, AllHolds, PTL

\* A ticket that runs can be found by the messages that will end it: it is in the manager's
\* map, unless makeTicket has put another one of its job there.
THEOREM TicketsAreFound == ASSUME Bound PROVE TicketsSpec => []TicketsInMap
<1>1. JobsInv /\ MailInv /\ TicketInv => TicketsInMap
  BY DEF TicketInv
<1> QED BY <1>1, AllHolds, PTL

=============================================================================
