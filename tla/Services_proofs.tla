---------------------------- MODULE Services_proofs ----------------------------
(***************************************************************************)
(* Proofs about the services that EventQueue, MessageGrouper and           *)
(* TaskScheduler describe, one after the other, for any bounds.            *)
(*                                                                         *)
(* EventQueue: the types, that an event is handled once, and that the      *)
(* queue is a Mailbox.  MessageGrouper: the types, that a message is sent  *)
(* once and in its place, and that none is lost while nobody stops the     *)
(* grouper.  TaskScheduler: the types, that the list of active tasks       *)
(* agrees with the map, that the tasks of an id do not run at the same     *)
(* time, and that the end of a run leaves a replacement alone.             *)
(*                                                                         *)
(* MCServices: the five services beside each other are each what it is by   *)
(* itself, so all of this, and what the other proof modules show of        *)
(* Tickets and ParseEngine, holds of their composition.                     *)
(***************************************************************************)
EXTENDS MCServices, ParseEngine_proofs, Tickets_proofs, TLAPS

-----------------------------------------------------------------------------
(* The event queue. *)

\* The bounds are numbers.
Bounds == MaxEvents \in Nat /\ MaxClears \in Nat /\ MaxStarts \in Nat

-----------------------------------------------------------------------------
(* Types. *)

Flags == running \in BOOLEAN /\ fresh \in BOOLEAN /\ wiped \in BOOLEAN
Data  == /\ fifo \in Seq(1 .. MaxEvents) /\ eventToHandle \in 0 .. MaxEvents
         /\ thread \in Places /\ owner \in {"idle", "stopping"}
         /\ added \in 0 .. MaxEvents /\ handled \in Seq(0 .. MaxEvents)
         /\ clears \in Nat /\ starts \in Nat

\* The types, apart: the Boolean variables and the others.
LEMMA QueueTypeParts == QueueTypeOK <=> Flags /\ Data
BY Zenon DEF QueueTypeOK, Flags, Data

\* Every step keeps the Boolean variables Boolean.
LEMMA FlagsNext == ASSUME Flags, [QueueNext]_qVars PROVE Flags'
<1> USE DEF Flags
<1>1. CASE AddEvent \/ ClearEvents \/ Stop
  BY <1>1, Zenon DEF AddEvent, ClearEvents, Stop, Halt
<1>2. CASE Start
  BY <1>2, Zenon DEF Start
<1>3. CASE Joined \/ Loop \/ Wait \/ HandleDone
  BY <1>3, Zenon DEF Joined, Loop, Wait, HandleDone
<1>4. CASE TakeEvent
  BY <1>4, Zenon DEF TakeEvent
<1>5. CASE Gate
  BY <1>5, Zenon DEF Gate
<1>6. CASE UNCHANGED qVars
  BY <1>6 DEF qVars
<1> QED BY <1>1, <1>2, <1>3, <1>4, <1>5, <1>6 DEF QueueNext, Handler

\* Every step keeps the types of the others.
LEMMA DataNext == ASSUME Bounds, Data, [QueueNext]_qVars PROVE Data'
<1> USE DEF Bounds, Data, Places
<1>1. CASE AddEvent
  <2>1. added' \in 1 .. MaxEvents
    BY <1>1 DEF AddEvent
  <2>2. Append(fifo, added') \in Seq(1 .. MaxEvents) /\ <<added'>> \o fifo \in Seq(1 .. MaxEvents)
    BY <2>1
  <2>3. fifo' \in Seq(1 .. MaxEvents) /\ thread' \in Places
    <3>1. PICK line \in {Append(fifo, added'), <<added'>> \o fifo} : Insert(line)
      BY <1>1 DEF AddEvent
    <3>2. line \in Seq(1 .. MaxEvents)
      BY <2>2
    <3> QED BY <3>1, <3>2 DEF Insert, Woken
  <2> QED BY <1>1, <2>1, <2>3 DEF AddEvent
<1>2. CASE ClearEvents
  BY <1>2 DEF ClearEvents, Woken
<1>3. CASE Start
  <2>1. thread' = "loop" /\ starts' = starts + 1 /\ eventToHandle' = 0
        /\ UNCHANGED <<fifo, owner, added, handled, clears>>
    BY <1>3, Zenon DEF Start
  <2> QED BY <2>1
<1>4. CASE Stop
  BY <1>4 DEF Stop, Halt, Woken
<1>5. CASE Joined
  BY <1>5 DEF Joined
<1>6. CASE Loop \/ Wait \/ HandleDone
  BY <1>6 DEF Loop, Wait, HandleDone, GoTo
<1>7. CASE TakeEvent
  <2>1. thread' = "gate" /\ UNCHANGED <<owner, added, handled, clears, starts>>
    BY <1>7 DEF TakeEvent, GoTo
  <2>2. \/ UNCHANGED <<fifo, eventToHandle>>
        \/ fifo # <<>> /\ eventToHandle' = Head(fifo) /\ fifo' = Tail(fifo)
    BY <1>7, Zenon DEF TakeEvent, Rest
  <2>3. fifo # <<>> => Head(fifo) \in 1 .. MaxEvents /\ Tail(fifo) \in Seq(1 .. MaxEvents)
    OBVIOUS
  <2>4. fifo' \in Seq(1 .. MaxEvents) /\ eventToHandle' \in 0 .. MaxEvents
    <3>1. CASE UNCHANGED <<fifo, eventToHandle>>
      BY <3>1
    <3>2. CASE fifo # <<>> /\ eventToHandle' = Head(fifo) /\ fifo' = Tail(fifo)
      <4>1. fifo' \in Seq(1 .. MaxEvents) /\ eventToHandle' \in 1 .. MaxEvents
        BY <2>3, <3>2, Zenon
      <4> QED BY <4>1
    <3> QED BY <2>2, <3>1, <3>2
  <2> QED BY <2>1, <2>4
<1>8. CASE Gate
  <2>1. thread' \in {"handle", "loop"} /\ handled' \in {handled, Append(handled, eventToHandle)}
    BY <1>8 DEF Gate, GoTo
  <2>2. UNCHANGED <<fifo, eventToHandle, owner, added, clears, starts>>
    BY <1>8, Zenon DEF Gate
  <2>3. Append(handled, eventToHandle) \in Seq(0 .. MaxEvents)
    OBVIOUS
  <2>4. handled' \in Seq(0 .. MaxEvents)
    BY <2>1, <2>3, Zenon DEF Data
  <2> QED BY <2>1, <2>2, <2>4
<1>9. CASE UNCHANGED qVars
  BY <1>9 DEF qVars
<1> QED BY <1>1, <1>2, <1>3, <1>4, <1>5, <1>6, <1>7, <1>8, <1>9 DEF QueueNext, Handler

\* The list holds events that were offered, the thread's copy and the history such or none.
THEOREM QueueTypeCorrect == ASSUME Bounds PROVE QueueSpec => []QueueTypeOK
<1>1. QueueInit => Flags
  BY Zenon DEF QueueInit, Flags
<1>2. QueueInit => Data
  <2> HAVE QueueInit
  <2>1. fifo = <<>> /\ eventToHandle = 0 /\ thread = "off" /\ owner = "idle" /\ added = 0
        /\ handled = <<>> /\ clears = 0 /\ starts = 0
    BY Zenon DEF QueueInit
  <2> QED BY <2>1 DEF Data, Bounds, Places
<1> QED BY <1>1, <1>2, FlagsNext, DataNext, QueueTypeParts, PTL DEF QueueSpec

-----------------------------------------------------------------------------
(* Where the handler thread is, what it has taken, and who waits for it.  A    *)
(* thread that goes on with an empty list has been stopped, or cleared from.   *)

Protocol ==
    /\ fresh => thread = "gate"
    /\ ~running /\ thread # "off" => owner = "stopping"
    /\ owner = "stopping" => ~running
    /\ thread = "take" /\ fifo = <<>> => wiped \/ ~running
    /\ thread = "gate" /\ ~fresh => wiped \/ ~running
    /\ wiped => clears > 0

LEMMA ProtocolHolds == ASSUME Bounds PROVE QueueSpec => []Protocol
<1>1. QueueInit => Protocol
  BY DEF QueueInit, Protocol
<1>2. QueueTypeOK /\ Protocol /\ [QueueNext]_qVars => Protocol'
  <2> SUFFICES ASSUME QueueTypeOK, Protocol, [QueueNext]_qVars PROVE Protocol'
    OBVIOUS
  <2> USE DEF Protocol
  <2>1. CASE AddEvent
    BY <2>1 DEF AddEvent, Insert, Woken, QueueTypeOK
  <2>2. CASE ClearEvents
    BY <2>2 DEF ClearEvents, Woken, QueueTypeOK
  <2>3. CASE Start
    BY <2>3 DEF Start
  <2>4. CASE Stop
    BY <2>4 DEF Stop, Halt, Woken
  <2>5. CASE Joined
    BY <2>5 DEF Joined
  <2>6. CASE Loop \/ Wait \/ HandleDone
    BY <2>6 DEF Loop, Wait, HandleDone, GoTo
  <2>7. CASE TakeEvent
    BY <2>7 DEF TakeEvent, GoTo
  <2>8. CASE Gate
    BY <2>8 DEF Gate, GoTo
  <2>9. CASE UNCHANGED qVars
    BY <2>9 DEF qVars
  <2> QED BY <2>1, <2>2, <2>3, <2>4, <2>5, <2>6, <2>7, <2>8, <2>9 DEF QueueNext, Handler
<1> QED BY <1>1, <1>2, QueueTypeCorrect, PTL DEF QueueSpec

-----------------------------------------------------------------------------
(* Sequences of events: what is in one, and that it is there once.            *)

Has(s, e) == \E i \in 1 .. Len(s) : s[i] = e
Once(s)   == \A i, j \in 1 .. Len(s) : s[i] = s[j] => i = j

LEMMA AppendHas ==
    ASSUME NEW s \in Seq(Nat), NEW e \in Nat
    PROVE  /\ \A x \in Nat : Has(Append(s, e), x) <=> Has(s, x) \/ x = e
           /\ Once(s) /\ ~Has(s, e) => Once(Append(s, e))
<1> DEFINE t == Append(s, e)
<1>1. Len(s) \in Nat /\ Len(t) = Len(s) + 1 /\ t[Len(s) + 1] = e
      /\ \A i \in 1 .. Len(s) : t[i] = s[i]
  OBVIOUS
<1> HIDE DEF t
<1>2. \A x \in Nat : Has(t, x) <=> Has(s, x) \/ x = e
  BY <1>1 DEF Has
<1>3. Once(s) /\ ~Has(s, e) => Once(t)
  BY <1>1 DEF Once, Has
<1> QED BY <1>2, <1>3 DEF t

LEMMA FrontHas ==
    ASSUME NEW s \in Seq(Nat), NEW e \in Nat
    PROVE  /\ \A x \in Nat : Has(<<e>> \o s, x) <=> Has(s, x) \/ x = e
           /\ Once(s) /\ ~Has(s, e) => Once(<<e>> \o s)
<1> DEFINE t == <<e>> \o s
<1>1. Len(s) \in Nat /\ Len(t) = Len(s) + 1 /\ t[1] = e
      /\ \A i \in 2 .. Len(t) : t[i] = s[i - 1]
  OBVIOUS
<1>2. \A i \in 1 .. Len(s) : t[i + 1] = s[i]
  BY <1>1
<1> HIDE DEF t
<1>3. \A x \in Nat : Has(t, x) <=> Has(s, x) \/ x = e
  <2> SUFFICES ASSUME NEW x \in Nat PROVE Has(t, x) <=> Has(s, x) \/ x = e
    OBVIOUS
  <2>1. ASSUME NEW i \in 1 .. Len(t), t[i] = x PROVE Has(s, x) \/ x = e
    <3>1. i = 1 \/ (i - 1 \in 1 .. Len(s) /\ i \in 2 .. Len(t))
      BY <1>1
    <3> QED BY <1>1, <2>1, <3>1 DEF Has
  <2>2. ASSUME NEW i \in 1 .. Len(s), s[i] = x PROVE Has(t, x)
    <3>1. i + 1 \in 1 .. Len(t) /\ t[i + 1] = x
      BY <1>1, <1>2, <2>2
    <3> QED BY <3>1 DEF Has
  <2>3. 1 \in 1 .. Len(t)
    BY <1>1
  <2> QED BY <1>1, <2>1, <2>2, <2>3 DEF Has
<1>4. ASSUME Once(s), ~Has(s, e) PROVE Once(t)
  <2> SUFFICES ASSUME NEW i \in 1 .. Len(t), NEW j \in 1 .. Len(t), t[i] = t[j] PROVE i = j
    BY DEF Once
  <2>1. \A k \in 2 .. Len(t) : k - 1 \in 1 .. Len(s) /\ t[k] = s[k - 1] /\ t[k] # e
    BY <1>1, <1>4 DEF Has
  <2>2. CASE i = 1 \/ j = 1
    BY <1>1, <2>1, <2>2
  <2>3. CASE i # 1 /\ j # 1
    <3>1. i \in 2 .. Len(t) /\ j \in 2 .. Len(t)
      BY <1>1, <2>3
    <3>2. s[i - 1] = s[j - 1] /\ i - 1 \in 1 .. Len(s) /\ j - 1 \in 1 .. Len(s)
      BY <2>1, <3>1
    <3>3. i - 1 = j - 1
      BY <1>4, <3>2 DEF Once
    <3> QED BY <3>1, <3>3
  <2> QED BY <2>2, <2>3
<1> QED BY <1>3, <1>4 DEF t

LEMMA TailHas ==
    ASSUME NEW s \in Seq(Nat), s # <<>>, Once(s)
    PROVE  /\ Head(s) \in Nat /\ Has(s, Head(s)) /\ Tail(s) \in Seq(Nat)
           /\ \A x \in Nat : Has(Tail(s), x) <=> Has(s, x) /\ x # Head(s)
           /\ Once(Tail(s))
<1> DEFINE t == Tail(s)
<1>1. /\ Len(s) \in Nat \ {0} /\ Len(t) = Len(s) - 1 /\ Head(s) = s[1]
      /\ \A i \in 1 .. Len(t) : t[i] = s[i + 1]
      /\ \A i \in 1 .. Len(s) : s[i] \in Nat
      /\ t \in Seq(Nat)
  OBVIOUS
<1> HIDE DEF t
<1>2. Head(s) \in Nat /\ Has(s, Head(s))
  BY <1>1 DEF Has
<1>3. \A x \in Nat : Has(t, x) <=> Has(s, x) /\ x # Head(s)
  <2> SUFFICES ASSUME NEW x \in Nat PROVE Has(t, x) <=> Has(s, x) /\ x # Head(s)
    OBVIOUS
  <2>1. ASSUME NEW i \in 1 .. Len(t), t[i] = x PROVE Has(s, x) /\ x # Head(s)
    <3>1. i + 1 \in 1 .. Len(s) /\ s[i + 1] = x /\ i + 1 # 1 /\ 1 \in 1 .. Len(s)
      BY <1>1, <2>1
    <3>2. x # s[1]
      BY <3>1 DEF Once
    <3> QED BY <1>1, <3>1, <3>2 DEF Has
  <2>2. ASSUME NEW i \in 1 .. Len(s), s[i] = x, x # Head(s) PROVE Has(t, x)
    <3>1. i # 1
      BY <1>1, <2>2
    <3>2. i - 1 \in 1 .. Len(t)
      BY <1>1, <3>1
    <3>3. t[i - 1] = x
      <4>1. t[i - 1] = s[(i - 1) + 1]
        BY <1>1, <3>2
      <4> QED BY <2>2, <4>1
    <3> QED BY <3>2, <3>3 DEF Has
  <2> QED BY <2>1, <2>2 DEF Has
<1>4. Once(t)
  <2> SUFFICES ASSUME NEW i \in 1 .. Len(t), NEW j \in 1 .. Len(t), t[i] = t[j] PROVE i = j
    BY DEF Once
  <2>1. i + 1 \in 1 .. Len(s) /\ j + 1 \in 1 .. Len(s)
    BY <1>1
  <2>2. s[i + 1] = s[j + 1]
    <3>1. t[i] = s[i + 1] /\ t[j] = s[j + 1]
      BY <1>1
    <3> QED BY <3>1
  <2>3. i + 1 = j + 1
    BY <2>1, <2>2 DEF Once
  <2> QED BY <1>1, <2>3
<1> QED BY <1>1, <1>2, <1>3, <1>4 DEF t

-----------------------------------------------------------------------------
(* An event is in one place: the invariant says of the list, of the event in  *)
(* the thread's hands and of those handled that no two are the same, and of   *)
(* the next one that it is none of them.                                      *)

Numbered ==
    \A x \in Nat : Has(fifo, x) \/ Has(handled, x) \/ x = eventToHandle => x <= added
ListUnhandled  == \A x \in Nat : ~(Has(fifo, x) /\ Has(handled, x))
TakenFromList  == ~Has(fifo, eventToHandle)
TakenUnhandled == fresh => ~Has(handled, eventToHandle)
HandledOnce    == clears = 0 => Once(handled)

InOnePlace == Numbered /\ Once(fifo) /\ ListUnhandled /\ TakenFromList
              /\ TakenUnhandled /\ HandledOnce

LEMMA Numbers ==
    ASSUME Bounds, Data
    PROVE  fifo \in Seq(Nat) /\ handled \in Seq(Nat) /\ eventToHandle \in Nat /\ added \in Nat
           /\ clears \in Nat /\ ~Has(fifo, 0)
BY DEF Bounds, Data, Has

\* A new event, at either end of the list, is in one place.
LEMMA AddKeepsPlaces == ASSUME Bounds, Data, InOnePlace, AddEvent PROVE InOnePlace'
<1>1. /\ added' = added + 1 /\ handled' = handled /\ eventToHandle' = eventToHandle
      /\ (fresh' <=> fresh) /\ clears' = clears
  BY DEF AddEvent
<1>2. ~Has(fifo, added') /\ ~Has(handled, added') /\ eventToHandle # added' /\ added' \in Nat
  BY <1>1, Numbers DEF InOnePlace, Numbered
<1>3. \/ fifo' = fifo
      \/ /\ Once(fifo')
         /\ \A x \in Nat : Has(fifo', x) <=> Has(fifo, x) \/ x = added'
  <2>1. CASE fifo' = Append(fifo, added')
    BY <1>2, <2>1, Numbers, AppendHas DEF InOnePlace
  <2>2. CASE fifo' = <<added'>> \o fifo
    BY <1>2, <2>2, Numbers, FrontHas DEF InOnePlace
  <2> QED BY <2>1, <2>2 DEF AddEvent, Insert
<1>4. \A x \in Nat : Has(fifo', x) => Has(fifo, x) \/ x = added'
  BY <1>3
<1>5. Numbered'
  BY <1>1, <1>4, Numbers DEF InOnePlace, Numbered
<1>6. Once(fifo)' /\ ListUnhandled' /\ TakenFromList'
  BY <1>1, <1>2, <1>3, <1>4, Numbers DEF InOnePlace, ListUnhandled, TakenFromList
<1>7. TakenUnhandled' /\ HandledOnce'
  BY <1>1 DEF InOnePlace, TakenUnhandled, HandledOnce
<1> QED BY <1>5, <1>6, <1>7 DEF InOnePlace

\* The event that the thread takes leaves the list.
LEMMA TakeKeepsPlaces == ASSUME Bounds, Data, InOnePlace, TakeEvent PROVE InOnePlace'
<1>1. handled' = handled /\ added' = added /\ clears' = clears
  BY DEF TakeEvent
<1>2. CASE fifo = <<>>
  <2>1. fifo' = fifo /\ eventToHandle' = eventToHandle /\ (fresh' <=> fresh)
    BY <1>2 DEF TakeEvent
  <2> QED BY <1>1, <2>1 DEF InOnePlace, Numbered, ListUnhandled, TakenFromList,
          TakenUnhandled, HandledOnce
<1>3. CASE fifo # <<>>
  <2>1. fifo' = Tail(fifo) /\ eventToHandle' = Head(fifo)
    BY <1>3, Zenon DEF TakeEvent, Rest
  <2>2. /\ eventToHandle' \in Nat /\ Has(fifo, eventToHandle') /\ Once(fifo')
        /\ \A x \in Nat : Has(fifo', x) <=> Has(fifo, x) /\ x # eventToHandle'
    BY <1>3, <2>1, Numbers, TailHas DEF InOnePlace
  <2>3. ~Has(handled, eventToHandle')
    BY <2>2 DEF InOnePlace, ListUnhandled
  <2>4. Numbered'
    BY <1>1, <2>2 DEF InOnePlace, Numbered
  <2>5. ListUnhandled' /\ TakenFromList'
    BY <1>1, <2>2 DEF InOnePlace, ListUnhandled, TakenFromList
  <2>6. TakenUnhandled' /\ HandledOnce'
    BY <1>1, <2>3 DEF InOnePlace, TakenUnhandled, HandledOnce
  <2> QED BY <2>2, <2>4, <2>5, <2>6 DEF InOnePlace
<1> QED BY <1>2, <1>3

\* The event that is handled was the one taken; without a clear it is a new one.
LEMMA GateKeepsPlaces == ASSUME Bounds, Data, Protocol, InOnePlace, Gate PROVE InOnePlace'
<1>1. fifo' = fifo /\ added' = added /\ clears' = clears /\ eventToHandle' = eventToHandle
      /\ ~fresh'
  BY DEF Gate
<1>2. CASE ~running
  <2>1. handled' = handled
    BY <1>2 DEF Gate
  <2> QED BY <1>1, <2>1 DEF InOnePlace, Numbered, ListUnhandled, TakenFromList,
          TakenUnhandled, HandledOnce
<1>3. CASE running
  <2>1. handled' = Append(handled, eventToHandle)
    BY <1>3 DEF Gate
  <2>2. /\ \A x \in Nat : Has(handled', x) <=> Has(handled, x) \/ x = eventToHandle
        /\ Once(handled) /\ ~Has(handled, eventToHandle) => Once(handled')
    BY <2>1, Numbers, AppendHas
  <2>3. clears = 0 => ~Has(handled, eventToHandle)
    <3>1. clears = 0 => ~wiped
      BY DEF Protocol
    <3>2. ~wiped => fresh
      BY <1>3 DEF Gate, GoTo, Protocol
    <3> QED BY <3>1, <3>2 DEF InOnePlace, TakenUnhandled
  <2>4. Numbered' /\ ListUnhandled' /\ TakenFromList'
    BY <1>1, <2>2, Numbers DEF InOnePlace, Numbered, ListUnhandled, TakenFromList
  <2>5. TakenUnhandled' /\ HandledOnce'
    BY <1>1, <2>2, <2>3 DEF InOnePlace, TakenUnhandled, HandledOnce
  <2> QED BY <1>1, <2>4, <2>5 DEF InOnePlace
<1> QED BY <1>2, <1>3

LEMMA InOnePlaceHolds == ASSUME Bounds PROVE QueueSpec => []InOnePlace
<1>1. QueueInit => InOnePlace
  <2> HAVE QueueInit
  <2>1. fifo = <<>> /\ eventToHandle = 0 /\ added = 0 /\ handled = <<>>
    BY Zenon DEF QueueInit
  <2>2. Once(<<>>) /\ \A x : ~Has(<<>>, x)
    BY DEF Once, Has
  <2> QED BY <2>1, <2>2 DEF InOnePlace, Numbered, ListUnhandled, TakenFromList,
          TakenUnhandled, HandledOnce
<1>2. Data /\ Protocol /\ InOnePlace /\ [QueueNext]_qVars => InOnePlace'
  <2> SUFFICES ASSUME Data, Protocol, InOnePlace, [QueueNext]_qVars PROVE InOnePlace'
    OBVIOUS
  <2> USE DEF InOnePlace, Numbered, ListUnhandled, TakenFromList, TakenUnhandled, HandledOnce
  <2>1. CASE AddEvent
    BY <2>1, AddKeepsPlaces
  <2>2. CASE ClearEvents
    <3>1. /\ fifo' = <<>> /\ clears' = clears + 1
          /\ UNCHANGED <<eventToHandle, fresh, added, handled>>
      BY <2>2 DEF ClearEvents
    <3>2. Once(<<>>) /\ \A x : ~Has(<<>>, x)
      BY DEF Once, Has
    <3> QED BY <3>1, <3>2, Numbers
  <2>3. CASE Start
    <3>1. eventToHandle' = 0 /\ ~fresh' /\ UNCHANGED <<fifo, added, handled, clears>>
      BY <2>3 DEF Start
    <3> QED BY <3>1, Numbers
  <2>4. CASE Stop \/ Joined \/ Loop \/ Wait \/ HandleDone \/ UNCHANGED qVars
    <3>1. UNCHANGED <<fifo, eventToHandle, fresh, added, handled, clears>>
      BY <2>4 DEF Stop, Joined, Loop, Wait, HandleDone, qVars
    <3> QED BY <3>1
  <2>5. CASE TakeEvent
    BY <2>5, TakeKeepsPlaces
  <2>6. CASE Gate
    BY <2>6, GateKeepsPlaces
  <2> QED BY <2>1, <2>2, <2>3, <2>4, <2>5, <2>6 DEF QueueNext, Handler
<1>3. QueueTypeOK => Data
  BY QueueTypeParts
<1> QED BY <1>1, <1>2, <1>3, QueueTypeCorrect, ProtocolHolds, PTL DEF QueueSpec

\* No event is handled while it still waits, and none twice unless the list was cleared.
THEOREM QueueHandlesOnce == ASSUME Bounds PROVE QueueSpec => []QueueAtMostOnce
<1>1. Data /\ InOnePlace => QueueAtMostOnce
  <2> SUFFICES ASSUME Data, InOnePlace PROVE QueueAtMostOnce
    OBVIOUS
  <2> DEFINE line == (IF fresh THEN <<eventToHandle>> ELSE <<>>) \o fifo
  <2>1. /\ line \in Seq(Nat) /\ Once(line)
        /\ \A x \in Nat : Has(line, x) => Has(fifo, x) \/ (fresh /\ x = eventToHandle)
    <3>1. CASE fresh
      <4>1. line = <<eventToHandle>> \o fifo
        BY <3>1
      <4> QED BY <3>1, <4>1, Numbers, FrontHas DEF InOnePlace, TakenFromList
    <3>2. CASE ~fresh
      <4>1. line = <<>> \o fifo
        BY <3>2
      <4>2. line = fifo
        BY <4>1, Numbers
      <4> QED BY <4>2, Numbers DEF InOnePlace
    <3> QED BY <3>1, <3>2
  <2> HIDE DEF line
  <2>2. DOMAIN line = 1 .. Len(line) /\ DOMAIN handled = 1 .. Len(handled)
    BY <2>1, Numbers
  <2>3. \A i, j \in DOMAIN line : line[i] = line[j] => i = j
    BY <2>1, <2>2 DEF Once
  <2>4. \A i \in DOMAIN line, j \in DOMAIN handled : line[i] # handled[j]
    <3> SUFFICES ASSUME NEW i \in DOMAIN line, NEW j \in DOMAIN handled, line[i] = handled[j]
                 PROVE  FALSE
      OBVIOUS
    <3>1. line[i] \in Nat /\ Has(line, line[i]) /\ Has(handled, line[i])
      BY <2>1, <2>2 DEF Has
    <3> QED BY <2>1, <3>1 DEF InOnePlace, ListUnhandled, TakenUnhandled
  <2>5. clears = 0 => \A i, j \in DOMAIN handled : handled[i] = handled[j] => i = j
    BY <2>2 DEF InOnePlace, HandledOnce, Once
  <2> QED BY <2>3, <2>4, <2>5 DEF QueueAtMostOnce, line
<1>2. QueueTypeOK => Data
  BY QueueTypeParts
<1> QED BY <1>1, <1>2, QueueTypeCorrect, InOnePlaceHolds, PTL

-----------------------------------------------------------------------------
(* The queue implements Mailbox: addEvent posts, the thread takes under the   *)
(* lock and delivers, and what a stop makes the thread drop is dropped while  *)
(* the mailbox is closed.                                                     *)

LEMMA StepIsMailStep ==
    ASSUME Bounds, QueueTypeOK, Protocol, [QueueNext]_qVars
    PROVE  [Box!MailNext]_(Box!mailVars)
<1> USE DEF Box!MailNext, Box!mailVars
<1>1. CASE AddEvent
  <2>1. added' \in 1 .. MaxEvents
    BY <1>1 DEF AddEvent, QueueTypeOK, Bounds
  <2>2. CASE running
    BY <1>1, <2>1, <2>2 DEF AddEvent, Insert, Box!Post
  <2>3. CASE ~running
    BY <1>1, <2>3 DEF AddEvent, Insert
  <2> QED BY <2>2, <2>3
<1>2. CASE ClearEvents
  BY <1>2 DEF ClearEvents, Box!Wipe
<1>3. CASE Start
  BY <1>3 DEF Start, Protocol, Box!Open
<1>4. CASE Stop
  BY <1>4 DEF Stop, Halt, Box!Close
<1>5. CASE Joined \/ Loop \/ Wait \/ HandleDone
  <2>1. UNCHANGED <<fifo, eventToHandle, fresh, handled, running, wiped>>
    BY <1>5 DEF Joined, Loop, Wait, HandleDone
  <2> QED BY <2>1
<1>6. CASE TakeEvent
  <2>1. ~fresh
    BY <1>6 DEF TakeEvent, GoTo, Protocol
  <2> QED BY <1>6, <2>1 DEF TakeEvent, Rest, Box!Take
<1>7. CASE Gate
  <2>1. CASE ~running
    BY <1>7, <2>1 DEF Gate, Box!Drop
  <2>2. CASE running /\ fresh
    BY <1>7, <2>2 DEF Gate, Box!Deliver
  <2>3. CASE running /\ ~fresh
    <3>1. wiped /\ eventToHandle \in (1 .. MaxEvents) \cup {0}
      BY <1>7, <2>3 DEF Gate, GoTo, Protocol, QueueTypeOK, Bounds
    <3> QED BY <1>7, <2>3, <3>1 DEF Gate, Box!Again
  <2> QED BY <2>1, <2>2, <2>3
<1>8. CASE UNCHANGED qVars
  BY <1>8 DEF qVars
<1> QED BY <1>1, <1>2, <1>3, <1>4, <1>5, <1>6, <1>7, <1>8 DEF QueueNext, Handler

\* Events leave the queue in the order of their line, each once, except after a clear.
THEOREM QueueImplementsMailbox == ASSUME Bounds PROVE QueueSpec => QueueIsMailbox
<1>1. QueueInit => Box!MailInit
  BY DEF QueueInit, Box!MailInit
<1> QED BY <1>1, StepIsMailStep, QueueTypeCorrect, ProtocolHolds, PTL
        DEF QueueSpec, QueueIsMailbox, Box!Mail

-----------------------------------------------------------------------------
(* The message grouper. *)

\* The bounds of the model.
GrouperBounds == MaxMessages \in Nat /\ MaxStops \in Nat

-----------------------------------------------------------------------------
(* The invariant.  A message is in one place: a group that was sent, the group that is being *)
(* sent, the one that waits, or the hands of a caller who sends it alone.                    *)

\* What waits for the next group; a message that was sent is still there, but not cached.
Waiting == IF cached THEN message ELSE {}

\* No place knows a message that was not offered.
WereOffered ==
    /\ \A i \in DOMAIN sent : \A m \in sent[i] : m <= offered
    /\ \A m \in toDispatch : m <= offered
    /\ cached => \A m \in message : m <= offered
    /\ \A s \in Senders : immediate[s] <= offered

\* The messages of G may leave now: those that were sent are older, or went alone.
MayLeave(G) ==
    \A i \in DOMAIN sent : \A m \in sent[i], n \in G : m < n \/ (m > n /\ sent[i] = {m})

\* A message in the hands of its caller is nowhere else.
MessageInOnePlace ==
    \A s \in Senders : immediate[s] # 0 =>
        /\ ~WasSent(immediate[s])
        /\ immediate[s] \notin toDispatch /\ (cached => immediate[s] \notin message)
        /\ \A t \in Senders : t # s => immediate[t] # immediate[s]

\* The group that is being sent leaves before the one that waits.
InTurn ==
    /\ MayLeave(toDispatch) /\ (cached => MayLeave(message))
    /\ cached => \A m \in toDispatch, n \in message : m < n

GrouperInv == WereOffered /\ MessageInOnePlace /\ InTurn /\ GrouperOrder

\* What a loop that nobody stops relies on: it runs, a message that waits keeps it from going
\* idle, and a new group is made only when the last one has left.
LoopInOrder ==
    /\ stops = 0 => grouping /\ (phase = "Idle" => ~cached)
    /\ toDispatch # {} => loop = "sending"

\* A message that was offered was sent, or is on its way.
OnItsWay(m) ==
    \/ WasSent(m) \/ m \in toDispatch \/ (cached /\ m \in message)
    \/ \E s \in Senders : immediate[s] = m
NothingLost == stops = 0 => \A m \in 1 .. offered : OnItsWay(m)

-----------------------------------------------------------------------------
(* Lemmas. *)

\* A group that leaves is the last of those that were sent.
LEMMA OneMoreGroup ==
  ASSUME NEW S, NEW q \in Seq(S), NEW g \in S
  PROVE  /\ Append(q, g) \in Seq(S)
         /\ DOMAIN Append(q, g) = DOMAIN q \cup {Len(q) + 1}
         /\ Append(q, g)[Len(q) + 1] = g
         /\ \A i \in DOMAIN q : Append(q, g)[i] = q[i] /\ i < Len(q) + 1
  OBVIOUS

\* The two flags apart from the rest: no prover does Booleans and numbers at once.
GrouperFlags == grouping \in BOOLEAN /\ cached \in BOOLEAN
GrouperData ==
    /\ phase \in {"Idle", "Warming", "Sending", "Cooling"}
    /\ message \in SUBSET (1 .. MaxMessages) /\ toDispatch \in SUBSET (1 .. MaxMessages)
    /\ loop \in {"off", "top", "idle", "warm", "sending", "cooling"}
    /\ immediate \in [Senders -> 0 .. MaxMessages]
    /\ offered \in 0 .. MaxMessages /\ stops \in Nat
    /\ sent \in Seq(SUBSET (1 .. MaxMessages))

\* GrouperTypeOK is the two of them.
LEMMA GrouperTypeParts == GrouperTypeOK <=> GrouperFlags /\ GrouperData
BY Zenon DEF GrouperTypeOK, GrouperFlags, GrouperData

\* Every step keeps the flags Boolean.
LEMMA GrouperFlagsNext ==
  ASSUME GrouperFlags, [GrouperNext]_gVars
  PROVE  GrouperFlags'
<1> USE DEF GrouperFlags
<1>1. ASSUME NEW s \in Senders, AddMessage(s) PROVE GrouperFlags'
  BY <1>1, Zenon DEF AddMessage, AddGroupable, AddImmediate
<1>2. ASSUME NEW s \in Senders, DispatchImmediate(s) PROVE GrouperFlags'
  BY <1>2, Zenon DEF DispatchImmediate
<1>3. CASE Top \/ Sent \/ Cooled
  BY <1>3, Zenon DEF Top, Sent, Cooled
<1>4. CASE SendGroup
  BY <1>4, Zenon DEF SendGroup, CachedAfter
<1>5. CASE StopGrouper \/ StartGrouper
  BY <1>5, Zenon DEF StopGrouper, StartGrouper
<1>6. CASE UNCHANGED gVars
  BY <1>6 DEF gVars
<1> QED BY <1>1, <1>2, <1>3, <1>4, <1>5, <1>6 DEF GrouperNext, GrouperLoop

\* Every step keeps the types of the rest.
LEMMA GrouperDataNext ==
  ASSUME GrouperBounds, GrouperData, [GrouperNext]_gVars
  PROVE  GrouperData'
<1> USE DEF GrouperBounds, GrouperData
<1>1. ASSUME NEW s \in Senders, AddMessage(s) PROVE GrouperData'
  <2>1. offered' \in 1 .. MaxMessages /\ UNCHANGED <<toDispatch, sent, stops>>
    BY <1>1 DEF AddMessage
  <2>2. CASE AddGroupable(offered')
    BY <2>1, <2>2 DEF AddGroupable, Merged
  <2>3. CASE AddImmediate(s, offered')
    BY <2>1, <2>3 DEF AddImmediate
  <2>4. CASE UNCHANGED <<message, cached, phase, loop, immediate>>
    BY <2>1, <2>4
  <2> QED BY <1>1, <2>2, <2>3, <2>4, Zenon DEF AddMessage
<1>2. ASSUME NEW s \in Senders, DispatchImmediate(s) PROVE GrouperData'
  <2>1. {immediate[s]} \in SUBSET (1 .. MaxMessages)
    BY <1>2 DEF DispatchImmediate
  <2>2. Append(sent, {immediate[s]}) \in Seq(SUBSET (1 .. MaxMessages))
    BY <2>1
  <2> QED BY <1>2, <2>2 DEF DispatchImmediate
<1>3. CASE Top BY <1>3 DEF Top, Turn
<1>4. CASE SendGroup
  <2>1. toDispatch' \in SUBSET (1 .. MaxMessages)
    BY <1>4 DEF SendGroup
  <2>2. loop' \in {"sending", "cooling"} /\ phase' \in {"Sending", phase}
    BY <1>4, Zenon DEF SendGroup
  <2> QED BY <1>4, <2>1, <2>2 DEF SendGroup
<1>5. CASE Sent
  <2>1. Append(sent, toDispatch) \in Seq(SUBSET (1 .. MaxMessages))
    OBVIOUS
  <2> QED BY <1>5, <2>1 DEF Sent
<1>6. CASE Cooled BY <1>6 DEF Cooled, NextPhase, Turn
<1>7. CASE StopGrouper
  <2>1. stops' = stops + 1 /\ loop' \in {"warm", loop}
        /\ UNCHANGED <<phase, message, toDispatch, immediate, offered, sent>>
    BY <1>7, Zenon DEF StopGrouper
  <2> QED BY <2>1
<1>8. CASE StartGrouper BY <1>8, Zenon DEF StartGrouper
<1>9. CASE UNCHANGED gVars BY <1>9, Zenon DEF gVars
<1> QED BY <1>1, <1>2, <1>3, <1>4, <1>5, <1>6, <1>7, <1>8, <1>9 DEF GrouperNext, GrouperLoop

\* The variables of the grouper keep the types of the code (GrouperTypeOK).
THEOREM GrouperTypeCorrect ==
  ASSUME GrouperBounds
  PROVE  GrouperSpec => []GrouperTypeOK
<1>1. GrouperInit => GrouperFlags
  BY Zenon DEF GrouperInit, GrouperFlags
<1>2. GrouperInit => GrouperData
  <2> HAVE GrouperInit
  <2>1. /\ phase = "Idle" /\ message = {} /\ toDispatch = {} /\ loop = "top"
        /\ immediate = [s \in Senders |-> 0] /\ offered = 0 /\ sent = <<>> /\ stops = 0
    BY Zenon DEF GrouperInit
  <2> QED BY <2>1 DEF GrouperData, GrouperBounds
<1> QED BY <1>1, <1>2, GrouperFlagsNext, GrouperDataNext, GrouperTypeParts, PTL DEF GrouperSpec

-----------------------------------------------------------------------------
(* The order of the messages. *)

\* A message joins the one that waits, or becomes it, or is kept by its caller: it is younger
\* than all others.
LEMMA AddedInOrder ==
  ASSUME GrouperData, GrouperInv, NEW s \in Senders, AddMessage(s)
  PROVE  GrouperInv'
<1> USE DEF GrouperInv
<1>1. /\ offered' = offered + 1 /\ UNCHANGED <<sent, toDispatch>>
      /\ offered \in Nat /\ \A i \in DOMAIN sent : sent[i] \subseteq Nat
      /\ toDispatch \subseteq Nat /\ message \subseteq Nat
      /\ \A t \in Senders : immediate[t] \in Nat
  BY DEF AddMessage, GrouperData
<1>2. GrouperOrder'
  BY <1>1 DEF GrouperOrder
<1>3. CASE grouping /\ AddGroupable(offered')
  <2> DEFINE new == offered + 1
  <2>1. /\ cached' /\ UNCHANGED immediate
        /\ (cached /\ message' = message \cup {new}) \/ message' = {new}
    BY <1>1, <1>3, Zenon DEF AddGroupable, Merged
  <2>2. CASE cached /\ message' = message \cup {new}
    <3>1. \A m \in message' : m = new \/ m \in message BY <2>2
    <3>2. WereOffered' BY <1>1, <2>1, <2>2, <3>1 DEF WereOffered
    <3>3. MessageInOnePlace' BY <1>1, <2>1, <2>2, <3>1 DEF WereOffered, MessageInOnePlace, WasSent
    <3>4. InTurn' BY <1>1, <2>1, <2>2, <3>1 DEF WereOffered, InTurn, MayLeave
    <3> QED BY <1>2, <3>2, <3>3, <3>4
  <2>3. CASE message' = {new}
    <3>1. WereOffered' BY <1>1, <2>1, <2>3 DEF WereOffered
    <3>2. MessageInOnePlace' BY <1>1, <2>1, <2>3 DEF WereOffered, MessageInOnePlace, WasSent
    <3>3. InTurn' BY <1>1, <2>1, <2>3 DEF WereOffered, InTurn, MayLeave
    <3> QED BY <1>2, <3>1, <3>2, <3>3
  <2> QED BY <2>1, <2>2, <2>3
<1>4. CASE grouping /\ AddImmediate(s, offered')
  <2>1. /\ immediate' = [immediate EXCEPT ![s] = offered'] /\ UNCHANGED <<message, cached>>
        /\ \A t \in Senders : immediate'[t] = IF t = s THEN offered + 1 ELSE immediate[t]
    BY <1>1, <1>4 DEF AddImmediate, GrouperData
  <2>2. WereOffered'
    <3>1. \A t \in Senders : immediate'[t] <= offered'
      BY <1>1, <2>1 DEF WereOffered
    <3>2. /\ \A i \in DOMAIN sent : \A m \in sent[i] : m \in Nat /\ m <= offered
          /\ \A m \in toDispatch : m \in Nat /\ m <= offered
          /\ cached => \A m \in message : m \in Nat /\ m <= offered
      BY <1>1 DEF WereOffered
    <3>3. \A m \in Nat : m <= offered => m <= offered'
      BY <1>1
    <3>4. UNCHANGED <<sent, toDispatch, message, cached>>
      BY <1>1, <2>1
    <3> QED BY <3>1, <3>2, <3>3, <3>4 DEF WereOffered
  <2>3. MessageInOnePlace'
    <3> SUFFICES ASSUME NEW t \in Senders, immediate'[t] # 0
                 PROVE  /\ ~WasSent(immediate[t])'
                        /\ immediate'[t] \notin toDispatch'
                        /\ (cached' => immediate'[t] \notin message')
                        /\ \A u \in Senders : u # t => immediate'[u] # immediate'[t]
      BY DEF MessageInOnePlace
    <3>1. CASE t = s BY <1>1, <2>1, <3>1 DEF WereOffered, WasSent
    <3>2. CASE t # s BY <1>1, <2>1, <3>2 DEF WereOffered, MessageInOnePlace, WasSent
    <3> QED BY <3>1, <3>2
  <2>4. InTurn' BY <1>1, <2>1 DEF InTurn, MayLeave
  <2> QED BY <1>2, <2>2, <2>3, <2>4
<1>5. CASE ~grouping
  <2>1. UNCHANGED <<message, cached, immediate>> BY <1>5 DEF AddMessage
  <2> QED BY <1>1, <1>2, <2>1 DEF WereOffered, MessageInOnePlace, InTurn, MayLeave, WasSent
<1> QED BY <1>3, <1>4, <1>5 DEF AddMessage

\* A caller sends its message alone: it may overtake, and nothing else knows it.
LEMMA SentAloneInOrder ==
  ASSUME GrouperData, GrouperInv, NEW s \in Senders, DispatchImmediate(s)
  PROVE  GrouperInv'
<1> USE DEF GrouperInv
<1> DEFINE m == immediate[s]
           last == Len(sent) + 1
<1>1. /\ m # 0 /\ sent' = Append(sent, {m})
      /\ UNCHANGED <<cached, message, toDispatch, offered>>
      /\ \A t \in Senders : immediate'[t] = IF t = s THEN 0 ELSE immediate[t]
      /\ {m} \in SUBSET (1 .. MaxMessages) /\ m \in Nat
      /\ offered \in Nat /\ \A i \in DOMAIN sent : sent[i] \subseteq Nat
      /\ toDispatch \subseteq Nat /\ message \subseteq Nat
      /\ \A t \in Senders : immediate[t] \in Nat
  BY DEF DispatchImmediate, GrouperData
<1>2. /\ DOMAIN sent' = DOMAIN sent \cup {last}
      /\ sent'[last] = {m} /\ \A i \in DOMAIN sent : sent'[i] = sent[i] /\ i < last
      /\ DOMAIN sent \subseteq Nat /\ last \in Nat
  BY <1>1, OneMoreGroup DEF GrouperData
<1>3. WereOffered' BY <1>1, <1>2 DEF WereOffered
<1>4. MessageInOnePlace' BY <1>1, <1>2 DEF MessageInOnePlace, WasSent
<1>5. InTurn'
  <2>1. MayLeave(toDispatch)'
    BY <1>1, <1>2 DEF InTurn, MayLeave, MessageInOnePlace
  <2>2. cached' => MayLeave(message)'
    BY <1>1, <1>2 DEF InTurn, MayLeave, MessageInOnePlace
  <2> QED BY <1>1, <2>1, <2>2 DEF InTurn
<1>6. GrouperOrder'
  <2> SUFFICES ASSUME NEW i \in DOMAIN sent', NEW j \in DOMAIN sent', i < j,
                      NEW a \in sent'[i], NEW b \in sent'[j]
               PROVE  a < b \/ (a > b /\ (sent'[i] = {a} \/ sent'[j] = {b}))
    BY DEF GrouperOrder
  <2>1. i \in DOMAIN sent BY <1>2
  <2>2. CASE j \in DOMAIN sent BY <1>2, <2>1, <2>2 DEF GrouperOrder
  <2>3. CASE j = last
    <3>1. b = m /\ a \in sent[i] /\ a # m BY <1>1, <1>2, <2>1, <2>3 DEF MessageInOnePlace, WasSent
    <3> QED BY <1>1, <1>2, <2>1, <2>3, <3>1
  <2> QED BY <1>2, <2>2, <2>3
<1> QED BY <1>3, <1>4, <1>5, <1>6

\* The loop sends a group: it may leave.
LEMMA GroupSentInOrder ==
  ASSUME GrouperData, GrouperInv, Sent
  PROVE  GrouperInv'
<1> USE DEF GrouperInv
<1>1. CASE toDispatch = {}
  BY <1>1 DEF Sent, WereOffered, MessageInOnePlace, InTurn, MayLeave, WasSent, GrouperOrder
<1>2. CASE toDispatch # {}
  <2> DEFINE last == Len(sent) + 1
  <2>1. /\ sent' = Append(sent, toDispatch) /\ toDispatch' = {}
        /\ UNCHANGED <<cached, message, immediate, offered>>
    BY <1>2, Zenon DEF Sent
  <2>2. /\ offered \in Nat /\ \A i \in DOMAIN sent : sent[i] \subseteq Nat
        /\ toDispatch \subseteq Nat /\ message \subseteq Nat
        /\ \A t \in Senders : immediate[t] \in Nat
    BY DEF GrouperData
  <2>3. /\ DOMAIN sent' = DOMAIN sent \cup {last}
        /\ sent'[last] = toDispatch /\ \A i \in DOMAIN sent : sent'[i] = sent[i] /\ i < last
        /\ DOMAIN sent \subseteq Nat /\ last \in Nat
    BY <2>1, OneMoreGroup DEF GrouperData
  <2>4. WereOffered' BY <2>2, <2>1, <2>3 DEF WereOffered
  <2>5. MessageInOnePlace' BY <2>2, <2>1, <2>3 DEF MessageInOnePlace, WasSent
  <2>6. InTurn'
    <3>1. MayLeave(toDispatch)'
      BY <2>1 DEF MayLeave
    <3>2. ASSUME cached, NEW i \in DOMAIN sent', NEW m \in sent'[i], NEW n \in message
          PROVE  m < n \/ (m > n /\ sent'[i] = {m})
      <4>1. CASE i \in DOMAIN sent BY <2>3, <3>2, <4>1 DEF InTurn, MayLeave
      <4>2. CASE i = last BY <2>3, <3>2, <4>2 DEF InTurn
      <4> QED BY <2>3, <4>1, <4>2
    <3> QED BY <2>1, <3>1, <3>2 DEF InTurn, MayLeave
  <2>7. GrouperOrder'
    <3> SUFFICES ASSUME NEW i \in DOMAIN sent', NEW j \in DOMAIN sent', i < j,
                        NEW a \in sent'[i], NEW b \in sent'[j]
                 PROVE  a < b \/ (a > b /\ (sent'[i] = {a} \/ sent'[j] = {b}))
      BY DEF GrouperOrder
    <3>1. i \in DOMAIN sent BY <2>3
    <3>2. CASE j \in DOMAIN sent BY <2>3, <3>1, <3>2 DEF GrouperOrder
    <3>3. CASE j = last BY <2>2, <2>1, <2>3, <3>1, <3>3 DEF InTurn, MayLeave
    <3> QED BY <2>3, <3>2, <3>3
  <2> QED BY <2>4, <2>5, <2>6, <2>7
<1> QED BY <1>1, <1>2

\* The other steps move what waits to what is being sent, or touch no message at all.
LEMMA OthersInOrder ==
  ASSUME GrouperData, GrouperInv,
         SendGroup \/ Top \/ Cooled \/ StopGrouper \/ StartGrouper \/ UNCHANGED gVars
  PROVE  GrouperInv'
<1> USE DEF GrouperInv
<1>1. CASE SendGroup /\ phase = "Warming" /\ grouping
  <2>1. /\ cached' = FALSE /\ toDispatch' = (IF cached THEN message ELSE {})
        /\ UNCHANGED <<message, immediate, offered, sent>>
    BY <1>1 DEF SendGroup, CachedAfter
  <2>2. MayLeave(toDispatch)'
    BY <2>1 DEF InTurn, MayLeave
  <2> QED BY <2>1, <2>2 DEF WereOffered, MessageInOnePlace, InTurn, WasSent, GrouperOrder
<1>2. CASE UNCHANGED <<cached, message, toDispatch, immediate, offered, sent>>
  BY <1>2 DEF WereOffered, MessageInOnePlace, InTurn, MayLeave, WasSent, GrouperOrder
<1> QED BY <1>1, <1>2 DEF SendGroup, Top, Cooled, StopGrouper, StartGrouper, gVars

\* A message is sent once, and groups leave in the order of their messages; only a message that
\* cannot be grouped overtakes, alone (GrouperOrder).
THEOREM GroupsLeaveInOrder ==
  ASSUME GrouperBounds
  PROVE  GrouperSpec => []GrouperOrder
<1>1. GrouperInit => GrouperInv
  <2> HAVE GrouperInit
  <2>1. /\ ~cached /\ toDispatch = {} /\ immediate = [s \in Senders |-> 0]
        /\ offered = 0 /\ sent = <<>>
    BY Zenon DEF GrouperInit
  <2> QED
    BY <2>1 DEF GrouperInv, WereOffered, MessageInOnePlace, InTurn, MayLeave, WasSent, GrouperOrder
<1>2. GrouperTypeOK /\ GrouperInv /\ [GrouperNext]_gVars => GrouperInv'
  BY GrouperTypeParts, AddedInOrder, SentAloneInOrder, GroupSentInOrder, OthersInOrder
     DEF GrouperNext, GrouperLoop
<1>3. GrouperInv => GrouperOrder
  BY DEF GrouperInv
<1> QED BY <1>1, <1>2, <1>3, GrouperTypeCorrect, PTL DEF GrouperSpec

-----------------------------------------------------------------------------
(* No message is lost. *)

\* The loop is where its state says, whatever the callers do.
LEMMA LoopStaysInOrder ==
  ASSUME GrouperData, LoopInOrder, [GrouperNext]_gVars
  PROVE  LoopInOrder'
<1> USE DEF LoopInOrder
<1>1. ASSUME NEW s \in Senders, AddMessage(s) PROVE LoopInOrder'
  BY <1>1 DEF AddMessage, AddGroupable, AddImmediate
<1>2. ASSUME NEW s \in Senders, DispatchImmediate(s) PROVE LoopInOrder'
  BY <1>2 DEF DispatchImmediate
<1>3. CASE Top BY <1>3 DEF Top
<1>4. CASE SendGroup BY <1>4 DEF SendGroup, CachedAfter
<1>5. CASE Sent BY <1>5 DEF Sent
<1>6. CASE Cooled BY <1>6 DEF Cooled, NextPhase
<1>7. CASE StopGrouper
  <2>1. stops' # 0 BY <1>7 DEF StopGrouper, GrouperData
  <2>2. toDispatch' # {} => loop' = "sending" BY <1>7 DEF StopGrouper
  <2> QED BY <2>1, <2>2
<1>8. CASE StartGrouper BY <1>8 DEF StartGrouper
<1>9. CASE UNCHANGED gVars BY <1>9 DEF gVars
<1> QED BY <1>1, <1>2, <1>3, <1>4, <1>5, <1>6, <1>7, <1>8, <1>9 DEF GrouperNext, GrouperLoop

\* A message that was on its way is still, unless the grouper was stopped.
LEMMA StaysOnItsWay ==
  ASSUME GrouperData, LoopInOrder, NothingLost, [GrouperNext]_gVars
  PROVE  NothingLost'
<1> SUFFICES ASSUME stops' = 0, NEW m \in 1 .. offered' PROVE OnItsWay(m)'
  BY DEF NothingLost
<1>1. ASSUME NEW s \in Senders, AddMessage(s) PROVE OnItsWay(m)'
  <2>1. /\ grouping /\ stops = 0 /\ offered' = offered + 1 /\ offered \in Nat
        /\ immediate[s] = 0 /\ UNCHANGED <<toDispatch, sent>>
    BY <1>1 DEF AddMessage, LoopInOrder, GrouperData
  <2>2. m = offered' \/ (m # offered' /\ OnItsWay(m) /\ m # 0)
    BY <2>1 DEF NothingLost
  <2>3. CASE AddGroupable(offered')
    <3>1. /\ cached' /\ UNCHANGED immediate /\ offered' \in message'
          /\ cached => message \subseteq message'
      BY <2>1, <2>3 DEF AddGroupable, Merged, LoopInOrder
    <3> QED BY <2>1, <2>2, <3>1 DEF OnItsWay, WasSent
  <2>4. CASE AddImmediate(s, offered')
    <3>1. /\ \A t \in Senders : immediate'[t] = IF t = s THEN offered' ELSE immediate[t]
          /\ UNCHANGED <<message, cached>>
      BY <2>4 DEF AddImmediate, GrouperData
    <3> QED BY <2>1, <2>2, <3>1 DEF OnItsWay, WasSent
  <2> QED BY <1>1, <2>1, <2>3, <2>4, Zenon DEF AddMessage
<1>2. ASSUME NEW s \in Senders, DispatchImmediate(s) PROVE OnItsWay(m)'
  <2>1. /\ stops = 0 /\ m \in 1 .. offered /\ immediate[s] # 0
        /\ sent' = Append(sent, {immediate[s]})
        /\ UNCHANGED <<cached, message, toDispatch>>
        /\ \A t \in Senders : immediate'[t] = IF t = s THEN 0 ELSE immediate[t]
        /\ {immediate[s]} \in SUBSET (1 .. MaxMessages)
    BY <1>2 DEF DispatchImmediate, GrouperData
  <2>2. /\ DOMAIN sent' = DOMAIN sent \cup {Len(sent) + 1}
        /\ sent'[Len(sent) + 1] = {immediate[s]}
        /\ \A i \in DOMAIN sent : sent'[i] = sent[i]
    BY <2>1, OneMoreGroup DEF GrouperData
  <2> QED BY <2>1, <2>2 DEF NothingLost, OnItsWay, WasSent
<1>3. CASE SendGroup
  <2>1. stops = 0 /\ m \in 1 .. offered /\ toDispatch = {} /\ UNCHANGED <<immediate, sent>>
    BY <1>3 DEF SendGroup, LoopInOrder
  <2>2. \/ UNCHANGED <<cached, message, toDispatch>>
        \/ cached' = FALSE /\ toDispatch' = (IF cached THEN message ELSE {})
    BY <1>3 DEF SendGroup, CachedAfter
  <2> QED BY <2>1, <2>2 DEF NothingLost, OnItsWay, WasSent
<1>4. CASE Sent
  <2>1. stops = 0 /\ m \in 1 .. offered /\ UNCHANGED <<immediate, cached, message>>
    BY <1>4, Zenon DEF Sent
  <2>2. CASE toDispatch = {}
    BY <1>4, <2>1, <2>2 DEF Sent, NothingLost, OnItsWay, WasSent
  <2>3. CASE toDispatch # {}
    <3>1. sent' = Append(sent, toDispatch) BY <1>4, <2>3 DEF Sent
    <3>2. /\ DOMAIN sent' = DOMAIN sent \cup {Len(sent) + 1}
          /\ sent'[Len(sent) + 1] = toDispatch
          /\ \A i \in DOMAIN sent : sent'[i] = sent[i]
      BY <3>1, OneMoreGroup DEF GrouperData
    <3> QED BY <2>1, <3>2 DEF NothingLost, OnItsWay, WasSent
  <2> QED BY <2>2, <2>3
<1>5. CASE StopGrouper BY <1>5 DEF StopGrouper, GrouperData
<1>6. CASE UNCHANGED <<cached, message, toDispatch, immediate, offered, sent, stops>>
  BY <1>6 DEF NothingLost, OnItsWay, WasSent
<1> QED BY <1>1, <1>2, <1>3, <1>4, <1>5, <1>6
       DEF GrouperNext, GrouperLoop, Top, Cooled, StartGrouper, gVars

\* While nobody stops the grouper, every message that was offered was sent or is still held by
\* it or by its caller: no step drops one (the safety that GrouperSends rests on).
THEOREM NoMessageIsLost ==
  ASSUME GrouperBounds
  PROVE  GrouperSpec => []NothingLost
<1>1. GrouperInit => LoopInOrder /\ NothingLost
  BY DEF GrouperInit, LoopInOrder, NothingLost
<1>2. GrouperTypeOK /\ LoopInOrder /\ NothingLost /\ [GrouperNext]_gVars
      => (LoopInOrder /\ NothingLost)'
  BY LoopStaysInOrder, StaysOnItsWay, GrouperTypeParts
<1> QED BY <1>1, <1>2, GrouperTypeCorrect, PTL DEF GrouperSpec

-----------------------------------------------------------------------------
(* The task scheduler. *)

\* The number of tasks is a number.
TaskBound == MaxAdds \in Nat

-----------------------------------------------------------------------------
(* Types. *)

Threads == {"loop", "user"}
Statuses == {"New", "Active", "Inactive"}
MaybeTask == TaskObjects \cup {NoTask}

TaskFlags == revised \in BOOLEAN /\ ticking \in BOOLEAN /\ sleepsLong \in BOOLEAN
             /\ ranTask \in BOOLEAN
TaskTable == /\ tasks \in [TaskIDs -> MaybeTask] /\ activeTasks \in SUBSET TaskObjects
         /\ taskStatus \in [TaskObjects -> Statuses]
Runs == /\ runningTasks \in SUBSET TaskIDs /\ scheduled \in SUBSET TaskObjects
        /\ calling \in [Threads -> MaybeTask] /\ fetched \in MaybeTask
LoopRest == /\ loopAt \in {"snap", "round", "asleep", "off"} /\ due \in SUBSET TaskObjects
            /\ adds \in Nat /\ changes \in Nat /\ runs \in Nat

\* The types, apart.
LEMMA TaskTypeParts == TaskTypeOK <=> TaskFlags /\ TaskTable /\ Runs /\ LoopRest
BY Zenon DEF TaskTypeOK, TaskFlags, TaskTable, Runs, LoopRest, Threads, Statuses, MaybeTask

\* A task has an id and a number, and NoTask has none.
LEMMA TaskPairs ==
    /\ \A o \in TaskObjects : o[1] \in TaskIDs /\ o[2] \in 1 .. MaxAdds /\ o = <<o[1], o[2]>>
    /\ \A id \in TaskIDs, n \in 1 .. MaxAdds : <<id, n>> \in TaskObjects
    /\ NoTask \notin TaskObjects
BY DEF TaskObjects, NoTask

\* Every step keeps the Boolean variables Boolean.
LEMMA TaskFlagsNext == ASSUME TaskFlags, [TaskNext]_tVars PROVE TaskFlags'
<1> USE DEF TaskFlags, loopVars, Changed
<1>1. CASE AddTask \/ ChangeTask \/ StopTasks \/ BecomeDue \/ RunNow
  BY <1>1, Zenon DEF AddTask, ChangeTask, StopTasks, BecomeDue, RunNow
<1>2. CASE UserEnter
  BY <1>2, Zenon DEF UserEnter, Enter
<1>3. CASE UserLeave
  BY <1>3, Zenon DEF UserLeave, Leave
<1>4. CASE UserThrow
  BY <1>4, Zenon DEF UserThrow
<1>5. CASE Snapshot
  <2>1. (activeTasks = {}) \in BOOLEAN
    OBVIOUS
  <2> QED BY <1>5, <2>1, Zenon DEF Snapshot
<1>6. CASE LoopEnter
  BY <1>6, Zenon DEF LoopEnter, Enter
<1>7. CASE LoopLeave
  BY <1>7, Zenon DEF LoopLeave, Leave
<1>8. CASE EndRound
  <2>1. (revised /\ ~Sleepy) \in BOOLEAN
    OBVIOUS
  <2> QED BY <1>8, <2>1, Zenon DEF EndRound
<1>9. CASE WakeLoop
  BY <1>9, Zenon DEF WakeLoop
<1>10. CASE UNCHANGED tVars
  BY <1>10 DEF tVars
<1> QED BY <1>1, <1>2, <1>3, <1>4, <1>5, <1>6, <1>7, <1>8, <1>9, <1>10
        DEF TaskNext, TaskUser, TaskLoop

\* deactivateTask_ keeps the types of the list and the statuses.
LEMMA DeactivatedType ==
    ASSUME TaskTable, NEW id \in TaskIDs, Deactivated(id)
    PROVE  activeTasks' \in SUBSET TaskObjects /\ taskStatus' \in [TaskObjects -> Statuses]
<1>1. CASE tasks[id] = NoTask
  BY <1>1 DEF Deactivated, TaskTable
<1>2. CASE tasks[id] # NoTask
  <2>1. tasks[id] \in TaskObjects
    BY <1>2 DEF TaskTable, MaybeTask
  <2> QED BY <1>2, <2>1 DEF Deactivated, TaskTable, Statuses
<1> QED BY <1>1, <1>2

\* Whose code runs is the id of a task.
LEMMA LeaveTable ==
    ASSUME TaskTable, Runs, NEW t \in Threads, Leave(t)
    PROVE  /\ calling[t] \in TaskObjects /\ calling[t][1] \in TaskIDs
           /\ \/ UNCHANGED <<taskStatus, activeTasks>>
              \/ StillThere(calling[t]) /\ Deactivated(calling[t][1])
           /\ UNCHANGED tasks
<1>1. calling[t] \in TaskObjects
  BY DEF Leave, Runs, MaybeTask
<1> QED BY <1>1, TaskPairs, Zenon DEF Leave

LEMMA TableNext == ASSUME TaskBound, TaskTable, Runs, LoopRest, [TaskNext]_tVars PROVE TaskTable'
<1>1. CASE AddTask
  <2>1. PICK id \in TaskIDs : LET o == <<id, adds + 1>> IN
          /\ adds < MaxAdds
          /\ tasks' = [tasks EXCEPT ![id] = o]
          /\ taskStatus' = [taskStatus EXCEPT ![o] = "Active"]
          /\ activeTasks' = (activeTasks \ OfID(id)) \cup {o}
    BY <1>1, Zenon DEF AddTask
  <2> DEFINE o == <<id, adds + 1>>
  <2>2. o \in TaskObjects
    BY <2>1, TaskPairs DEF TaskBound, LoopRest
  <2> QED BY <2>1, <2>2 DEF TaskTable, MaybeTask, Statuses
<1>2. CASE ChangeTask
  <2>1. CASE \E id \in TaskIDs : RemoveTask(id)
    <3>1. PICK id \in TaskIDs : RemoveTask(id)
      BY <2>1
    <3>2. Deactivated(id) /\ tasks' = [tasks EXCEPT ![id] = NoTask]
      BY <3>1, Zenon DEF RemoveTask
    <3> QED BY <3>2, DeactivatedType DEF TaskTable, MaybeTask
  <2>2. CASE \E id \in TaskIDs : DeactivateTask(id)
    BY <2>2, DeactivatedType DEF DeactivateTask, TaskTable
  <2>3. CASE \E id \in TaskIDs : ActivateTask(id)
    <3>1. PICK id \in TaskIDs : ActivateTask(id)
      BY <2>3
    <3>2. CASE tasks[id] = NoTask
      BY <3>1, <3>2 DEF ActivateTask, TaskTable
    <3>3. CASE tasks[id] # NoTask
      <4>1. tasks[id] \in TaskObjects
        BY <3>3 DEF TaskTable, MaybeTask
      <4> QED BY <3>1, <3>3, <4>1 DEF ActivateTask, TaskTable, Statuses
    <3> QED BY <3>2, <3>3
  <2>4. CASE ClearTasks
    BY <2>4 DEF ClearTasks, TaskTable, MaybeTask, Statuses
  <2> QED BY <1>2, <2>1, <2>2, <2>3, <2>4, Zenon DEF ChangeTask
<1>3. CASE UserLeave \/ LoopLeave
  <2>1. PICK t \in Threads : Leave(t)
    BY <1>3, Zenon DEF UserLeave, LoopLeave, Threads
  <2>2. Leave(t)
    BY <2>1
  <2> QED BY <2>2, LeaveTable, DeactivatedType DEF TaskTable
<1>4. CASE UNCHANGED <<tasks, activeTasks, taskStatus>>
  BY <1>4 DEF TaskTable
<1>5. ASSUME StopTasks \/ BecomeDue \/ RunNow \/ UserEnter \/ UserThrow \/ Snapshot \/ LoopEnter
             \/ EndRound \/ WakeLoop
      PROVE  UNCHANGED <<tasks, activeTasks, taskStatus>>
  BY <1>5, Zenon DEF StopTasks, BecomeDue, RunNow, UserEnter, UserThrow, Snapshot, LoopEnter,
     EndRound, WakeLoop
<1>6. UNCHANGED tVars => UNCHANGED <<tasks, activeTasks, taskStatus>>
  BY DEF tVars
<1> QED BY <1>1, <1>2, <1>3, <1>4, <1>5, <1>6, Zenon DEF TaskNext, TaskUser, TaskLoop

\* A thread that begins a task's code runs what it was given.
LEMMA EnterRuns ==
    ASSUME Runs, NEW t \in Threads, NEW o \in TaskObjects, Enter(t, o)
    PROVE  runningTasks' \in SUBSET TaskIDs /\ calling' \in [Threads -> MaybeTask]
BY TaskPairs DEF Runs, Enter, MaybeTask

LEMMA RunsNext == ASSUME TaskTable, Runs, LoopRest, [TaskNext]_tVars PROVE Runs'
<1>1. CASE RunNow
  BY <1>1 DEF RunNow, Runs, TaskTable, loopVars
<1>2. CASE UserEnter
  <2>1. fetched \in TaskObjects /\ "user" \in Threads
    BY <1>2 DEF UserEnter, Runs, MaybeTask, Threads
  <2>2. UNCHANGED scheduled /\ fetched' = NoTask
    BY <1>2, Zenon DEF UserEnter, loopVars
  <2>3. \/ Enter("user", fetched)
        \/ UNCHANGED <<runningTasks, calling>>
    BY <1>2, Zenon DEF UserEnter
  <2> QED BY <2>1, <2>2, <2>3, EnterRuns DEF Runs, MaybeTask
<1>3. CASE LoopEnter
  <2>1. PICK o \in scheduled :
          /\ scheduled' = scheduled \ {o} /\ UNCHANGED fetched
          /\ \/ Enter("loop", o)
             \/ UNCHANGED <<runningTasks, calling>>
    BY <1>3, Zenon DEF LoopEnter
  <2>2. o \in TaskObjects /\ "loop" \in Threads
    BY DEF Runs, Threads
  <2> QED BY <2>1, <2>2, EnterRuns DEF Runs
<1>4. CASE UserLeave \/ LoopLeave
  <2>1. PICK t \in Threads : Leave(t)
    BY <1>4, Zenon DEF UserLeave, LoopLeave, Threads
  <2> QED BY <2>1 DEF Leave, Runs, MaybeTask
<1>5. CASE UserThrow
  BY <1>5 DEF UserThrow, Runs, MaybeTask, Threads, loopVars
<1>6. CASE Snapshot
  <2>1. scheduled' \in {scheduled, activeTasks \cap due}
    BY <1>6, Zenon DEF Snapshot
  <2>2. UNCHANGED <<runningTasks, calling, fetched>>
    BY <1>6, Zenon DEF Snapshot
  <2> QED BY <2>1, <2>2 DEF Runs, LoopRest, TaskTable
<1>7. CASE UNCHANGED <<runningTasks, scheduled, calling, fetched>>
  BY <1>7 DEF Runs
<1>8. ASSUME AddTask \/ ChangeTask \/ StopTasks \/ BecomeDue \/ EndRound \/ WakeLoop
      PROVE  UNCHANGED <<runningTasks, scheduled, calling, fetched>>
  BY <1>8, Zenon DEF AddTask, ChangeTask, StopTasks, BecomeDue, EndRound, WakeLoop, loopVars
<1>9. UNCHANGED tVars => UNCHANGED <<runningTasks, scheduled, calling, fetched>>
  BY DEF tVars
<1> QED BY <1>1, <1>2, <1>3, <1>4, <1>5, <1>6, <1>7, <1>8, <1>9, Zenon
        DEF TaskNext, TaskUser, TaskLoop

LEMMA RestNext == ASSUME TaskTable, Runs, LoopRest, [TaskNext]_tVars PROVE LoopRest'
<1> USE DEF LoopRest
<1>1. CASE AddTask \/ ChangeTask \/ StopTasks \/ RunNow
  <2>1. UNCHANGED <<loopAt, due>>
    BY <1>1, Zenon DEF AddTask, ChangeTask, StopTasks, RunNow, loopVars
  <2>2. adds' \in {adds, adds + 1} /\ changes' \in {changes, changes + 1}
        /\ runs' \in {runs, runs + 1}
    BY <1>1, Zenon DEF AddTask, ChangeTask, StopTasks, RunNow, counters
  <2> QED BY <2>1, <2>2
<1>2. CASE BecomeDue
  BY <1>2 DEF BecomeDue, loopVars, counters
<1>3. CASE UserLeave \/ LoopLeave
  <2>1. PICK t \in Threads : due' = due \ {calling[t]} /\ UNCHANGED <<loopAt, counters>>
    BY <1>3, Zenon DEF UserLeave, LoopLeave, Leave, Threads
  <2> QED BY <2>1 DEF counters
<1>4. CASE UserEnter \/ UserThrow \/ LoopEnter
  <2>1. UNCHANGED <<loopAt, due, counters>>
    BY <1>4, Zenon DEF UserEnter, UserThrow, LoopEnter, loopVars
  <2> QED BY <2>1 DEF counters
<1>5. CASE Snapshot \/ EndRound \/ WakeLoop
  <2>1. UNCHANGED <<due, counters>> /\ loopAt' \in {"snap", "round", "asleep", "off"}
    BY <1>5, Zenon DEF Snapshot, EndRound, WakeLoop
  <2> QED BY <2>1 DEF counters
<1>6. CASE UNCHANGED tVars
  BY <1>6 DEF tVars
<1> QED BY <1>1, <1>2, <1>3, <1>4, <1>5, <1>6, Zenon DEF TaskNext, TaskUser, TaskLoop

\* The map holds tasks, the list and the threads' tasks are tasks, and the counters count.
THEOREM TaskTypeCorrect == ASSUME TaskBound PROVE TaskSpec => []TaskTypeOK
<1>1. TaskInit => TaskFlags
  BY Zenon DEF TaskInit, TaskFlags
<1>2. TaskInit => TaskTable
  BY DEF TaskInit, TaskTable, Statuses, MaybeTask
<1>3. TaskInit => Runs /\ LoopRest
  <2> HAVE TaskInit
  <2>1. /\ runningTasks = {} /\ scheduled = {} /\ fetched = NoTask /\ loopAt = "snap"
        /\ calling = [t \in Threads |-> NoTask] /\ due = {} /\ adds = 0 /\ changes = 0
        /\ runs = 0
    BY Zenon DEF TaskInit, Threads
  <2> QED BY <2>1 DEF Runs, LoopRest, MaybeTask
<1> QED
  BY <1>1, <1>2, <1>3, TaskFlagsNext, TableNext, RunsNext, RestNext, TaskTypeParts, PTL
     DEF TaskSpec

-----------------------------------------------------------------------------
(* The list of active tasks and the map: a task in the map is its id's.      *)

Keyed == \A id \in TaskIDs : tasks[id] # NoTask => tasks[id][1] = id

\* After deactivateTask_ the id is not in the list, and the rest is what it was.
LEMMA DeactivatedLists ==
    ASSUME TaskTable, Keyed, TaskListsAgree, NEW id \in TaskIDs, Deactivated(id)
    PROVE  /\ activeTasks' = activeTasks \ {o \in TaskObjects : o[1] = id}
           /\ \A o \in TaskObjects : o[1] # id => taskStatus'[o] = taskStatus[o]
           /\ tasks[id] # NoTask => taskStatus'[tasks[id]] = "Inactive"
<1>1. activeTasks' = activeTasks \ {o \in TaskObjects : o[1] = id}
  BY DEF Deactivated, OfID, TaskTable
<1>2. CASE tasks[id] = NoTask
  BY <1>1, <1>2 DEF Deactivated
<1>3. CASE tasks[id] # NoTask
  <2>1. tasks[id] \in TaskObjects /\ tasks[id][1] = id
    BY <1>3 DEF TaskTable, MaybeTask, Keyed
  <2>2. taskStatus' = [taskStatus EXCEPT ![tasks[id]] = "Inactive"]
    BY <1>3, Zenon DEF Deactivated
  <2> QED BY <1>1, <2>1, <2>2 DEF TaskTable
<1> QED BY <1>2, <1>3

\* A list without the id and a map that has no active task for it agree.
LEMMA DeactivatedAgree ==
    ASSUME TaskTable, Keyed, TaskListsAgree, NEW id \in TaskIDs, Deactivated(id),
           tasks' = tasks \/ tasks' = [tasks EXCEPT ![id] = NoTask]
    PROVE  Keyed' /\ TaskListsAgree'
<1>1. Keyed'
  BY DEF Keyed, TaskTable
<1>2. ASSUME NEW o \in TaskObjects
      PROVE  o \in activeTasks' <=> tasks'[o[1]] = o /\ taskStatus'[o] = "Active"
  <2>1. o[1] \in TaskIDs /\ o # NoTask
    BY TaskPairs
  <2>2. CASE o[1] # id
    <3>1. tasks'[o[1]] = tasks[o[1]]
      BY <2>1, <2>2 DEF TaskTable
    <3> QED BY <2>1, <2>2, <3>1, DeactivatedLists DEF TaskListsAgree
  <2>3. CASE o[1] = id
    <3>1. o \notin activeTasks'
      BY <2>3, DeactivatedLists
    <3>2. tasks'[id] = o => tasks[id] = o
      BY <2>1 DEF TaskTable
    <3> QED BY <2>1, <2>3, <3>1, <3>2, DeactivatedLists
  <2> QED BY <2>2, <2>3
<1> QED BY <1>1, <1>2 DEF TaskListsAgree

LEMMA ListsNext ==
    ASSUME TaskBound, TaskTable, Runs, LoopRest, Keyed, TaskListsAgree, [TaskNext]_tVars
    PROVE  Keyed' /\ TaskListsAgree'
<1>1. CASE AddTask
  <2>1. PICK id \in TaskIDs : LET o == <<id, adds + 1>> IN
          /\ adds < MaxAdds
          /\ tasks' = [tasks EXCEPT ![id] = o]
          /\ taskStatus' = [taskStatus EXCEPT ![o] = "Active"]
          /\ activeTasks' = (activeTasks \ OfID(id)) \cup {o}
    BY <1>1, Zenon DEF AddTask
  <2> DEFINE new == <<id, adds + 1>>
  <2>2. new \in TaskObjects /\ new[1] = id
    BY <2>1, TaskPairs DEF TaskBound, LoopRest
  <2>3. /\ tasks' = [tasks EXCEPT ![id] = new]
        /\ taskStatus' = [taskStatus EXCEPT ![new] = "Active"]
        /\ activeTasks' = (activeTasks \ OfID(id)) \cup {new}
    BY <2>1
  <2> HIDE DEF new
  <2>4. Keyed'
    BY <2>2, <2>3 DEF Keyed, TaskTable
  <2>5. ASSUME NEW o \in TaskObjects
        PROVE  o \in activeTasks' <=> tasks'[o[1]] = o /\ taskStatus'[o] = "Active"
    <3>1. o[1] \in TaskIDs
      BY TaskPairs
    <3>2. CASE o = new
      BY <2>2, <2>3, <3>1, <3>2 DEF TaskTable
    <3>3. CASE o # new /\ o[1] = id
      BY <2>2, <2>3, <3>1, <3>3 DEF TaskTable, OfID
    <3>4. CASE o[1] # id
      <4>1. o # new /\ tasks'[o[1]] = tasks[o[1]] /\ taskStatus'[o] = taskStatus[o]
        BY <2>2, <2>3, <3>1, <3>4 DEF TaskTable
      <4>2. o \in activeTasks' <=> o \in activeTasks
        BY <2>3, <3>4, <4>1 DEF OfID
      <4> QED BY <4>1, <4>2 DEF TaskListsAgree
    <3> QED BY <3>2, <3>3, <3>4
  <2> QED BY <2>4, <2>5 DEF TaskListsAgree
<1>2. CASE ChangeTask
  <2>1. CASE \E id \in TaskIDs : RemoveTask(id) \/ DeactivateTask(id)
    <3>1. PICK id \in TaskIDs : RemoveTask(id) \/ DeactivateTask(id)
      BY <2>1
    <3>2. Deactivated(id) /\ (tasks' = tasks \/ tasks' = [tasks EXCEPT ![id] = NoTask])
      BY <3>1, Zenon DEF RemoveTask, DeactivateTask
    <3> QED BY <3>2, DeactivatedAgree
  <2>2. CASE \E id \in TaskIDs : ActivateTask(id)
    <3>1. PICK id \in TaskIDs : ActivateTask(id)
      BY <2>2
    <3>2. UNCHANGED tasks
      BY <3>1, Zenon DEF ActivateTask
    <3>3. CASE tasks[id] = NoTask
      <4>1. activeTasks' = activeTasks \ OfID(id) /\ UNCHANGED taskStatus
        BY <3>1, <3>3, Zenon DEF ActivateTask
      <4>2. OfID(id) = {}
        BY <3>3, TaskPairs DEF OfID, TaskListsAgree, TaskTable
      <4> QED BY <3>2, <4>1, <4>2 DEF Keyed, TaskListsAgree
    <3>4. CASE tasks[id] # NoTask
      <4> DEFINE new == tasks[id]
      <4>1. new \in TaskObjects /\ new[1] = id
        BY <3>4 DEF TaskTable, MaybeTask, Keyed
      <4>2. /\ taskStatus' = [taskStatus EXCEPT ![new] = "Active"]
            /\ activeTasks' = IF OfID(id) = {} THEN activeTasks \cup {new} ELSE activeTasks
        BY <3>1, <3>4, Zenon DEF ActivateTask
      <4>3. ASSUME NEW o \in TaskObjects, o \in activeTasks, o[1] = id PROVE o = new
        BY <4>3 DEF TaskListsAgree
      <4>4. activeTasks' = activeTasks \cup {new}
        <5>1. CASE OfID(id) = {}
          BY <4>2, <5>1
        <5>2. CASE OfID(id) # {}
          <6>1. PICK o \in TaskObjects : o \in activeTasks /\ o[1] = id
            BY <5>2 DEF OfID, TaskTable
          <6> QED BY <4>2, <4>3, <5>2, <6>1
        <5> QED BY <5>1, <5>2
      <4>5. ASSUME NEW o \in TaskObjects
            PROVE  o \in activeTasks' <=> tasks'[o[1]] = o /\ taskStatus'[o] = "Active"
        <5>1. CASE o = new
          BY <3>2, <4>1, <4>2, <4>4, <5>1 DEF TaskTable
        <5>2. CASE o # new
          BY <3>2, <4>1, <4>2, <4>4, <5>2 DEF TaskTable, TaskListsAgree
        <5> QED BY <5>1, <5>2
      <4> QED BY <3>2, <4>5 DEF Keyed, TaskListsAgree
    <3> QED BY <3>3, <3>4
  <2>3. CASE ClearTasks
    <3>1. tasks' = [id \in TaskIDs |-> NoTask] /\ activeTasks' = {}
      BY <2>3, Zenon DEF ClearTasks
    <3> QED BY <3>1, TaskPairs DEF Keyed, TaskListsAgree
  <2> QED BY <1>2, <2>1, <2>2, <2>3, Zenon DEF ChangeTask
<1>3. CASE UserLeave \/ LoopLeave
  <2>1. PICK t \in Threads : Leave(t)
    BY <1>3, Zenon DEF UserLeave, LoopLeave, Threads
  <2>2. /\ calling[t][1] \in TaskIDs /\ UNCHANGED tasks
        /\ UNCHANGED <<taskStatus, activeTasks>> \/ Deactivated(calling[t][1])
    BY <2>1, LeaveTable
  <2>3. CASE UNCHANGED <<taskStatus, activeTasks>>
    BY <2>2, <2>3 DEF Keyed, TaskListsAgree
  <2>4. CASE Deactivated(calling[t][1])
    BY <2>2, <2>4, DeactivatedAgree
  <2> QED BY <2>2, <2>3, <2>4
<1>4. CASE UNCHANGED <<tasks, activeTasks, taskStatus>>
  BY <1>4 DEF Keyed, TaskListsAgree
<1>5. ASSUME StopTasks \/ BecomeDue \/ RunNow \/ UserEnter \/ UserThrow \/ Snapshot \/ LoopEnter
             \/ EndRound \/ WakeLoop
      PROVE  UNCHANGED <<tasks, activeTasks, taskStatus>>
  BY <1>5, Zenon DEF StopTasks, BecomeDue, RunNow, UserEnter, UserThrow, Snapshot, LoopEnter,
     EndRound, WakeLoop
<1>6. UNCHANGED tVars => UNCHANGED <<tasks, activeTasks, taskStatus>>
  BY DEF tVars
<1> QED BY <1>1, <1>2, <1>3, <1>4, <1>5, <1>6, Zenon DEF TaskNext, TaskUser, TaskLoop

\* The invariant of the list, with the types it needs.
ListInv == TaskTable /\ Runs /\ LoopRest /\ Keyed /\ TaskListsAgree

LEMMA ListInvHolds == ASSUME TaskBound PROVE TaskSpec => []ListInv
<1>1. TaskInit => Keyed /\ TaskListsAgree
  BY TaskPairs DEF TaskInit, Keyed, TaskListsAgree
<1>2. TaskTypeOK => TaskTable /\ Runs /\ LoopRest
  BY TaskTypeParts
<1>3. ListInv <=> TaskTable /\ Runs /\ LoopRest /\ Keyed /\ TaskListsAgree
  BY DEF ListInv
<1> QED BY <1>1, <1>2, <1>3, TaskTypeCorrect, ListsNext, PTL DEF TaskSpec

\* Through every addition, replacement, removal, change and end of a run a task is in the
\* list the loop looks at exactly if it is its id's and active.
THEOREM TaskListsMatch == ASSUME TaskBound PROVE TaskSpec => []TaskListsAgree
BY ListInvHolds, PTL DEF ListInv

-----------------------------------------------------------------------------
(* The end of a run. *)

\* A step that takes a task out of the list, and is neither an addition nor a change by a
\* client, is the end of a run; it finds its own task in the map, and no other in the list.
LEMMA DroppedRan ==
    ASSUME ListInv, [TaskNext]_tVars, adds' = adds, changes' = changes,
           NEW o \in activeTasks \ activeTasks'
    PROVE  o \in {calling["loop"], calling["user"]}
<1> USE DEF ListInv
<1>1. CASE UserLeave \/ LoopLeave
  <2>1. PICK t \in Threads : Leave(t)
    BY <1>1, Zenon DEF UserLeave, LoopLeave, Threads
  <2>2. StillThere(calling[t]) /\ Deactivated(calling[t][1]) /\ calling[t][1] \in TaskIDs
    BY <2>1, LeaveTable, Zenon
  <2>3. o \in TaskObjects /\ o[1] = calling[t][1]
    BY <2>2, DeactivatedLists DEF TaskTable
  <2>4. o = calling[t]
    BY <2>2, <2>3 DEF StillThere, TaskListsAgree
  <2> QED BY <2>4 DEF Threads
<1>2. ~AddTask /\ ~ChangeTask
  <2>1. AddTask => adds' = adds + 1
    BY Zenon DEF AddTask
  <2>2. ChangeTask => changes' = changes + 1
    BY Zenon DEF ChangeTask
  <2> QED BY <2>1, <2>2 DEF LoopRest
<1>3. ASSUME StopTasks \/ BecomeDue \/ RunNow \/ UserEnter \/ UserThrow \/ Snapshot \/ LoopEnter
             \/ EndRound \/ WakeLoop \/ UNCHANGED tVars
      PROVE  activeTasks' = activeTasks
  BY <1>3, Zenon DEF StopTasks, BecomeDue, RunNow, UserEnter, UserThrow, Snapshot, LoopEnter,
     EndRound, WakeLoop, tVars
<1> QED BY <1>1, <1>2, <1>3 DEF TaskNext, TaskUser, TaskLoop

\* A task that does not repeat takes itself out of the list at the end of its run, and never
\* the replacement that was added while it ran.
THEOREM TaskReplacementLives == ASSUME TaskBound PROVE TaskSpec => TaskReplacementStays
<1>1. ListInv /\ [TaskNext]_tVars =>
          [\A o \in activeTasks \ activeTasks' :
              adds' = adds /\ changes' = changes => o \in {calling["loop"], calling["user"]}]_tVars
  BY DroppedRan
<1> QED BY <1>1, ListInvHolds, PTL DEF TaskSpec, TaskReplacementStays

-----------------------------------------------------------------------------
(* An id is taken while the code of one of its tasks runs: runNow, which has looked its     *)
(* task up, is in no code.                                                                  *)

UserFetches == fetched # NoTask => calling["user"] = NoTask
Called == {t \in Threads : calling[t] # NoTask}
TakenIDs == runningTasks = {calling[t][1] : t \in Called}
OneEach == \A t, u \in Called : t # u => calling[t][1] # calling[u][1]

AloneInv == UserFetches /\ TakenIDs /\ OneEach

LEMMA AloneMeans == AloneInv => TaskRunsAlone
BY DEF AloneInv, TakenIDs, OneEach, Called, Threads, TaskRunsAlone

\* A thread that begins takes an id that is free.
LEMMA EnterAlone ==
    ASSUME Runs, TakenIDs, OneEach, NEW t \in Threads, NEW o \in TaskObjects,
           calling[t] = NoTask, o[1] \notin runningTasks, Enter(t, o)
    PROVE  TakenIDs' /\ OneEach'
<1>1. calling' = [calling EXCEPT ![t] = o] /\ runningTasks' = runningTasks \cup {o[1]}
  BY DEF Enter
<1>2. o # NoTask /\ Called' = Called \cup {t} /\ t \notin Called
  BY <1>1, TaskPairs DEF Called, Runs
<1>3. \A u \in Called : calling'[u] = calling[u]
  BY <1>1, <1>2 DEF Called, Runs
<1>4. calling'[t] = o
  BY <1>1 DEF Runs
<1>5. {calling'[u][1] : u \in Called'} = {calling[u][1] : u \in Called} \cup {o[1]}
  BY <1>2, <1>3, <1>4
<1>6. TakenIDs'
  BY <1>1, <1>5 DEF TakenIDs
<1>7. \A u \in Called : calling[u][1] # o[1]
  BY DEF TakenIDs
<1> QED BY <1>2, <1>3, <1>4, <1>6, <1>7 DEF OneEach

\* A thread that ends gives its id, which no other one has, back.
LEMMA LeaveAlone ==
    ASSUME Runs, TakenIDs, OneEach, NEW t \in Called,
           calling' = [calling EXCEPT ![t] = NoTask],
           runningTasks' = runningTasks \ {calling[t][1]}
    PROVE  TakenIDs' /\ OneEach'
<1>1. Called' = Called \ {t} /\ \A u \in Called' : calling'[u] = calling[u]
  BY DEF Called, Runs
<1>2. {calling[u][1] : u \in Called \ {t}} = {calling[u][1] : u \in Called} \ {calling[t][1]}
  BY DEF OneEach
<1>3. {calling'[u][1] : u \in Called'} = {calling[u][1] : u \in Called \ {t}}
  BY <1>1
<1> QED BY <1>1, <1>2, <1>3 DEF TakenIDs, OneEach

LEMMA AloneNext ==
    ASSUME ListInv, AloneInv, [TaskNext]_tVars PROVE AloneInv'
<1> USE DEF ListInv, AloneInv
<1>1. CASE UserEnter
  <2>1. /\ fetched \in TaskObjects /\ fetched' = NoTask
        /\ "user" \in Threads /\ calling["user"] = NoTask
    BY <1>1 DEF UserEnter, Runs, MaybeTask, Threads, UserFetches
  <2>2. \/ MayRun(fetched, FALSE) /\ Enter("user", fetched)
        \/ UNCHANGED <<runningTasks, calling>>
    BY <1>1, Zenon DEF UserEnter
  <2>3. MayRun(fetched, FALSE) => fetched[1] \notin runningTasks
    BY DEF MayRun
  <2>4. TakenIDs' /\ OneEach'
    BY <2>1, <2>2, <2>3, EnterAlone DEF TakenIDs, OneEach, Called
  <2> QED BY <2>1, <2>4 DEF UserFetches
<1>2. CASE LoopEnter
  <2>1. PICK o \in scheduled :
          /\ calling["loop"] = NoTask
          /\ \/ MayRun(o, TRUE) /\ Enter("loop", o)
             \/ UNCHANGED <<runningTasks, calling>>
    BY <1>2, Zenon DEF LoopEnter
  <2>2. o \in TaskObjects /\ "loop" \in Threads /\ (MayRun(o, TRUE) => o[1] \notin runningTasks)
    BY DEF Runs, Threads, MayRun
  <2>3. TakenIDs' /\ OneEach'
    BY <2>1, <2>2, EnterAlone DEF TakenIDs, OneEach, Called
  <2>4. UNCHANGED fetched /\ calling'["user"] = calling["user"]
    BY <1>2, <2>1 DEF LoopEnter, Enter, Runs, Threads
  <2> QED BY <2>3, <2>4 DEF UserFetches
<1>3. CASE UserLeave \/ LoopLeave
  <2>1. PICK t \in Threads : Leave(t)
    BY <1>3, Zenon DEF UserLeave, LoopLeave, Threads
  <2>2. /\ t \in Called /\ calling' = [calling EXCEPT ![t] = NoTask]
        /\ runningTasks' = runningTasks \ {calling[t][1]} /\ fetched' = fetched
    BY <2>1 DEF Leave, Called
  <2> QED BY <2>2, LeaveAlone DEF UserFetches, Runs, Threads
<1>4. CASE UserThrow
  <2>1. /\ "user" \in Called /\ calling' = [calling EXCEPT !["user"] = NoTask]
        /\ runningTasks' = runningTasks \ {calling["user"][1]} /\ fetched' = fetched
    BY <1>4 DEF UserThrow, Called, Threads
  <2> QED BY <2>1, LeaveAlone DEF UserFetches, Runs, Threads
<1>5. CASE RunNow
  <2>1. calling["user"] = NoTask /\ UNCHANGED <<runningTasks, calling>>
    BY <1>5, Zenon DEF RunNow
  <2> QED BY <2>1 DEF UserFetches, TakenIDs, OneEach, Called
<1>6. CASE UNCHANGED <<runningTasks, calling, fetched>>
  BY <1>6 DEF UserFetches, TakenIDs, OneEach, Called
<1>7. ASSUME AddTask \/ ChangeTask \/ StopTasks \/ BecomeDue \/ Snapshot \/ EndRound \/ WakeLoop
      PROVE  UNCHANGED <<runningTasks, calling, fetched>>
  BY <1>7, Zenon DEF AddTask, ChangeTask, StopTasks, BecomeDue, Snapshot, EndRound, WakeLoop
<1>8. UNCHANGED tVars => UNCHANGED <<runningTasks, calling, fetched>>
  BY DEF tVars
<1> QED BY <1>1, <1>2, <1>3, <1>4, <1>5, <1>6, <1>7, <1>8, Zenon
        DEF TaskNext, TaskUser, TaskLoop

\* The loop and a client's runNow are never in the code of tasks with one id, not even of a
\* task and of the one that has replaced it; and the ids that are taken are theirs.
THEOREM TasksRunAlone == ASSUME TaskBound PROVE TaskSpec => []TaskRunsAlone
<1>1. TaskInit => AloneInv
  BY DEF TaskInit, AloneInv, UserFetches, TakenIDs, OneEach, Called, Threads
<1> QED BY <1>1, AloneNext, AloneMeans, ListInvHolds, PTL DEF TaskSpec

-----------------------------------------------------------------------------
(* The services beside each other. *)

\* The bounds and the sets of all services.
ServicesBounds ==
    /\ Bounds /\ GrouperBounds /\ TaskBound /\ Sizes /\ Bound

\* A step of one service is one of it, or none, for each of them.
LEMMA PartSteps ==
    ASSUME [Next]_vars
    PROVE  /\ [QueueNext]_qVars /\ [GrouperNext]_gVars /\ [TaskNext]_tVars
           /\ [TicketsNext]_tkVars /\ [ParseEngineNext]_peVars
BY Zenon DEF Next, vars

\* Nothing that a service does is left out where all of them are, or added to it: what is proved
\* of a service is true of it there.
THEOREM ServicesAreParts ==
    Spec => /\ QueueSpec /\ GrouperSpec /\ TaskSpec
            /\ TicketsSpec /\ ParseSpec
<1>1. Init => /\ QueueInit /\ GrouperInit /\ TaskInit
              /\ TicketsInit /\ ParseInit
  BY Zenon DEF Init
<1> QED
  BY <1>1, PartSteps, PTL
     DEF Spec, QueueSpec, GrouperSpec, TaskSpec, TicketsSpec, ParseSpec

\* So the variables of each service have the types of its code.
THEOREM ServicesTypeCorrect == ASSUME ServicesBounds PROVE Spec => []ServicesTypeOK
<1>1. Bounds /\ GrouperBounds /\ TaskBound /\ Sizes /\ Bound
  BY DEF ServicesBounds
<1>2. /\ QueueSpec => []QueueTypeOK
      /\ GrouperSpec => []GrouperTypeOK
      /\ TaskSpec => []TaskTypeOK
  BY <1>1, QueueTypeCorrect, GrouperTypeCorrect, TaskTypeCorrect
<1>3. /\ TicketsSpec => []TicketsTypeOK
      /\ ParseSpec => []ParseTypeOK
  BY <1>1, TicketsTypeCorrect, ParseTypeCorrect
<1>4. (/\ QueueTypeOK /\ GrouperTypeOK /\ TaskTypeOK
       /\ TicketsTypeOK /\ ParseTypeOK) => ServicesTypeOK
  BY DEF ServicesTypeOK
<1> QED
  BY <1>2, <1>3, <1>4, ServicesAreParts, PTL
=============================================================================
