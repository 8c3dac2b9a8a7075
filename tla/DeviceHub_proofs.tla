--------------------------- MODULE DeviceHub_proofs ---------------------------
(***************************************************************************)
(* Proofs about DeviceHub, for any hubs, devices, partners and numbers of  *)
(* crashes, removals and missed pings.                                     *)
(***************************************************************************)
EXTENDS DeviceHub, TLAPS

\* Every device has a home and partners, and the server is a hub; a process starts at least once.
Laboratory ==
    /\ Server \in Hubs /\ Devices # {}
    /\ Home \in [Devices -> Hubs] /\ Partners \in [Devices -> SUBSET Devices]
    /\ MaxLives \in Nat \ {0} /\ MaxKills \in Nat /\ MaxMisses \in Nat

-----------------------------------------------------------------------------
(* The invariants. *)

Ops == {"add", "distribute", "give", "remove", "refresh", "drop", "connect"}

\* A call is at a process that runs, about a device; `ref' leads to the home of that device, or
\* to the hub that connects.  A drop is for a device, the others began at a hub.
CallTypeOK(m) ==
    /\ m = Call(m.op, m.hub, m.dev, m.ref, m.trace, m.first) /\ m.op \in Ops
    /\ m.hub \in Hubs /\ up[m.hub] /\ m.dev \in Devices /\ m.trace \in SUBSET Hubs
    /\ m.first \in IF m.op = "drop" THEN Devices ELSE Hubs
    /\ m.ref \in 0 .. IF m.op = "connect" THEN life[m.first] ELSE life[Home[m.dev]]

HubTyped ==
    /\ up \in [Hubs -> BOOLEAN] /\ life \in [Hubs -> 0 .. MaxLives]
    /\ known \in [Hubs -> SUBSET Hubs]
    /\ nodes \in [Hubs -> SUBSET Devices] /\ \A h \in Hubs : \A d \in nodes[h] : Home[d] = h
    /\ hubs \in [Hubs -> [Hubs -> Nat]] /\ \A h, p \in Hubs : hubs[h][p] <= life[p]
    /\ collected \in [Devices -> [Devices -> Nat]]
    /\ \A c, d \in Devices : collected[c][d] <= life[Home[d]]
    /\ \A m \in calls : CallTypeOK(m)
    /\ killed \in SUBSET Devices /\ misses \in 0 .. MaxMisses /\ refused \in SUBSET Devices
    /\ expelled \in BOOLEAN
    /\ \A h \in Hubs : ~up[h] => life[h] < MaxLives /\ nodes[h] = {}
    /\ \A h \in Hubs : up[h] => life[h] # 0

\* A device that is at its owner now, or was removed by it in this life of the process.
Owned(d) == d \in nodes[Home[d]] \cup killed

\* What a call that is to take a device out, or to make one known, says at the device's own hub:
\* that its owner removed it, and that it is there, or was.
OwnCall(m) ==
    /\ m.op = "add" => m.hub = Home[m.dev]
    /\ m.op = "drop" \/ (m.op = "remove" /\ m.trace = {}) =>
            (m.hub = Home[m.dev] => m.dev \in killed)
    /\ m.op = "distribute" /\ Home[m.dev] \notin m.trace =>
            m.hub = Home[m.dev] /\ m.ref = life[m.hub] /\ Owned(m.dev)

\* A device's reference to one of its own hub is not dead before the owner has removed that.
OwnReference(c, d) ==
    Home[c] = Home[d] /\ collected[c][d] # 0 =>
        up[Home[d]] /\ collected[c][d] = life[Home[d]] /\ Owned(d)

OwnDevices ==
    /\ \A m \in calls : OwnCall(m)
    /\ \A c, d \in Devices : OwnReference(c, d)

OwnersInv == HubTyped /\ OwnDevices /\ OwnersKeepDevices

\* Nothing crashes, a living device answers, and no device collects itself (a Distributer sees
\* to it).
Undisturbed == MaxLives = 1 /\ MaxMisses = 0 /\ \A d \in Devices : d \notin Partners[d]

\* Both ways between the hub and the server are there.
Joined(h) == h = Server \/ (hubs[h][Server] # 0 /\ hubs[Server][h] # 0)

\* The call leads to one at hub p that makes the device d known there: from d's hub by the
\* server, along hubs that are joined.
Brings(m, d, p) ==
    \/ m.op = "connect" /\ Home[d] # Server /\ {m.hub, m.first} = {Home[d], Server}
    \/ m.op = "give" /\ Home[d] # Server /\ m.hub = Home[d] /\ m.first = Server
    \/ m.op = "add" /\ m.dev = d /\ m.hub = Home[d]
    \/ /\ m.op = "distribute" /\ m.dev = d
       /\ Home[d] \in m.trace /\ m.trace \subseteq {Home[d], Server}
       /\ m.hub \in {Server, p} \ m.trace /\ m.first \in m.trace

\* Each of two devices has the other's reference, if it wants it.
Met(c, d) == (d \in Partners[c] => Finds(c, d)) /\ (c \in Partners[d] => Finds(d, c))

WillMeet(c, d) ==
    /\ Home[c] # Home[d]
    /\ \/ ~Joined(Home[c]) \/ ~Joined(Home[d])
       \/ \E m \in calls : Brings(m, c, Home[d]) \/ Brings(m, d, Home[c])

Stays(d) == d \in nodes[Home[d]] \ killed

\* Two devices that stay have met, or will: before their hubs are joined, or by a call.
DevicesMeet == \A c, d \in Devices : Stays(c) /\ Stays(d) /\ c # d => Met(c, d) \/ WillMeet(c, d)

\* What calls say where nothing crashes: only what its owner removed is taken out.
CalmCall(m) ==
    /\ m.op = "connect" => m.ref # 0 /\ m.hub # m.first /\ Server \in {m.hub, m.first}
    /\ m.op = "add" => m.ref # 0 /\ Owned(m.dev) /\ m.trace = {} /\ m.first = m.hub
    /\ m.op = "distribute" => m.ref # 0 /\ Owned(m.dev)
    /\ m.op \in {"drop", "remove"} => m.dev \in killed

\* The hubs are joined by the server alone, no reference is to a device that never was, and
\* the removal of a device that its owner removed is on its way.
Calm ==
    /\ \A m \in calls : CalmCall(m)
    /\ \A h, p \in Hubs : hubs[h][p] # 0 => h # p /\ Server \in {h, p}
    /\ \A c, d \in Devices : collected[c][d] # 0 => Owned(d)
    /\ \A d \in killed : d \in nodes[Home[d]] =>
            \E m \in calls : m.op = "remove" /\ m.dev = d /\ m.hub = Home[d] /\ m.trace = {}

MeetingInv == HubTyped /\ OwnDevices /\ Calm /\ DevicesMeet

\* The hub has the other one's reference, or a connect that is under way brings it.
WillLink(h, p) ==
    \/ hubs[h][p] = life[p]
    \/ \E m \in calls : m.op = "connect" /\ m.hub = h /\ m.first = p

\* A connect brings a reference that is not dead, a process that has ended has none, and a link
\* one way is one both ways, or will be.
Links ==
    /\ \A m \in calls : m.op = "connect" => m.hub # m.first /\ m.ref = life[m.first]
    /\ \A h, p \in Hubs : hubs[h][p] # 0 => up[h] /\ h # p
    /\ \A h, p \in Hubs : h # p /\ up[h] /\ up[p] /\ WillLink(p, h) => WillLink(h, p)

LinksInv == HubTyped /\ Links

\* There is the server's hub and one more, and no device collects itself; processes crash, and
\* pings are missed.
TwoHubs ==
    /\ \A g, h \in Hubs \ {Server} : g = h
    /\ \A d \in Devices : d \notin Partners[d]

\* The owner's own removal of the device.
OwnRemoval(m, d) == m.op = "remove" /\ m.dev = d /\ m.hub = Home[d] /\ m.trace = {}

\* What calls say between two hubs: an offer is of a living reference, and a removal that comes
\* from a device's hub is of one that left it.
CurrentCall(m) ==
    /\ m.op = "add" => m.ref = life[Home[m.dev]] /\ m.trace = {} /\ m.first = m.hub
    /\ m.op = "distribute" => m.ref = life[Home[m.dev]]
    /\ m.op = "drop" => Home[m.first] = m.hub
    /\ m.op = "remove" /\ Home[m.dev] \in m.trace =>
            m.dev \notin nodes[Home[m.dev]] /\ (m.dev \in killed \/ ~up[Home[m.dev]])

Current ==
    /\ \A m \in calls : CurrentCall(m)
    /\ \A d \in killed : d \in nodes[Home[d]] => \E m \in calls : OwnRemoval(m, d)

\* Each of the hubs has the other's reference.
Paired(g, h) == hubs[g][h] = life[h] /\ hubs[h][g] = life[g]

\* The call leads to d's owner refusing to remove d, which the hub p took for dead.
Accuses(m, d, p) ==
    /\ m.op = "remove" /\ m.dev = d
    /\ (m.hub = p /\ m.trace = {}) \/ (m.hub = Home[d] /\ m.trace = {p})

\* The call settles whether c finds d: it brings one to the other, or has d refused.
Settles(m, c, d) ==
    Brings(m, c, Home[d]) \/ Brings(m, d, Home[c]) \/ Accuses(m, d, Home[c])

WillFind(c, d) ==
    /\ Home[c] # Home[d]
    /\ d \in refused \/ ~Paired(Home[c], Home[d]) \/ \E m \in calls : Settles(m, c, d)

\* A device that stays finds a partner that stays, or will: when their hubs are paired, or by a
\* call.
DevicesFind ==
    \A c, d \in Devices :
        Stays(c) /\ Stays(d) /\ d \in Partners[c] => Finds(c, d) \/ WillFind(c, d)

MeetAgainInv == HubTyped /\ OwnDevices /\ Links /\ Current /\ DevicesFind

-----------------------------------------------------------------------------
(* Lemmas about the operators of the model. *)

\* The fields of a call are what it was made of.
LEMMA CallFields ==
    ASSUME NEW op, NEW h, NEW d, NEW n, NEW trace, NEW first
    PROVE  LET k == Call(op, h, d, n, trace, first) IN
           /\ k = Call(k.op, k.hub, k.dev, k.ref, k.trace, k.first)
           /\ k.op = op /\ k.hub = h /\ k.dev = d /\ k.ref = n
           /\ k.trace = trace /\ k.first = first
BY DEF Call

\* A call that is made of parts of the right types is well typed: one that is neither a drop
\* nor a connect.
LEMMA CallTyped ==
    ASSUME NEW op \in {"add", "distribute", "give", "remove", "refresh"},
           NEW h \in Hubs, up[h], NEW d \in Devices, NEW trace \in SUBSET Hubs,
           NEW first \in Hubs, NEW n \in 0 .. life[Home[d]]
    PROVE  CallTypeOK(Call(op, h, d, n, trace, first))
BY DEF Call, CallTypeOK, Ops

\* There is a device to fill a call with that is about none.
LEMMA AnyDeviceTyped == ASSUME Laboratory PROVE AnyDevice \in Devices
BY DEF Laboratory, AnyDevice

\* A refresh call is well typed at a process that runs.
LEMMA RefreshTyped ==
    ASSUME Laboratory, HubTyped, NEW h \in Hubs, up[h]
    PROVE  CallTypeOK(RefreshCall(h)) /\ RefreshCall(h).op = "refresh"
<1>1. 0 \in 0 .. life[Home[AnyDevice]]
  BY AnyDeviceTyped DEF Laboratory, HubTyped
<1>2. {} \in SUBSET Hubs
  OBVIOUS
<1> QED
  BY <1>1, <1>2, AnyDeviceTyped, CallTyped, CallFields DEF RefreshCall

\* A forwarded call says what the one said that it comes from; its trace has that one's hub.
LEMMA ForwardedCalls ==
    ASSUME HubTyped, NEW m, CallTypeOK(m), m.op \notin {"drop", "connect"},
           NEW op \in {"distribute", "remove", "refresh"}, NEW k \in Forwarded(op, m)
    PROVE  /\ CallTypeOK(k) /\ k.op = op /\ k.dev = m.dev /\ k.ref = m.ref
           /\ k.trace = m.trace \cup {m.hub} /\ k.first = m.first
<1>1. PICK p \in HubsOf(m.hub) \ (m.trace \cup {m.hub}) :
          /\ ProcessLives(p, hubs[m.hub][p])
          /\ k = Call(op, p, m.dev, m.ref, m.trace \cup {m.hub}, m.first)
  BY DEF Forwarded
<1>2. p \in Hubs /\ up[p]
  BY <1>1 DEF HubsOf, ProcessLives
<1>3. /\ m.dev \in Devices /\ m.trace \cup {m.hub} \in SUBSET Hubs /\ m.first \in Hubs
      /\ m.ref \in 0 .. life[Home[m.dev]]
  BY DEF CallTypeOK
<1> QED
  BY <1>1, <1>2, <1>3, CallTyped, CallFields

\* What an offer leaves and what it changes.
LEMMA OfferedRefs ==
    ASSUME NEW refs, NEW cs, NEW ds, NEW n, NEW c \in Devices, NEW e \in Devices
    PROVE  \/ Offered(refs, cs, ds, n)[c][e] = refs[c][e]
           \/ c \in cs /\ e \in ds /\ Offered(refs, cs, ds, n)[c][e] = n
BY DEF Offered

\* An offer is a table of references again.
LEMMA OfferedTable ==
    ASSUME NEW refs \in [Devices -> [Devices -> Nat]], NEW cs, NEW ds, NEW n \in Nat
    PROVE  Offered(refs, cs, ds, n) \in [Devices -> [Devices -> Nat]]
<1>1. ASSUME NEW c \in Devices, NEW d \in Devices
      PROVE  refs[c][d] \in Nat
  OBVIOUS
<1> QED
  BY <1>1 DEF Offered

\* An exchange of a device with those of a hub changes only references between them.
LEMMA ExchangedRefs ==
    ASSUME NEW h, NEW d, NEW n, NEW c \in Devices, NEW e \in Devices
    PROVE  \/ Exchanged(h, d, n)[c][e] = collected[c][e]
           \/ c \in nodes[h] /\ e = d /\ Exchanged(h, d, n)[c][e] = n
           \/ c = d /\ e \in nodes[h] /\ Exchanged(h, d, n)[c][e] = life[h]
<1> DEFINE got == Offered(collected, nodes[h], {d}, n)
<1> HIDE DEF got
<1>1. \/ got[c][e] = collected[c][e]
      \/ c \in nodes[h] /\ e = d /\ got[c][e] = n
  BY OfferedRefs DEF got
<1>2. \/ Offered(got, {d}, nodes[h], life[h])[c][e] = got[c][e]
      \/ c = d /\ e \in nodes[h] /\ Offered(got, {d}, nodes[h], life[h])[c][e] = life[h]
  BY OfferedRefs
<1>3. Exchanged(h, d, n) \in {got, Offered(got, {d}, nodes[h], life[h])}
  BY DEF Exchanged, got
<1> QED
  BY <1>1, <1>2, <1>3

\* An exchange is a table of references again.
LEMMA ExchangedTable ==
    ASSUME HubTyped, NEW h \in Hubs, NEW d, NEW n \in Nat
    PROVE  Exchanged(h, d, n) \in [Devices -> [Devices -> Nat]]
<1> DEFINE got == Offered(collected, nodes[h], {d}, n)
<1> HIDE DEF got
<1>1. collected \in [Devices -> [Devices -> Nat]] /\ life[h] \in Nat
  BY DEF HubTyped
<1>2. got \in [Devices -> [Devices -> Nat]]
  BY <1>1, OfferedTable DEF got
<1>3. Offered(got, {d}, nodes[h], life[h]) \in [Devices -> [Devices -> Nat]]
  BY <1>1, <1>2, OfferedTable
<1>4. Exchanged(h, d, n) \in {got, Offered(got, {d}, nodes[h], life[h])}
  BY DEF Exchanged, got
<1> QED
  BY <1>2, <1>3, <1>4
-----------------------------------------------------------------------------
(* The types. *)

\* What a step's calls have to be for the calls to be well typed after it.
NewCallsTyped == \A k \in calls' : k \in calls \/ CallTypeOK(k)

\* Where no process starts or ends, a step's new calls are all that its calls' types ask for.
LEMMA CallsStayTyped ==
    ASSUME HubTyped, NewCallsTyped, UNCHANGED <<up, life>>
    PROVE  \A k \in calls' : CallTypeOK(k)'
BY DEF HubTyped, NewCallsTyped, CallTypeOK, Call

\* A call that becomes others leaves the rest.
LEMMA BecomesTyped ==
    ASSUME NEW m, NEW new, Becomes(m, new), \A k \in new : CallTypeOK(k)
    PROVE  NewCallsTyped
BY DEF Becomes, NewCallsTyped

\* Nothing but the calls, the missed pings and the refused devices changes.
CallsOnly ==
    /\ NewCallsTyped /\ UNCHANGED <<up, life, hubs, known, nodes, collected, killed, expelled>>
    /\ misses' \in 0 .. MaxMisses /\ refused' \in SUBSET Devices

\* A step that changes nothing but calls keeps the types.
LEMMA CallsOnlyTyped == ASSUME HubTyped, CallsOnly PROVE HubTyped'
<1>1. \A k \in calls' : CallTypeOK(k)'
  BY CallsStayTyped DEF CallsOnly
<1> QED
  BY <1>1 DEF HubTyped, CallsOnly

\* The steps of calls that change nothing but calls.
LEMMA QuietCallsTyped ==
    ASSUME Laboratory, HubTyped, NEW m \in calls,
           NodeAdded(m) \/ HubSkips(m) \/ DistributeNodes(m) \/ RemoveRefused(m) \/ Refresh(m)
    PROVE  HubTyped'
<1>m. CallTypeOK(m) /\ m.hub \in Hubs /\ up[m.hub] /\ m.dev \in Devices
  BY DEF HubTyped, CallTypeOK
<1>t. misses \in 0 .. MaxMisses /\ refused \in SUBSET Devices
  BY DEF HubTyped
<1>1. CASE NodeAdded(m)
  <2>1. \A k \in Forwarded("distribute", m) \cup {RefreshCall(m.hub)} : CallTypeOK(k)
    BY <1>1, <1>m, ForwardedCalls, RefreshTyped DEF NodeAdded
  <2>2. CallsOnly
    BY <1>1, <1>t, <2>1, BecomesTyped DEF NodeAdded, CallsOnly
  <2> QED
    BY <2>2, CallsOnlyTyped
<1>2. CASE HubSkips(m)
  <2>1. CallsOnly
    BY <1>2, <1>t, BecomesTyped DEF HubSkips, CallsOnly
  <2> QED
    BY <2>1, CallsOnlyTyped
<1>3. CASE DistributeNodes(m)
  <2>1. ASSUME ProcessLives(m.first, hubs[m.hub][m.first]), NEW d \in nodes[m.hub]
        PROVE  CallTypeOK(Call("distribute", m.first, d, life[m.hub], {m.hub}, m.hub))
    <3>1. m.first \in Hubs /\ up[m.first]
      BY <1>3, <1>m, <2>1 DEF CallTypeOK, DistributeNodes, ProcessLives
    <3>2. d \in Devices /\ Home[d] = m.hub /\ life[m.hub] \in Nat
      BY <1>m, <2>1 DEF HubTyped
    <3>3. life[m.hub] \in 0 .. life[Home[d]]
      BY <3>2
    <3> QED
      BY <1>m, <3>1, <3>2, <3>3, CallTyped
  <2>2. CallsOnly
    BY <1>3, <1>t, <2>1, BecomesTyped DEF DistributeNodes, CallsOnly
  <2> QED
    BY <2>2, CallsOnlyTyped
<1>4. CASE RemoveRefused(m)
  <2>1. m.first \in Hubs /\ Home[m.dev] = m.hub /\ life[m.hub] \in Nat
    BY <1>4, <1>m DEF RemoveRefused, MustStay, CallTypeOK, HubTyped
  <2>2. life[m.hub] \in 0 .. life[Home[m.dev]] /\ {} \in SUBSET Hubs
    BY <2>1
  <2>3. CallTypeOK(Call("distribute", m.hub, m.dev, life[m.hub], {}, m.first))
    BY <1>m, <2>1, <2>2, CallTyped
  <2>4. CallsOnly
    BY <1>4, <1>m, <1>t, <2>3, BecomesTyped DEF RemoveRefused, CallsOnly
  <2> QED
    BY <2>4, CallsOnlyTyped
<1>5. CASE Refresh(m)
  <2>1. PICK slow \in {{}} \cup {{d} : d \in {d \in Devices : misses < MaxMisses
                                                          /\ Home[d] # m.hub}} :
            /\ Becomes(m, {Call("drop", m.hub, r[2], 0, {}, r[1]) : r \in Silent(m.hub, slow)}
                          \cup Forwarded("refresh", m))
            /\ misses' = IF slow = {} THEN misses ELSE misses + 1
    BY <1>5 DEF Refresh
  <2>2. misses' \in 0 .. MaxMisses
    <3>1. slow # {} => misses < MaxMisses
      BY <2>1
    <3> QED
      BY <1>t, <2>1, <3>1 DEF Laboratory
  <2>3. ASSUME NEW r \in Silent(m.hub, slow)
        PROVE  CallTypeOK(Call("drop", m.hub, r[2], 0, {}, r[1]))
    <3>1. r[1] \in Devices /\ r[2] \in Devices
      BY <1>m, <2>3 DEF Silent, HubTyped
    <3>2. 0 \in 0 .. life[Home[r[2]]]
      BY <3>1 DEF HubTyped, Laboratory
    <3> QED
      BY <1>m, <3>1, <3>2 DEF CallTypeOK, Call, Ops
  <2>4. \A k \in Forwarded("refresh", m) : CallTypeOK(k)
    BY <1>5, <1>m, ForwardedCalls DEF Refresh
  <2>5. \A k \in {Call("drop", m.hub, r[2], 0, {}, r[1]) : r \in Silent(m.hub, slow)}
                 \cup Forwarded("refresh", m) : CallTypeOK(k)
    BY <2>3, <2>4
  <2>6. NewCallsTyped
    BY <2>1, <2>5, BecomesTyped
  <2>7. CallsOnly
    BY <1>5, <1>t, <2>2, <2>6 DEF Refresh, CallsOnly
  <2> QED
    BY <2>7, CallsOnlyTyped
<1> QED
  BY <1>1, <1>2, <1>3, <1>4, <1>5

\* The references that a device's arrival, a drop or a removal leaves are typed.
LEMMA CollectedTyped ==
    ASSUME Laboratory, HubTyped, NEW h \in Hubs, NEW d \in Devices, NEW n \in 0 .. life[Home[d]],
           collected' = Exchanged(h, d, n), UNCHANGED life, \A e \in nodes[h] : Home[e] = h
    PROVE  /\ collected' \in [Devices -> [Devices -> Nat]]
           /\ \A c, e \in Devices : collected'[c][e] <= life[Home[e]]
<1>1. n \in Nat /\ life[h] \in Nat /\ n <= life[Home[d]]
  BY DEF HubTyped, Laboratory
<1>2. collected' \in [Devices -> [Devices -> Nat]]
  BY <1>1, ExchangedTable
<1>3. ASSUME NEW c \in Devices, NEW e \in Devices
      PROVE  collected'[c][e] <= life[Home[e]]
  <2>1. collected[c][e] <= life[Home[e]]
    BY DEF HubTyped
  <2>2. e \in nodes[h] => life[h] <= life[Home[e]]
    BY <1>1
  <2> QED
    BY <1>1, <2>1, <2>2, ExchangedRefs
<1> QED
  BY <1>2, <1>3

\* A device is added, and its hub's refresh task offers it to the others.
LEMMA AddNodeTyped ==
    ASSUME Laboratory, HubTyped, NEW h \in Hubs, NEW d \in Devices, AddNode(h, d)
    PROVE  HubTyped'
<1>1. up[h] /\ Home[d] = h /\ life[h] \in Nat /\ UNCHANGED <<up, life>>
  BY DEF AddNode, HubTyped
<1>2. life[h] \in 0 .. life[Home[d]] /\ {} \in SUBSET Hubs
  BY <1>1
<1>3. CallTypeOK(Call("add", h, d, life[h], {}, h))
  BY <1>1, <1>2, CallTyped
<1>4. NewCallsTyped
  BY <1>3 DEF AddNode, NewCallsTyped
<1>5. \A k \in calls' : CallTypeOK(k)'
  BY <1>1, <1>4, CallsStayTyped
<1>6. /\ collected' \in [Devices -> [Devices -> Nat]]
      /\ \A c, e \in Devices : collected'[c][e] <= life[Home[e]]
  <2>1. \A e \in nodes[h] : Home[e] = h
    BY DEF HubTyped
  <2>2. collected' = Exchanged(h, d, life[h])
    BY DEF AddNode
  <2> QED
    BY <1>1, <1>2, <2>1, <2>2, CollectedTyped
<1>7. /\ nodes' \in [Hubs -> SUBSET Devices] /\ \A g \in Hubs : \A e \in nodes'[g] : Home[e] = g
      /\ \A g \in Hubs : ~up[g] => nodes'[g] = {}
  BY <1>1 DEF AddNode, HubTyped
<1> QED
  BY <1>5, <1>6, <1>7 DEF HubTyped, AddNode

\* The device is made known to another hub's devices.
LEMMA DistributeTyped ==
    ASSUME Laboratory, HubTyped, NEW m \in calls, Distribute(m)
    PROVE  HubTyped'
<1>1. /\ CallTypeOK(m) /\ m.hub \in Hubs /\ m.dev \in Devices /\ m.ref \in 0 .. life[Home[m.dev]]
      /\ UNCHANGED <<up, life>>
  BY DEF HubTyped, CallTypeOK, Distribute
<1>2. \A k \in Forwarded("distribute", m) : CallTypeOK(k)
  BY <1>1, ForwardedCalls DEF Distribute
<1>3. \A k \in calls' : CallTypeOK(k)'
  BY <1>1, <1>2, BecomesTyped, CallsStayTyped DEF Distribute
<1>4. /\ collected' \in [Devices -> [Devices -> Nat]]
      /\ \A c, e \in Devices : collected'[c][e] <= life[Home[e]]
  <2>1. \A e \in nodes[m.hub] : Home[e] = m.hub
    BY <1>1 DEF HubTyped
  <2>2. collected' = Exchanged(m.hub, m.dev, m.ref)
    BY DEF Distribute
  <2> QED
    BY <1>1, <2>1, <2>2, CollectedTyped
<1> QED
  BY <1>3, <1>4 DEF HubTyped, Distribute

\* A device's owner removes it.
LEMMA KillDeviceTyped ==
    ASSUME Laboratory, HubTyped, NEW h \in Hubs, NEW d \in Devices, KillDevice(h, d)
    PROVE  HubTyped'
<1>1. up[h] /\ Home[d] = h /\ life[h] \in Nat /\ UNCHANGED <<up, life>>
  BY DEF KillDevice, HubTyped
<1>2. life[h] \in 0 .. life[Home[d]] /\ {} \in SUBSET Hubs
  BY <1>1
<1>3. CallTypeOK(Call("remove", h, d, life[h], {}, h))
  BY <1>1, <1>2, CallTyped
<1>4. NewCallsTyped
  BY <1>3 DEF KillDevice, NewCallsTyped
<1>5. \A k \in calls' : CallTypeOK(k)'
  BY <1>1, <1>4, CallsStayTyped
<1>6. killed' \in SUBSET Devices
  BY DEF KillDevice, HubTyped
<1> QED
  BY <1>5, <1>6 DEF HubTyped, KillDevice

\* The references that a removal leaves: those of before, or none.
LEMMA RemovedRefs ==
    ASSUME Laboratory, HubTyped, NEW m \in calls, RemoveNode(m)
    PROVE  /\ collected' \in [Devices -> [Devices -> Nat]]
           /\ \A c, d \in Devices : collected'[c][d] \in {0, collected[c][d]}
<1>1. /\ m.dev \in Devices /\ m.hub \in Hubs
      /\ collected \in [Devices -> [Devices -> Nat]]
      /\ collected' = [c \in Devices |->
                        IF c = m.dev /\ m.dev \in nodes[m.hub] THEN NoReferences
                        ELSE IF c \in nodes[m.hub] THEN [collected[c] EXCEPT ![m.dev] = 0]
                        ELSE collected[c]]
  BY DEF RemoveNode, HubTyped, CallTypeOK
<1>2. NoReferences \in [Devices -> Nat]
  BY DEF NoReferences
<1>3. ASSUME NEW c \in Devices
      PROVE  /\ collected'[c] \in {NoReferences, [collected[c] EXCEPT ![m.dev] = 0], collected[c]}
             /\ [collected[c] EXCEPT ![m.dev] = 0] \in [Devices -> Nat]
             /\ collected[c] \in [Devices -> Nat]
  BY <1>1
<1>4. ASSUME NEW c \in Devices, NEW d \in Devices
      PROVE  collected'[c][d] \in {0, collected[c][d]}
  BY <1>1, <1>3 DEF NoReferences
<1>5. \A c \in Devices : collected'[c] \in [Devices -> Nat]
  BY <1>2, <1>3
<1>6. collected' = [c \in Devices |-> collected'[c]]
  BY <1>1
<1> QED
  BY <1>4, <1>5, <1>6

\* The device leaves a hub and the others are told.
LEMMA RemoveNodeTyped ==
    ASSUME Laboratory, HubTyped, NEW m \in calls, RemoveNode(m)
    PROVE  HubTyped'
<1>1. CallTypeOK(m) /\ m.hub \in Hubs /\ m.dev \in Devices /\ UNCHANGED <<up, life>>
  BY DEF HubTyped, CallTypeOK, RemoveNode
<1>2. \A k \in Forwarded("remove", m) : CallTypeOK(k)
  BY <1>1, ForwardedCalls DEF RemoveNode
<1>3. \A k \in calls' : CallTypeOK(k)'
  BY <1>1, <1>2, BecomesTyped, CallsStayTyped DEF RemoveNode
<1>4. /\ nodes' \in [Hubs -> SUBSET Devices] /\ \A g \in Hubs : nodes'[g] \subseteq nodes[g]
  BY <1>1 DEF RemoveNode, HubTyped
<1>5. expelled' \in BOOLEAN
  BY DEF RemoveNode, HubTyped
<1>6. ASSUME NEW c \in Devices, NEW d \in Devices
      PROVE  collected'[c][d] <= life'[Home[d]]
  <2>1. collected[c][d] <= life[Home[d]] /\ life[Home[d]] \in Nat
    BY DEF HubTyped, Laboratory
  <2> QED
    BY <1>1, <2>1, RemovedRefs
<1>7. collected' \in [Devices -> [Devices -> Nat]]
  BY RemovedRefs
<1>8. /\ up' \in [Hubs -> BOOLEAN] /\ life' \in [Hubs -> 0 .. MaxLives]
      /\ known' \in [Hubs -> SUBSET Hubs]
      /\ \A h \in Hubs : \A d \in nodes'[h] : Home[d] = h
      /\ hubs' \in [Hubs -> [Hubs -> Nat]] /\ \A h, p \in Hubs : hubs'[h][p] <= life'[p]
      /\ killed' \in SUBSET Devices /\ misses' \in 0 .. MaxMisses /\ refused' \in SUBSET Devices
  BY <1>1, <1>4 DEF HubTyped, RemoveNode
<1>9. \A h \in Hubs : (~up'[h] => life'[h] < MaxLives /\ nodes'[h] = {}) /\ (up'[h] => life'[h] # 0)
  BY <1>1, <1>4 DEF HubTyped
<1> QED
  BY <1>3, <1>4, <1>5, <1>6, <1>7, <1>8, <1>9 DEF HubTyped

\* A device forgets what did not answer.
LEMMA RefreshDropTyped ==
    ASSUME Laboratory, HubTyped, NEW m \in calls, RefreshDrop(m)
    PROVE  HubTyped'
<1>1. /\ CallTypeOK(m) /\ m.hub \in Hubs /\ m.dev \in Devices /\ UNCHANGED <<up, life>>
      /\ up[m.hub]
  BY DEF HubTyped, CallTypeOK, RefreshDrop
<1>2. m.first \in Devices
  BY <1>1 DEF CallTypeOK, RefreshDrop
<1>3. CallTypeOK(Call("remove", m.hub, m.dev, 0, {}, m.hub))
  <2>1. Home[m.dev] \in Hubs
    BY <1>1 DEF Laboratory
  <2>2. 0 \in 0 .. life[Home[m.dev]] /\ {} \in SUBSET Hubs
    BY <2>1 DEF HubTyped
  <2> QED
    BY <1>1, <2>2, CallTyped
<1>4. \A k \in calls' : CallTypeOK(k)'
  BY <1>1, <1>3, BecomesTyped, CallsStayTyped DEF RefreshDrop
<1>5. /\ collected' \in [Devices -> [Devices -> Nat]]
      /\ \A c, d \in Devices : collected'[c][d] <= life[Home[d]]
  BY <1>1, <1>2 DEF RefreshDrop, HubTyped, Laboratory
<1> QED
  BY <1>4, <1>5 DEF HubTyped, RefreshDrop

\* A link between two hubs is made at the one that asked for it, too.
LEMMA ConnectEndsTyped ==
    ASSUME Laboratory, HubTyped, NEW m \in calls, ConnectEnds(m)
    PROVE  HubTyped'
<1>1. /\ CallTypeOK(m) /\ m.hub \in Hubs /\ UNCHANGED <<up, life>> /\ up[m.hub]
      /\ m.first \in Hubs /\ m.ref \in 0 .. life[m.first]
  BY DEF HubTyped, CallTypeOK, ConnectEnds
<1>2. ASSUME NEW h \in Hubs, NEW p \in Hubs, up[h]
      PROVE  CallTypeOK(Call("give", h, AnyDevice, 0, {}, p))
  <2>1. 0 \in 0 .. life[Home[AnyDevice]] /\ {} \in SUBSET Hubs
    BY AnyDeviceTyped DEF Laboratory, HubTyped
  <2> QED
    BY <1>2, <2>1, AnyDeviceTyped, CallTyped
<1>3. \A k \in {Call("give", m.hub, AnyDevice, 0, {}, m.first)}
              \cup {Call("give", p, AnyDevice, 0, {}, m.hub) :
                            p \in {m.first} \cap {p \in Hubs : ProcessLives(p, m.ref)}}
              \cup IF m.trace = {} THEN {RefreshCall(m.hub)} ELSE {} : CallTypeOK(k)
  BY <1>1, <1>2, RefreshTyped DEF ProcessLives
<1>4. NewCallsTyped
  BY <1>3, BecomesTyped DEF ConnectEnds
<1>5. \A k \in calls' : CallTypeOK(k)'
  BY <1>1, <1>4, CallsStayTyped
<1>6. hubs' \in [Hubs -> [Hubs -> Nat]] /\ \A h, p \in Hubs : hubs'[h][p] <= life[p]
  BY <1>1 DEF ConnectEnds, HubTyped
<1> QED
  BY <1>5, <1>6 DEF HubTyped, ConnectEnds

\* The task asks for a link: the first half of connect.
LEMMA ConnectTyped ==
    ASSUME Laboratory, HubTyped, NEW h \in Hubs, NEW p \in Hubs, up[h], NEW n \in 0 .. life[p],
           NEW connected, Connect(h, p, n, connected), UNCHANGED <<up, life>>
    PROVE  /\ \A k \in calls' : CallTypeOK(k)'
           /\ hubs' \in [Hubs -> [Hubs -> Nat]] /\ \A g, q \in Hubs : hubs'[g][q] <= life[q]
<1>1. /\ hubs' = [hubs EXCEPT ![p][h] = life[h]]
      /\ calls' = calls \cup {Call("connect", h, AnyDevice, n, connected \cap {p}, p)}
  BY DEF Connect
<1>2. CallTypeOK(Call("connect", h, AnyDevice, n, connected \cap {p}, p))
  BY AnyDeviceTyped DEF CallTypeOK, Call, Ops
<1>3. \A k \in calls' : CallTypeOK(k)'
  BY <1>1, <1>2, CallsStayTyped DEF NewCallsTyped
<1>4. hubs' \in [Hubs -> [Hubs -> Nat]] /\ \A g, q \in Hubs : hubs'[g][q] <= life[q]
  BY <1>1 DEF HubTyped
<1> QED
  BY <1>3, <1>4

\* A turn of the refresh task.
LEMMA TaskTyped ==
    ASSUME Laboratory, HubTyped, NEW h \in Hubs, ConnectToTarget(h) \/ RefreshConnection(h)
    PROVE  HubTyped'
<1>l. /\ life \in [Hubs -> Nat] /\ Server \in Hubs
      /\ \A g, q \in Hubs : hubs[g][q] \in 0 .. life[q]
  BY DEF HubTyped, Laboratory
<1>1. CASE ConnectToTarget(h)
  <2>1. Connect(h, Server, Target(h), {})
    BY <1>1 DEF ConnectToTarget
  <2>2. Target(h) \in 0 .. life[Server]
    BY <1>l DEF Target
  <2>3. up[h] /\ UNCHANGED <<up, life>>
    BY <1>1 DEF ConnectToTarget, CanConnect, TaskIdle
  <2>4. /\ \A k \in calls' : CallTypeOK(k)'
        /\ hubs' \in [Hubs -> [Hubs -> Nat]] /\ \A g, q \in Hubs : hubs'[g][q] <= life[q]
    BY <1>l, <2>1, <2>2, <2>3, ConnectTyped
  <2> QED
    BY <1>1, <2>4 DEF HubTyped, ConnectToTarget
<1>2. CASE RefreshConnection(h)
  <2>1. CASE /\ Connect(Server, h, life[h], HubsOf(Server))
             /\ known' = [known EXCEPT ![Server] = @ \cup {h}]
    <3>1. up[Server] /\ UNCHANGED <<up, life>> /\ life[h] \in 0 .. life[h]
      BY <1>2, <1>l DEF RefreshConnection, CanRefresh, TaskIdle
    <3>2. /\ \A k \in calls' : CallTypeOK(k)'
          /\ hubs' \in [Hubs -> [Hubs -> Nat]] /\ \A g, q \in Hubs : hubs'[g][q] <= life[q]
      BY <1>l, <2>1, <3>1, ConnectTyped
    <3>3. known' \in [Hubs -> SUBSET Hubs]
      BY <1>l, <2>1 DEF HubTyped
    <3> QED
      BY <1>2, <3>2, <3>3 DEF HubTyped, RefreshConnection
  <2>2. CASE /\ known' = [known EXCEPT ![Server] = @ \ {h}]
             /\ UNCHANGED <<hubs, calls>>
    <3>1. UNCHANGED <<up, life>> /\ NewCallsTyped
      BY <1>2, <2>2 DEF RefreshConnection, NewCallsTyped
    <3>2. \A k \in calls' : CallTypeOK(k)'
      BY <3>1, CallsStayTyped
    <3>3. known' \in [Hubs -> SUBSET Hubs]
      BY <1>l, <2>2 DEF HubTyped
    <3> QED
      BY <1>2, <2>2, <3>2, <3>3 DEF HubTyped, RefreshConnection
  <2> QED
    BY <1>2, <2>1, <2>2 DEF RefreshConnection
<1> QED
  BY <1>1, <1>2

\* A process ends.
LEMMA CrashTyped ==
    ASSUME Laboratory, HubTyped, NEW h \in Hubs, Crash(h)
    PROVE  HubTyped'
<1>1. UNCHANGED <<life, misses, refused, expelled>> /\ life[h] < MaxLives
  BY DEF Crash
<1>2. up' \in [Hubs -> BOOLEAN] /\ up'[h] = FALSE /\ \A g \in Hubs \ {h} : up'[g] = up[g]
  BY DEF Crash, HubTyped
<1>3. \A k \in calls' : CallTypeOK(k)'
  <2>1. SUFFICES ASSUME NEW k \in calls' PROVE CallTypeOK(k)'
    OBVIOUS
  <2>2. k \in calls /\ k.hub # h
    BY DEF Crash
  <2> QED
    BY <1>1, <1>2, <2>2 DEF HubTyped, CallTypeOK, Call
<1>4. /\ nodes' \in [Hubs -> SUBSET Devices] /\ nodes'[h] = {}
      /\ \A g \in Hubs \ {h} : nodes'[g] = nodes[g]
  BY DEF Crash, HubTyped
<1>5. /\ hubs' \in [Hubs -> [Hubs -> Nat]] /\ \A g, p \in Hubs : hubs'[g][p] <= life[p]
  BY DEF Crash, HubTyped
<1>6. collected' \in [Devices -> [Devices -> Nat]]
      /\ \A c, d \in Devices : collected'[c][d] <= life[Home[d]]
  <2>1. /\ collected \in [Devices -> [Devices -> Nat]] /\ life \in [Hubs -> Nat]
        /\ Home \in [Devices -> Hubs]
        /\ \A c, d \in Devices : collected[c][d] <= life[Home[d]]
        /\ collected' = [c \in Devices |-> IF Home[c] = h THEN NoReferences ELSE collected[c]]
    BY DEF Crash, HubTyped, Laboratory
  <2>2. NoReferences \in [Devices -> Nat] /\ \A d \in Devices : NoReferences[d] = 0
    BY DEF NoReferences
  <2> QED
    BY <2>1, <2>2
<1>7. known' \in [Hubs -> SUBSET Hubs] /\ killed' \in SUBSET Devices
  BY DEF Crash, HubTyped
<1>8. \A g \in Hubs : (~up'[g] => life[g] < MaxLives /\ nodes'[g] = {}) /\ (up'[g] => life[g] # 0)
  <2>1. \A g \in Hubs : (~up[g] => life[g] < MaxLives /\ nodes[g] = {}) /\ (up[g] => life[g] # 0)
    BY DEF HubTyped
  <2> QED
    BY <1>1, <1>2, <1>4, <2>1
<1>9. \A g \in Hubs : \A d \in nodes'[g] : Home[d] = g
  BY <1>4 DEF HubTyped
<1> QED
  BY <1>1, <1>2, <1>3, <1>4, <1>5, <1>6, <1>7, <1>8, <1>9 DEF HubTyped

\* A process starts: what leads to its earlier lives is still no more than their number.
LEMMA StartTyped ==
    ASSUME Laboratory, HubTyped, NEW h \in Hubs, Start(h)
    PROVE  HubTyped'
<1>1. /\ UNCHANGED <<hubs, known, nodes, collected, calls, killed, misses, refused, expelled>>
      /\ ~up[h]
  BY DEF Start
<1>2. up' \in [Hubs -> BOOLEAN] /\ up'[h] = TRUE /\ \A g \in Hubs \ {h} : up'[g] = up[g]
  BY DEF Start, HubTyped
<1>3. /\ life' \in [Hubs -> 0 .. MaxLives] /\ life'[h] # 0
      /\ \A g \in Hubs : life[g] \in Nat /\ life'[g] \in Nat /\ life[g] <= life'[g]
      /\ \A g \in Hubs \ {h} : life'[g] = life[g]
  BY <1>1 DEF Start, HubTyped, Laboratory
<1>4. \A k \in calls' : CallTypeOK(k)'
  <2>1. SUFFICES ASSUME NEW k \in calls PROVE CallTypeOK(k)'
    BY <1>1
  <2>2. CallTypeOK(k)
    BY DEF HubTyped
  <2>3. /\ k.ref \in 0 .. IF k.op = "connect" THEN life[k.first] ELSE life[Home[k.dev]]
        /\ k.dev \in Devices /\ k.hub \in Hubs
        /\ k.first \in IF k.op = "drop" THEN Devices ELSE Hubs
    BY <2>2 DEF CallTypeOK
  <2>4. k.ref \in 0 .. IF k.op = "connect" THEN life'[k.first] ELSE life'[Home[k.dev]]
    <3>1. CASE k.op = "connect"
      <4>1. k.first \in Hubs /\ k.ref \in 0 .. life[k.first]
        BY <2>3, <3>1
      <4> QED
        BY <1>3, <3>1, <4>1
    <3>2. CASE k.op # "connect"
      <4>1. Home[k.dev] \in Hubs /\ k.ref \in 0 .. life[Home[k.dev]]
        BY <2>3, <3>2 DEF Laboratory
      <4> QED
        BY <1>3, <3>2, <4>1
    <3> QED
      BY <3>1, <3>2
  <2>5. up'[k.hub]
    BY <1>2, <2>2 DEF CallTypeOK
  <2> QED
    BY <2>2, <2>4, <2>5 DEF CallTypeOK
<1>5. \A g, p \in Hubs : hubs[g][p] <= life'[p]
  <2>1. \A g, p \in Hubs : hubs[g][p] \in Nat /\ hubs[g][p] <= life[p]
    BY DEF HubTyped
  <2> QED
    BY <1>3, <2>1
<1>6. \A c, d \in Devices : collected[c][d] <= life'[Home[d]]
  <2>1. \A c, d \in Devices : /\ collected[c][d] \in Nat /\ collected[c][d] <= life[Home[d]]
                              /\ Home[d] \in Hubs
    BY DEF HubTyped, Laboratory
  <2> QED
    BY <1>3, <2>1
<1>7. \A g \in Hubs : (~up'[g] => life'[g] < MaxLives /\ nodes[g] = {}) /\ (up'[g] => life'[g] # 0)
  <2>1. \A g \in Hubs : (~up[g] => life[g] < MaxLives /\ nodes[g] = {}) /\ (up[g] => life[g] # 0)
    BY DEF HubTyped
  <2> QED
    BY <1>2, <1>3, <2>1
<1> QED
  BY <1>1, <1>2, <1>3, <1>4, <1>5, <1>6, <1>7 DEF HubTyped

\* Every step keeps the types.
LEMMA HubStepTyped == ASSUME Laboratory, HubTyped, [HubNext]_hubVars PROVE HubTyped'
<1>1. ASSUME HubCall PROVE HubTyped'
  BY <1>1, QuietCallsTyped, DistributeTyped, RemoveNodeTyped, RefreshDropTyped, ConnectEndsTyped
     DEF HubCall
<1>2. ASSUME HubTask PROVE HubTyped'
  BY <1>2, TaskTyped DEF HubTask
<1>3. ASSUME \E h \in Hubs : Start(h) \/ Crash(h) PROVE HubTyped'
  BY <1>3, StartTyped, CrashTyped
<1>4. ASSUME \E h \in Hubs, d \in Devices : AddNode(h, d) \/ KillDevice(h, d) PROVE HubTyped'
  BY <1>4, AddNodeTyped, KillDeviceTyped
<1>5. ASSUME UNCHANGED hubVars PROVE HubTyped'
  BY <1>5 DEF hubVars, HubTyped, CallTypeOK, Call
<1> QED
  BY <1>1, <1>2, <1>3, <1>4, <1>5 DEF HubNext

\* The types hold before the first process starts.
LEMMA HubInitTyped == ASSUME Laboratory, HubInit PROVE HubTyped
<1>1. NoReferences \in [Devices -> Nat] /\ \A d \in Devices : NoReferences[d] = 0
  BY DEF NoReferences
<1>2. /\ up \in [Hubs -> BOOLEAN] /\ \A h \in Hubs : ~up[h]
      /\ expelled \in BOOLEAN
  BY DEF HubInit
<1>3. /\ life \in [Hubs -> 0 .. MaxLives] /\ \A h \in Hubs : life[h] = 0 /\ 0 < MaxLives
      /\ misses \in 0 .. MaxMisses
  BY DEF HubInit, Laboratory
<1>4. /\ known \in [Hubs -> SUBSET Hubs] /\ nodes \in [Hubs -> SUBSET Devices]
      /\ \A h \in Hubs : nodes[h] = {}
      /\ calls = {} /\ killed \in SUBSET Devices /\ refused \in SUBSET Devices
  BY DEF HubInit
<1>5. /\ hubs \in [Hubs -> [Hubs -> Nat]] /\ \A h, p \in Hubs : hubs[h][p] <= life[p]
  BY <1>3 DEF HubInit
<1>6. /\ collected \in [Devices -> [Devices -> Nat]]
      /\ \A c, d \in Devices : collected[c][d] <= life[Home[d]]
  <2>1. collected \in [Devices -> [Devices -> Nat]] /\ \A c, d \in Devices : collected[c][d] = 0
    BY <1>1 DEF HubInit
  <2>2. \A d \in Devices : life[Home[d]] = 0
    BY <1>3 DEF Laboratory
  <2> QED
    BY <2>1, <2>2
<1> QED
  BY <1>2, <1>3, <1>4, <1>5, <1>6 DEF HubTyped

\* The references, the devices and the calls have the types of the code, and no call is at a
\* process that has ended.
THEOREM HubTypeCorrect == ASSUME Laboratory PROVE HubSpec => []HubTypeOK
<1>1. HubInit => HubTyped
  BY HubInitTyped
<1>2. HubTyped /\ [HubNext]_hubVars => HubTyped'
  BY HubStepTyped
<1>3. HubTyped => HubTypeOK
  BY DEF HubTyped, HubTypeOK, CallTypeOK, Laboratory
<1> QED
  BY <1>1, <1>2, <1>3, PTL DEF HubSpec

-----------------------------------------------------------------------------
(* The links of the hubs. *)

\* A new link: at p at once, and at g by the call that is on its way.
NewLink(g, p) ==
    /\ g # p /\ Server \in {g, p} /\ up[g] /\ up[p]
    /\ hubs' = [hubs EXCEPT ![p][g] = life[g]]
    /\ \E met \in SUBSET Hubs :
            calls' = calls \cup {Call("connect", g, AnyDevice, life[p], met, p)}

\* What a turn of the refresh task does: nothing to the links, or one between the server and another
\* hub, both of which run.
LEMMA TaskLinks ==
    ASSUME Laboratory, HubTyped, NEW h \in Hubs, ConnectToTarget(h) \/ RefreshConnection(h)
    PROVE  /\ UNCHANGED <<up, life, nodes, collected, killed, misses, refused, expelled>>
           /\ UNCHANGED <<hubs, calls>> \/ \E g, p \in Hubs : NewLink(g, p)
<1>s. Server \in Hubs
  BY DEF Laboratory
<1>1. ASSUME NEW g \in Hubs, NEW p \in Hubs, NEW n, NEW connected \in SUBSET Hubs, up[g],
             Connect(g, p, n, connected), g # p, Server \in {g, p}
      PROVE  NewLink(g, p)
  <2>1. connected \cap {p} \in SUBSET Hubs /\ up[p] /\ n = life[p]
    BY <1>1 DEF Connect, ProcessLives
  <2> QED
    BY <1>1, <2>1 DEF Connect, NewLink
<1>2. CASE ConnectToTarget(h)
  <2>1. Connect(h, Server, Target(h), {}) /\ h # Server /\ up[h] /\ {} \in SUBSET Hubs
    BY <1>2 DEF ConnectToTarget, CanConnect, TaskIdle
  <2>2. NewLink(h, Server)
    BY <1>s, <1>1, <2>1
  <2> QED
    BY <1>s, <1>2, <2>2 DEF ConnectToTarget
<1>3. CASE RefreshConnection(h)
  <2>1. h # Server /\ up[Server] /\ HubsOf(Server) \in SUBSET Hubs
    BY <1>3 DEF RefreshConnection, CanRefresh, TaskIdle, HubsOf
  <2>2. CASE up[h]
    <3>1. NewLink(Server, h)
      BY <1>s, <1>1, <1>3, <2>1, <2>2 DEF RefreshConnection
    <3> QED
      BY <1>s, <1>3, <3>1 DEF RefreshConnection
  <2>3. CASE ~up[h]
    BY <1>3, <2>3 DEF RefreshConnection
  <2> QED
    BY <2>2, <2>3
<1> QED
  BY <1>2, <1>3

\* A link that is being made.
LEMMA NewLinkLinks ==
    ASSUME Laboratory, HubTyped, Links, NEW g \in Hubs, NEW p \in Hubs, NewLink(g, p),
           UNCHANGED <<up, life>>
    PROVE  Links'
<1>1. PICK met : calls' = calls \cup {Call("connect", g, AnyDevice, life[p], met, p)}
  BY DEF NewLink
<1> DEFINE k == Call("connect", g, AnyDevice, life[p], met, p)
<1>2. k \in calls' /\ k.op = "connect" /\ k.hub = g /\ k.first = p /\ k.ref = life[p]
  BY <1>1, CallFields
<1> HIDE DEF k
<1>3. /\ calls' = calls \cup {k} /\ hubs' = [hubs EXCEPT ![p][g] = life[g]]
      /\ hubs \in [Hubs -> [Hubs -> Nat]] /\ g # p /\ up[p]
  BY <1>1 DEF k, NewLink, HubTyped
<1>4. \A m \in calls' : m.op = "connect" => m.hub # m.first /\ m.ref = life[m.first]
  BY <1>2, <1>3 DEF Links
<1>5. \A h, q \in Hubs : hubs'[h][q] # 0 => up[h] /\ h # q
  BY <1>3 DEF Links
<1>6. WillLink(p, g)' /\ WillLink(g, p)'
  BY <1>2, <1>3 DEF WillLink
<1>7. \A h, q \in Hubs : {h, q} # {g, p} => (WillLink(h, q)' <=> WillLink(h, q))
  <2>1. ASSUME NEW h \in Hubs, NEW q \in Hubs, {h, q} # {g, p}
        PROVE  WillLink(h, q)' <=> WillLink(h, q)
    <3>1. hubs'[h][q] = hubs[h][q]
      BY <1>3, <2>1
    <3>2. ~(k.hub = h /\ k.first = q)
      BY <1>2, <2>1
    <3> QED
      BY <1>3, <3>1, <3>2 DEF WillLink
  <2> QED
    BY <2>1
<1>8. ASSUME NEW h \in Hubs, NEW q \in Hubs, h # q, up[h], up[q], WillLink(q, h)'
      PROVE  WillLink(h, q)'
  <2>1. CASE {h, q} = {g, p}
    BY <1>6, <2>1
  <2>2. CASE {h, q} # {g, p}
    BY <1>7, <1>8, <2>2 DEF Links
  <2> QED
    BY <2>1, <2>2
<1> QED
  BY <1>4, <1>5, <1>8 DEF Links

\* The connect's end makes the link at the other hub.
LEMMA ConnectEndsLinks ==
    ASSUME Laboratory, HubTyped, Links, NEW m \in calls, ConnectEnds(m)
    PROVE  Links'
<1>1. /\ UNCHANGED <<up, life>> /\ hubs' = [hubs EXCEPT ![m.hub][m.first] = m.ref]
      /\ m.op = "connect" /\ m.hub \in Hubs /\ m.first \in Hubs /\ up[m.hub]
      /\ m.ref = life[m.first] /\ m.hub # m.first /\ hubs \in [Hubs -> [Hubs -> Nat]]
  BY DEF ConnectEnds, Links, HubTyped, CallTypeOK
<1>2. \A k \in calls' : k.op = "connect" => k \in calls
  BY CallFields DEF ConnectEnds, Becomes, RefreshCall
<1>3. calls \ {m} \subseteq calls'
  BY DEF ConnectEnds, Becomes
<1>4. \A k \in calls' : k.op = "connect" => k.hub # k.first /\ k.ref = life'[k.first]
  BY <1>1, <1>2 DEF Links
<1>5. \A h, q \in Hubs : hubs'[h][q] # 0 => up'[h] /\ h # q
  BY <1>1 DEF Links
<1>6. \A h, q \in Hubs : WillLink(h, q)' <=> WillLink(h, q)
  <2>1. ASSUME NEW h \in Hubs, NEW q \in Hubs
        PROVE  WillLink(h, q)' <=> WillLink(h, q)
    <3>1. CASE h = m.hub /\ q = m.first
      <4>1. hubs'[h][q] = life'[q]
        BY <1>1, <3>1
      <4> QED
        BY <1>1, <3>1, <4>1 DEF WillLink
    <3>2. CASE ~(h = m.hub /\ q = m.first)
      <4>1. hubs'[h][q] = hubs[h][q]
        BY <1>1, <3>2
      <4> QED
        BY <1>1, <1>2, <1>3, <3>2, <4>1 DEF WillLink
    <3> QED
      BY <3>1, <3>2
  <2> QED
    BY <2>1
<1> QED
  BY <1>1, <1>4, <1>5, <1>6 DEF Links

\* Where no process starts or ends, no link is made, and no connect begins or ends.
LEMMA LinksStay ==
    ASSUME Links, UNCHANGED <<up, life, hubs>>,
           \A k : k.op = "connect" => (k \in calls' <=> k \in calls)
    PROVE  Links'
BY DEF Links, WillLink

\* A process ends, with its links and its calls; no link of the others changes.
LEMMA CrashLinks ==
    ASSUME Laboratory, HubTyped, Links, NEW x \in Hubs, Crash(x)
    PROVE  Links'
<1>1. /\ UNCHANGED life /\ calls' = {m \in calls : m.hub # x}
      /\ up' = [up EXCEPT ![x] = FALSE] /\ up \in [Hubs -> BOOLEAN]
      /\ hubs' = [hubs EXCEPT ![x] = [p \in Hubs |-> 0]] /\ hubs \in [Hubs -> [Hubs -> Nat]]
  BY DEF Crash, HubTyped
<1>2. \A h, q \in Hubs : h # x => (hubs'[h][q] = hubs[h][q] /\ (WillLink(h, q)' <=> WillLink(h, q)))
  BY <1>1 DEF WillLink
<1>3. \A h, q \in Hubs : hubs'[h][q] # 0 => up'[h] /\ h # q
  <2>1. \A q \in Hubs : hubs'[x][q] = 0
    BY <1>1
  <2> QED
    BY <1>1, <1>2, <2>1 DEF Links
<1>4. \A h \in Hubs : up'[h] => h # x /\ up[h]
  BY <1>1
<1> QED
  BY <1>1, <1>2, <1>3, <1>4 DEF Links

\* A process starts without links: no reference to it is one to its new life, and no connect is
\* under way at it or for it.
LEMMA StartLinks ==
    ASSUME Laboratory, HubTyped, Links, NEW x \in Hubs, Start(x)
    PROVE  Links'
<1>1. /\ UNCHANGED <<hubs, calls>> /\ ~up[x]
      /\ \A m \in calls : ~(m.op = "connect" /\ m.first = x)
      /\ \A m \in calls : m.hub # x /\ m.hub \in Hubs /\ (m.op = "connect" => m.first \in Hubs)
      /\ \A h \in Hubs \ {x} : up'[h] = up[h] /\ life'[h] = life[h]
      /\ life'[x] = life[x] + 1 /\ life[x] \in Nat
      /\ \A h \in Hubs : hubs[h][x] \in Nat /\ hubs[h][x] <= life[x]
  BY DEF Start, HubTyped, CallTypeOK
<1>2. \A q \in Hubs : hubs[x][q] = 0
  BY <1>1 DEF Links
<1>3. \A q \in Hubs : ~WillLink(q, x)'
  BY <1>1 DEF WillLink
<1>4. \A q \in Hubs \ {x} : up[q] => ~WillLink(x, q)'
  <2>1. \A q \in Hubs \ {x} : up[q] => life[q] # 0
    BY DEF HubTyped
  <2> QED
    BY <1>1, <1>2, <2>1 DEF WillLink
<1>5. \A h, q \in Hubs : h # x /\ q # x => (WillLink(h, q)' <=> WillLink(h, q))
  BY <1>1 DEF WillLink
<1>6. \A m \in calls' : m.op = "connect" => m.hub # m.first /\ m.ref = life'[m.first]
  BY <1>1 DEF Links
<1>7. \A h, q \in Hubs : hubs'[h][q] # 0 => up'[h] /\ h # q
  BY <1>1, <1>2 DEF Links
<1>8. \A h, q \in Hubs : h # q /\ up'[h] /\ up'[q] /\ WillLink(q, h)' => WillLink(h, q)'
  BY <1>1, <1>3, <1>4, <1>5 DEF Links
<1> QED
  BY <1>6, <1>7, <1>8 DEF Links

\* No other call makes or ends a connect.
LEMMA CallLinks ==
    ASSUME Laboratory, HubTyped, Links, NEW m \in calls,
           \/ NodeAdded(m) \/ Distribute(m) \/ HubSkips(m) \/ DistributeNodes(m)
           \/ RemoveRefused(m) \/ RemoveNode(m) \/ Refresh(m) \/ RefreshDrop(m)
    PROVE  Links'
<1>1. CallTypeOK(m) /\ UNCHANGED <<up, life, hubs>> /\ m.op # "connect"
  BY DEF HubTyped, NodeAdded, Distribute, HubSkips, DistributeNodes, RemoveRefused, RemoveNode,
         Refresh, RefreshDrop
<1>2. PICK new : Becomes(m, new) /\ \A k \in new : k.op # "connect"
  <2>1. m.op \notin {"drop", "connect"} =>
            \A op \in {"distribute", "remove", "refresh"} :
                \A k \in Forwarded(op, m) : k.op # "connect"
    BY <1>1, ForwardedCalls
  <2>2. RefreshCall(m.hub).op # "connect"
    BY CallFields DEF RefreshCall
  <2>3. CASE NodeAdded(m)
    BY <2>1, <2>2, <2>3 DEF NodeAdded
  <2>4. CASE Distribute(m)
    BY <2>1, <2>4 DEF Distribute
  <2>5. CASE HubSkips(m)
    BY <2>5 DEF HubSkips
  <2>6. CASE DistributeNodes(m)
    BY <2>6, CallFields DEF DistributeNodes
  <2>7. CASE RemoveRefused(m)
    BY <2>7, CallFields DEF RemoveRefused
  <2>8. CASE RemoveNode(m)
    BY <2>1, <2>8 DEF RemoveNode
  <2>9. CASE Refresh(m)
    <3>1. PICK slow :
             Becomes(m, {Call("drop", m.hub, r[2], 0, {}, r[1]) : r \in Silent(m.hub, slow)}
                        \cup Forwarded("refresh", m))
      BY <2>9 DEF Refresh
    <3>2. \A r : Call("drop", m.hub, r[2], 0, {}, r[1]).op # "connect"
      BY CallFields
    <3> QED
      BY <2>1, <2>9, <3>1, <3>2 DEF Refresh
  <2>10. CASE RefreshDrop(m)
    BY <2>10, CallFields DEF RefreshDrop
  <2> QED
    BY <2>3, <2>4, <2>5, <2>6, <2>7, <2>8, <2>9, <2>10
<1>3. \A k : k.op = "connect" => (k \in calls' <=> k \in calls)
  BY <1>1, <1>2 DEF Becomes
<1> QED
  BY <1>1, <1>3, LinksStay

\* Every step keeps links going both ways.
LEMMA HubStepLinks == ASSUME Laboratory, HubTyped, Links, [HubNext]_hubVars PROVE Links'
<1>1. ASSUME HubCall PROVE Links'
  BY <1>1, CallLinks, ConnectEndsLinks DEF HubCall
<1>2. ASSUME HubTask PROVE Links'
  <2>1. PICK h \in Hubs : ConnectToTarget(h) \/ RefreshConnection(h)
    BY <1>2 DEF HubTask
  <2>2. ASSUME UNCHANGED <<hubs, calls>> PROVE Links'
    BY <2>1, <2>2, TaskLinks, LinksStay
  <2> QED
    BY <2>1, <2>2, TaskLinks, NewLinkLinks
<1>3. ASSUME \E h \in Hubs : Start(h) \/ Crash(h) PROVE Links'
  BY <1>3, StartLinks, CrashLinks
<1>4. ASSUME NEW h \in Hubs, NEW d \in Devices, AddNode(h, d) \/ KillDevice(h, d) PROVE Links'
  <2>1. UNCHANGED <<up, life, hubs>>
    BY <1>4 DEF AddNode, KillDevice
  <2>2. \A k : k.op = "connect" => (k \in calls' <=> k \in calls)
    BY <1>4, CallFields DEF AddNode, KillDevice
  <2> QED
    BY <2>1, <2>2, LinksStay
<1>5. ASSUME UNCHANGED hubVars PROVE Links'
  BY <1>5, LinksStay DEF hubVars
<1> QED
  BY <1>1, <1>2, <1>3, <1>4, <1>5 DEF HubNext

\* Where no call is left, a hub that is not linked asks the server for a link, or the server
\* does not know it, or has a dead reference to it, and asks the hub.
LEMMA LinksReconnect == ASSUME Laboratory, HubTyped, Links PROVE HubsReconnect
<1>1. SUFFICES ASSUME calls = {}, up[Server], NEW h \in Hubs, up[h], ~Linked(h)
               PROVE  CanConnect(h) \/ CanRefresh(h)
  BY DEF HubsReconnect
<1>2. h # Server /\ Server \in Hubs /\ TaskIdle(h) /\ TaskIdle(Server) /\ life[h] # 0
  BY <1>1 DEF Linked, TaskIdle, Laboratory, HubTyped
<1>3. CASE hubs[h][Server] = 0
  BY <1>1, <1>2, <1>3 DEF CanConnect, Target, HubConnected, ProcessLives
<1>4. CASE hubs[h][Server] # 0
  <2>1. hubs[Server][h] # life[h]
    <3>1. WillLink(Server, h) => WillLink(h, Server)
      BY <1>1, <1>2 DEF Links
    <3> QED
      BY <1>1, <1>2, <3>1 DEF WillLink, Linked
  <2> QED
    BY <1>1, <1>2, <2>1 DEF CanRefresh, Lost, ProcessLives
<1> QED
  BY <1>3, <1>4

\* However processes crash and start again, and whatever calls come first or last: while the server
\* runs, a hub that is not linked with it has a refresh task to come that links them.
THEOREM HubsComeBack == ASSUME Laboratory PROVE HubSpec => []HubsReconnect
<1>1. HubInit => LinksInv
  <2>1. ASSUME HubInit PROVE Links
    <3>1. calls = {} /\ \A h, p \in Hubs : hubs[h][p] = 0 /\ ~up[h]
      BY <2>1 DEF HubInit
    <3> QED
      BY <3>1 DEF Links
  <2> QED
    BY <2>1, HubInitTyped DEF LinksInv
<1>2. LinksInv /\ [HubNext]_hubVars => LinksInv'
  BY HubStepTyped, HubStepLinks DEF LinksInv
<1>3. LinksInv => HubsReconnect
  BY LinksReconnect DEF LinksInv
<1> QED
  BY <1>1, <1>2, <1>3, PTL DEF HubSpec

-----------------------------------------------------------------------------
(* A hub's own devices. *)

\* A step that leaves the processes as they are, owned devices owned and references as they
\* are keeps what the calls and the references say, if its new calls say so.
LEMMA OwnedStay ==
    ASSUME OwnDevices, UNCHANGED <<up, life, collected>>,
           \A d \in Devices : Owned(d) => Owned(d)', killed \subseteq killed',
           \A k \in calls : k.dev \in Devices, \A k \in calls' : k \in calls \/ OwnCall(k)'
    PROVE  OwnDevices'
<1>1. \A k \in calls' : OwnCall(k)'
  BY DEF OwnDevices, OwnCall
<1>2. \A c, d \in Devices : OwnReference(c, d)'
  BY DEF OwnDevices, OwnReference
<1> QED
  BY <1>1, <1>2 DEF OwnDevices

\* The same where nothing but calls changes.
LEMMA CallsOnlyOwned ==
    ASSUME HubTyped, OwnDevices, UNCHANGED <<up, life, collected, nodes, killed>>,
           \A k \in calls' : k \in calls \/ OwnCall(k)
    PROVE  OwnDevices'
<1>1. \A k : OwnCall(k) => OwnCall(k)'
  BY DEF OwnCall, Owned
<1>2. \A k \in calls : OwnCall(k)
  BY DEF OwnDevices
<1>3. \A c, d \in Devices : OwnReference(c, d)'
  BY DEF OwnDevices, OwnReference, Owned
<1> QED
  BY <1>1, <1>2, <1>3 DEF OwnDevices

\* Calls of the other kinds say nothing of it.
LEMMA OtherCalls ==
    ASSUME NEW k, k.op \in {"give", "refresh", "connect"} PROVE OwnCall(k)
BY DEF OwnCall

\* A forwarded distribute was at the device's hub, a forwarded remove has been somewhere.
LEMMA ForwardedOwned ==
    ASSUME HubTyped, NEW m, CallTypeOK(m), m.op \notin {"drop", "connect"},
           NEW op \in {"distribute", "remove", "refresh"}, NEW k \in Forwarded(op, m),
           op = "distribute" => Home[m.dev] \in m.trace \cup {m.hub}
    PROVE  OwnCall(k)
<1>1. k.op = op /\ k.dev = m.dev /\ k.trace = m.trace \cup {m.hub}
  BY ForwardedCalls
<1> QED
  BY <1>1 DEF OwnCall

\* The steps of calls that change nothing but calls, or the links of a hub.
LEMMA QuietCallsOwned ==
    ASSUME Laboratory, HubTyped, OwnDevices, NEW m \in calls,
           \/ NodeAdded(m) \/ HubSkips(m) \/ DistributeNodes(m) \/ RemoveRefused(m) \/ Refresh(m)
           \/ ConnectEnds(m)
    PROVE  OwnDevices' /\ UNCHANGED expelled
<1>m. CallTypeOK(m) /\ m.hub \in Hubs /\ up[m.hub] /\ m.dev \in Devices /\ OwnCall(m)
  BY DEF HubTyped, CallTypeOK, OwnDevices
<1>1. CASE NodeAdded(m)
  <2>1. \A k \in Forwarded("distribute", m) : OwnCall(k)
    BY <1>1, <1>m, ForwardedOwned DEF NodeAdded, OwnCall
  <2>2. OwnCall(RefreshCall(m.hub))
    BY <1>m, RefreshTyped, OtherCalls
  <2> QED
    BY <1>1, <2>1, <2>2, CallsOnlyOwned DEF NodeAdded, Becomes
<1>2. CASE HubSkips(m)
  BY <1>2, CallsOnlyOwned DEF HubSkips, Becomes
<1>3. CASE DistributeNodes(m)
  <2>1. ASSUME NEW d \in nodes[m.hub]
        PROVE  OwnCall(Call("distribute", m.first, d, life[m.hub], {m.hub}, m.hub))
    <3>1. Home[d] = m.hub
      BY <1>m DEF HubTyped
    <3> QED
      BY <3>1, CallFields DEF OwnCall
  <2> QED
    BY <1>3, <2>1, CallsOnlyOwned DEF DistributeNodes, Becomes
<1>4. CASE RemoveRefused(m)
  <2>1. Home[m.dev] = m.hub /\ m.dev \in nodes[m.hub]
    BY <1>4, <1>m DEF RemoveRefused, MustStay, HubTyped
  <2>2. OwnCall(Call("distribute", m.hub, m.dev, life[m.hub], {}, m.first))
    BY <2>1, CallFields DEF OwnCall, Owned
  <2> QED
    BY <1>4, <2>2, CallsOnlyOwned DEF RemoveRefused, Becomes
<1>5. CASE Refresh(m)
  <2>1. PICK slow \in {{}} \cup {{d} : d \in {d \in Devices : misses < MaxMisses
                                                          /\ Home[d] # m.hub}} :
            Becomes(m, {Call("drop", m.hub, r[2], 0, {}, r[1]) : r \in Silent(m.hub, slow)}
                       \cup Forwarded("refresh", m))
    BY <1>5 DEF Refresh
  <2>2. ASSUME NEW r \in Silent(m.hub, slow)
        PROVE  OwnCall(Call("drop", m.hub, r[2], 0, {}, r[1]))
    <3>1. SUFFICES ASSUME m.hub = Home[r[2]] PROVE r[2] \in killed
      BY CallFields DEF OwnCall
    <3>2. /\ r[1] \in nodes[m.hub] /\ r[1] \in Devices /\ r[2] \in Devices
          /\ collected[r[1]][r[2]] # 0
          /\ ~DeviceLives(r[2], collected[r[1]][r[2]])
      BY <1>m, <2>1, <3>1 DEF Silent, HubTyped
    <3>3. Home[r[1]] = Home[r[2]]
      BY <1>m, <3>1, <3>2 DEF HubTyped
    <3>4. up[Home[r[2]]] /\ collected[r[1]][r[2]] = life[Home[r[2]]] /\ Owned(r[2])
      BY <3>2, <3>3 DEF OwnDevices, OwnReference
    <3> QED
      BY <3>2, <3>4 DEF DeviceLives, ProcessLives, Owned
  <2>3. \A k \in Forwarded("refresh", m) : OwnCall(k)
    BY <1>5, <1>m, ForwardedOwned DEF Refresh
  <2>4. \A k \in calls' : k \in calls \/ OwnCall(k)
    BY <2>1, <2>2, <2>3 DEF Becomes
  <2> QED
    BY <1>5, <2>4, CallsOnlyOwned DEF Refresh
<1>6. CASE ConnectEnds(m)
  <2>1. ASSUME NEW h, NEW p
        PROVE  OwnCall(Call("give", h, AnyDevice, 0, {}, p))
    BY CallFields, OtherCalls
  <2>2. OwnCall(RefreshCall(m.hub))
    BY <1>m, RefreshTyped, OtherCalls
  <2>3. \A k \in calls' : k \in calls \/ OwnCall(k)
    BY <1>6, <2>1, <2>2 DEF ConnectEnds, Becomes
  <2> QED
    BY <1>6, <2>3, CallsOnlyOwned DEF ConnectEnds
<1> QED
  BY <1>1, <1>2, <1>3, <1>4, <1>5, <1>6

\* A device that arrives is known by its current reference to those of its own hub.
LEMMA AddNodeOwned ==
    ASSUME Laboratory, HubTyped, OwnDevices, NEW h \in Hubs, NEW d \in Devices, AddNode(h, d)
    PROVE  OwnDevices' /\ UNCHANGED expelled
<1>1. /\ up[h] /\ Home[d] = h /\ UNCHANGED <<up, life, killed, expelled>>
      /\ nodes \in [Hubs -> SUBSET Devices]
      /\ nodes' = [nodes EXCEPT ![h] = @ \cup {d}]
      /\ collected' = Exchanged(h, d, life[h])
      /\ calls' = calls \cup {Call("add", h, d, life[h], {}, h)}
      /\ Home \in [Devices -> Hubs]
  BY DEF AddNode, HubTyped, Laboratory
<1>2. Owned(d)' /\ \A e \in Devices : Owned(e) => Owned(e)'
  BY <1>1 DEF Owned
<1>3. \A k \in calls' : OwnCall(k)'
  <2>1. ASSUME NEW k \in calls PROVE OwnCall(k)'
    <3>1. OwnCall(k) /\ k.dev \in Devices
      BY DEF OwnDevices, HubTyped, CallTypeOK
    <3> QED
      BY <1>1, <1>2, <3>1 DEF OwnCall
  <2>2. OwnCall(Call("add", h, d, life[h], {}, h))'
    BY <1>1, CallFields DEF OwnCall
  <2> QED
    BY <1>1, <2>1, <2>2
<1>4. ASSUME NEW c \in Devices, NEW e \in Devices PROVE OwnReference(c, e)'
  <2>1. OwnReference(c, e)
    BY DEF OwnDevices
  <2>2. \A x \in nodes[h] : x \in Devices /\ Home[x] = h /\ Owned(x)
    BY DEF HubTyped, Owned
  <2> QED
    BY <1>1, <1>2, <2>1, <2>2, ExchangedRefs DEF OwnReference
<1> QED
  BY <1>1, <1>3, <1>4 DEF OwnDevices

\* The same where a call makes a device known.
LEMMA DistributeOwned ==
    ASSUME Laboratory, HubTyped, OwnDevices, NEW m \in calls, Distribute(m)
    PROVE  OwnDevices' /\ UNCHANGED expelled
<1>1. /\ CallTypeOK(m) /\ m.hub \in Hubs /\ m.dev \in Devices /\ OwnCall(m) /\ up[m.hub]
      /\ UNCHANGED <<up, life, nodes, killed, expelled>> /\ m.op = "distribute"
      /\ collected' = Exchanged(m.hub, m.dev, m.ref) /\ m.hub \notin m.trace
  BY DEF HubTyped, CallTypeOK, Distribute, ShortCircuits, OwnDevices
<1>2. \A k \in calls' : k \in calls \/ OwnCall(k)
  <2>1. \A k \in Forwarded("distribute", m) : OwnCall(k)
    BY <1>1, ForwardedOwned DEF OwnCall
  <2> QED
    BY <2>1 DEF Distribute, Becomes
<1>3. \A k \in calls' : OwnCall(k)'
  BY <1>1, <1>2 DEF OwnDevices, OwnCall, Owned
<1>4. ASSUME NEW c \in Devices, NEW e \in Devices PROVE OwnReference(c, e)'
  <2>1. OwnReference(c, e) /\ (Owned(e) => Owned(e)')
    BY <1>1 DEF OwnDevices, Owned
  <2>2. \A x \in nodes[m.hub] : x \in Devices /\ Home[x] = m.hub /\ Owned(x)
    BY <1>1 DEF HubTyped, Owned
  <2>3. m.hub = Home[m.dev] => m.ref = life[m.hub] /\ Owned(m.dev)
    BY <1>1 DEF OwnCall
  <2> QED
    BY <1>1, <2>1, <2>2, <2>3, ExchangedRefs DEF OwnReference
<1> QED
  BY <1>1, <1>3, <1>4 DEF OwnDevices

\* A device that its owner removes is one that it removed.
LEMMA KillDeviceOwned ==
    ASSUME Laboratory, HubTyped, OwnDevices, NEW h \in Hubs, NEW d \in Devices, KillDevice(h, d)
    PROVE  OwnDevices' /\ UNCHANGED expelled
<1>1. /\ UNCHANGED <<up, life, nodes, collected, expelled>> /\ killed' = killed \cup {d}
      /\ calls' = calls \cup {Call("remove", h, d, life[h], {}, h)}
  BY DEF KillDevice
<1>2. OwnCall(Call("remove", h, d, life[h], {}, h))'
  BY <1>1, CallFields DEF OwnCall
<1>3. \A e \in Devices : Owned(e) => Owned(e)'
  BY <1>1 DEF Owned
<1>4. \A k \in calls : k.dev \in Devices
  BY DEF HubTyped, CallTypeOK
<1> QED
  BY <1>1, <1>2, <1>3, <1>4, OwnedStay

\* A device that leaves its hub was removed by its owner: so the removal expels none.
LEMMA RemoveNodeOwned ==
    ASSUME Laboratory, HubTyped, OwnDevices, NEW m \in calls, RemoveNode(m)
    PROVE  OwnDevices' /\ expelled' = expelled
<1>1. /\ CallTypeOK(m) /\ m.hub \in Hubs /\ m.dev \in Devices /\ OwnCall(m) /\ m.op = "remove"
      /\ UNCHANGED <<up, life, killed>> /\ ~MustStay(m)
      /\ nodes' = [nodes EXCEPT ![m.hub] = @ \ {m.dev}]
      /\ nodes \in [Hubs -> SUBSET Devices]
  BY DEF HubTyped, CallTypeOK, RemoveNode, OwnDevices
<1>2. m.dev \in nodes[m.hub] => m.dev \in killed
  BY <1>1 DEF MustStay, OwnCall, HubTyped
<1>3. expelled' = expelled
  <2>1. m.dev \notin nodes[m.hub] \ killed
    BY <1>2
  <2>2. expelled \in BOOLEAN /\ expelled' = (expelled \/ m.dev \in nodes[m.hub] \ killed)
    BY DEF RemoveNode, HubTyped
  <2> QED
    BY <2>1, <2>2, Zenon
<1>4. \A e \in Devices : Owned(e) => Owned(e)'
  BY <1>1, <1>2 DEF Owned, Laboratory
<1>5. \A k \in calls' : OwnCall(k)'
  <2>1. \A k \in Forwarded("remove", m) : OwnCall(k) /\ k.dev \in Devices
    BY <1>1, ForwardedOwned, ForwardedCalls
  <2>2. \A k \in calls : OwnCall(k) /\ k.dev \in Devices
    BY DEF OwnDevices, HubTyped, CallTypeOK
  <2>3. \A k \in calls' : OwnCall(k) /\ k.dev \in Devices
    BY <2>1, <2>2 DEF RemoveNode, Becomes
  <2> QED
    BY <1>1, <1>4, <2>3 DEF OwnCall
<1>6. \A c, d \in Devices : OwnReference(c, d)'
  BY <1>1, <1>4, RemovedRefs DEF OwnDevices, OwnReference
<1> QED
  BY <1>3, <1>5, <1>6 DEF OwnDevices

\* What did not answer, at a device's own hub, was removed by its owner.
LEMMA RefreshDropOwned ==
    ASSUME Laboratory, HubTyped, OwnDevices, NEW m \in calls, RefreshDrop(m)
    PROVE  OwnDevices' /\ UNCHANGED expelled
<1>1. /\ m.op = "drop" /\ OwnCall(m) /\ UNCHANGED <<up, life, nodes, killed, expelled>>
      /\ collected' = [collected EXCEPT ![m.first][m.dev] = 0]
      /\ collected \in [Devices -> [Devices -> Nat]]
  BY DEF RefreshDrop, OwnDevices, HubTyped
<1>2. OwnCall(Call("remove", m.hub, m.dev, 0, {}, m.hub))
  BY <1>1, CallFields DEF OwnCall
<1>3. \A k \in calls' : OwnCall(k)'
  BY <1>1, <1>2 DEF RefreshDrop, Becomes, OwnDevices, OwnCall, Owned
<1>4. \A c, d \in Devices : collected'[c][d] \in {0, collected[c][d]}
  BY <1>1
<1>5. \A c, d \in Devices : OwnReference(c, d)'
  BY <1>1, <1>4 DEF OwnDevices, OwnReference, Owned
<1> QED
  BY <1>1, <1>3, <1>5 DEF OwnDevices

\* The task makes only calls that connect.
LEMMA TaskOwned ==
    ASSUME Laboratory, HubTyped, OwnDevices, NEW h \in Hubs,
           ConnectToTarget(h) \/ RefreshConnection(h)
    PROVE  OwnDevices' /\ UNCHANGED expelled
<1>1. ASSUME NEW g, NEW p, NEW n, NEW connected, Connect(g, p, n, connected)
      PROVE  \A k \in calls' : k \in calls \/ OwnCall(k)
  <2>1. OwnCall(Call("connect", g, AnyDevice, n, connected \cap {p}, p))
    BY CallFields, OtherCalls
  <2> QED
    BY <1>1, <2>1 DEF Connect
<1>2. CASE ConnectToTarget(h)
  BY <1>1, <1>2, CallsOnlyOwned DEF ConnectToTarget
<1>3. CASE RefreshConnection(h)
  BY <1>1, <1>3, CallsOnlyOwned DEF RefreshConnection
<1> QED
  BY <1>2, <1>3

\* A process that ends takes its devices, and what it knows of them, with it.
LEMMA CrashOwned ==
    ASSUME Laboratory, HubTyped, OwnDevices, NEW h \in Hubs, Crash(h)
    PROVE  OwnDevices' /\ UNCHANGED expelled
<1>1. /\ UNCHANGED <<life, expelled>> /\ killed' = {d \in killed : Home[d] # h}
      /\ nodes' = [nodes EXCEPT ![h] = {}] /\ up' = [up EXCEPT ![h] = FALSE]
      /\ calls' = {m \in calls : m.hub # h}
      /\ collected' = [c \in Devices |-> IF Home[c] = h THEN NoReferences ELSE collected[c]]
      /\ nodes \in [Hubs -> SUBSET Devices] /\ up \in [Hubs -> BOOLEAN]
      /\ Home \in [Devices -> Hubs]
  BY DEF Crash, HubTyped, Laboratory
<1>2. \A d \in Devices : Home[d] # h => up'[Home[d]] = up[Home[d]] /\ (Owned(d) => Owned(d)')
  BY <1>1 DEF Owned
<1>3. ASSUME NEW k \in calls' PROVE OwnCall(k)'
  <2>1. OwnCall(k) /\ k.hub # h /\ k.dev \in Devices
    BY <1>1 DEF OwnDevices, HubTyped, CallTypeOK
  <2> QED
    BY <1>1, <1>2, <2>1 DEF OwnCall
<1>4. ASSUME NEW c \in Devices, NEW d \in Devices PROVE OwnReference(c, d)'
  <2>1. OwnReference(c, d)
    BY DEF OwnDevices
  <2>2. Home[c] = h => collected'[c][d] = 0
    BY <1>1 DEF NoReferences
  <2>3. Home[c] # h => collected'[c][d] = collected[c][d]
    BY <1>1
  <2> QED
    BY <1>1, <1>2, <2>1, <2>2, <2>3 DEF OwnReference
<1> QED
  BY <1>1, <1>3, <1>4 DEF OwnDevices

\* A process that starts has no calls and no devices yet.
LEMMA StartOwned ==
    ASSUME Laboratory, HubTyped, OwnDevices, NEW h \in Hubs, Start(h)
    PROVE  OwnDevices' /\ UNCHANGED expelled
<1>1. /\ UNCHANGED <<nodes, collected, calls, killed, expelled>> /\ ~up[h]
      /\ up' = [up EXCEPT ![h] = TRUE] /\ life' = [life EXCEPT ![h] = @ + 1]
      /\ up \in [Hubs -> BOOLEAN] /\ life \in [Hubs -> Nat] /\ Home \in [Devices -> Hubs]
  BY DEF Start, HubTyped, Laboratory
<1>2. \A g \in Hubs : up[g] => up'[g] /\ life'[g] = life[g]
  BY <1>1
<1>3. ASSUME NEW k \in calls' PROVE OwnCall(k)'
  <2>1. OwnCall(k) /\ k.hub \in Hubs /\ up[k.hub]
    BY <1>1 DEF OwnDevices, HubTyped, CallTypeOK
  <2> QED
    BY <1>1, <1>2, <2>1 DEF OwnCall, Owned
<1>4. ASSUME NEW c \in Devices, NEW d \in Devices PROVE OwnReference(c, d)'
  <2>1. OwnReference(c, d) /\ Home[d] \in Hubs
    BY <1>1 DEF OwnDevices
  <2> QED
    BY <1>1, <1>2, <2>1 DEF OwnReference, Owned
<1> QED
  BY <1>1, <1>3, <1>4 DEF OwnDevices

\* Every step keeps what a hub's calls and references say of its own devices, and expels none.
LEMMA HubStepOwned ==
    ASSUME Laboratory, HubTyped, OwnDevices, [HubNext]_hubVars
    PROVE  OwnDevices' /\ UNCHANGED expelled
<1>1. ASSUME HubCall PROVE OwnDevices' /\ UNCHANGED expelled
  BY <1>1, QuietCallsOwned, DistributeOwned, RemoveNodeOwned, RefreshDropOwned DEF HubCall
<1>2. ASSUME HubTask PROVE OwnDevices' /\ UNCHANGED expelled
  BY <1>2, TaskOwned DEF HubTask
<1>3. ASSUME \E h \in Hubs : Start(h) \/ Crash(h) PROVE OwnDevices' /\ UNCHANGED expelled
  BY <1>3, StartOwned, CrashOwned
<1>4. ASSUME \E h \in Hubs, d \in Devices : AddNode(h, d) \/ KillDevice(h, d)
      PROVE  OwnDevices' /\ UNCHANGED expelled
  BY <1>4, AddNodeOwned, KillDeviceOwned
<1>5. ASSUME UNCHANGED hubVars PROVE OwnDevices' /\ UNCHANGED expelled
  BY <1>5 DEF hubVars, OwnDevices, OwnCall, OwnReference, Owned
<1> QED
  BY <1>1, <1>2, <1>3, <1>4, <1>5 DEF HubNext

\* No hub loses a living device that its owner did not remove: neither because another one
\* holds a dead reference to it, nor because a device of its own does.
THEOREM DevicesStayWithOwners == ASSUME Laboratory PROVE HubSpec => []OwnersKeepDevices
<1>1. HubInit => OwnersInv
  <2>1. ASSUME HubInit PROVE OwnDevices /\ OwnersKeepDevices
    BY <2>1 DEF HubInit, OwnDevices, OwnReference, NoReferences, OwnersKeepDevices
  <2> QED
    BY <2>1, HubInitTyped DEF OwnersInv
<1>2. OwnersInv /\ [HubNext]_hubVars => OwnersInv'
  BY HubStepTyped, HubStepOwned DEF OwnersInv, OwnersKeepDevices
<1>3. OwnersInv => OwnersKeepDevices
  BY DEF OwnersInv
<1> QED
  BY <1>1, <1>2, <1>3, PTL DEF HubSpec

-----------------------------------------------------------------------------
(* Laboratories where nothing crashes and every device answers. *)

\* A process has one life there: a reference leads to it while it lasts, and it does not end.
LEMMA OneLife ==
    ASSUME Laboratory, Undisturbed, HubTyped
    PROVE  /\ \A h \in Hubs : life[h] \in {0, 1} /\ (up[h] <=> life[h] = 1) /\ ~Crash(h)
           /\ \A h, p \in Hubs : hubs[h][p] # 0 => ProcessLives(p, hubs[h][p])
           /\ \A d \in Devices : d \in nodes[Home[d]] => up[Home[d]]
           /\ \A d \in Devices, n \in Nat : n # 0 /\ n <= life[Home[d]] =>
                    ProcessLives(Home[d], n)
<1>1. \A h \in Hubs : life[h] \in {0, 1} /\ (up[h] <=> life[h] = 1) /\ ~Crash(h)
  <2>1. SUFFICES ASSUME NEW h \in Hubs
                 PROVE  life[h] \in {0, 1} /\ (up[h] <=> life[h] = 1) /\ ~Crash(h)
    OBVIOUS
  <2>2. life[h] \in {0, 1} /\ (~up[h] => life[h] < 1) /\ (up[h] => life[h] # 0)
    BY DEF HubTyped, Undisturbed
  <2>3. Crash(h) => up[h] /\ life[h] < 1
    BY DEF Crash, Undisturbed
  <2> QED
    BY <2>2, <2>3
<1>2. ASSUME NEW h \in Hubs, NEW n \in Nat, n # 0, n <= life[h] PROVE ProcessLives(h, n)
  BY <1>1, <1>2 DEF ProcessLives
<1>3. \A h, p \in Hubs : hubs[h][p] # 0 => ProcessLives(p, hubs[h][p])
  BY <1>2 DEF HubTyped
<1>4. \A d \in Devices : d \in nodes[Home[d]] => up[Home[d]]
  BY DEF HubTyped, Laboratory
<1>5. \A d \in Devices, n \in Nat : n # 0 /\ n <= life[Home[d]] => ProcessLives(Home[d], n)
  BY <1>2 DEF Laboratory
<1> QED
  BY <1>1, <1>3, <1>4, <1>5

\* A call keeps what it says while owned devices stay owned.
LEMMA CalmCallStays ==
    ASSUME NEW k, CalmCall(k), k.dev \in Devices, killed \subseteq killed',
           \A d \in Devices : Owned(d) => Owned(d)'
    PROVE  CalmCall(k)'
BY DEF CalmCall

\* What a step whose only effect is on calls has to say of them.
LEMMA CallsOnlyCalm ==
    ASSUME HubTyped, Calm, UNCHANGED <<nodes, killed, collected, hubs>>, NEW m \in calls,
           ~(m.op = "remove" /\ m.hub = Home[m.dev] /\ m.trace = {}), calls \ {m} \subseteq calls',
           \A k \in calls' : k \in calls \/ CalmCall(k)
    PROVE  Calm'
<1>1. \A k : CalmCall(k) <=> CalmCall(k)'
  BY DEF CalmCall, Owned
<1>2. \A k \in calls' : CalmCall(k)'
  BY <1>1 DEF Calm
<1>3. \A c, d \in Devices : collected'[c][d] # 0 => Owned(d)'
  BY DEF Calm, Owned
<1>4. \A d \in killed : d \in nodes[Home[d]] =>
          \E k \in calls' : k.op = "remove" /\ k.dev = d /\ k.hub = Home[d] /\ k.trace = {}
  BY DEF Calm
<1>5. \A h, p \in Hubs : hubs'[h][p] # 0 => h # p /\ Server \in {h, p}
  BY DEF Calm
<1> QED
  BY <1>2, <1>3, <1>4, <1>5 DEF Calm

\* The calls that a call without a device makes say nothing.
LEMMA OtherCallsCalm == ASSUME NEW k, k.op \in {"give", "refresh"} PROVE CalmCall(k)
BY DEF CalmCall

\* A forwarded call says what the one that it comes from says.
LEMMA ForwardedCalm ==
    ASSUME HubTyped, NEW m, CallTypeOK(m), CalmCall(m),
           NEW op \in {"distribute", "remove", "refresh"},
           m.op = op \/ (m.op = "add" /\ op = "distribute"), NEW k \in Forwarded(op, m)
    PROVE  CalmCall(k)
<1>1. k.op = op /\ k.dev = m.dev /\ k.ref = m.ref
  BY ForwardedCalls
<1> QED
  BY <1>1 DEF CalmCall

\* The steps of calls that change nothing but calls.
LEMMA QuietCallsCalm ==
    ASSUME Laboratory, Undisturbed, HubTyped, Calm, NEW m \in calls,
           NodeAdded(m) \/ HubSkips(m) \/ DistributeNodes(m) \/ RemoveRefused(m) \/ Refresh(m)
    PROVE  Calm'
<1>m. CallTypeOK(m) /\ m.hub \in Hubs /\ up[m.hub] /\ m.dev \in Devices /\ CalmCall(m)
  BY DEF HubTyped, CallTypeOK, Calm
<1>1. CASE NodeAdded(m)
  <2>1. \A k \in Forwarded("distribute", m) : CalmCall(k)
    BY <1>1, <1>m, ForwardedCalm DEF NodeAdded
  <2>2. CalmCall(RefreshCall(m.hub))
    BY <1>m, RefreshTyped, OtherCallsCalm
  <2> QED
    BY <1>1, <2>1, <2>2, CallsOnlyCalm DEF NodeAdded, Becomes
<1>2. CASE HubSkips(m)
  <2>1. ~(m.op = "remove" /\ m.trace = {})
    BY <1>2 DEF HubSkips, ShortCircuits
  <2> QED
    BY <1>2, <2>1, CallsOnlyCalm DEF HubSkips, Becomes
<1>3. CASE DistributeNodes(m)
  <2>1. ASSUME NEW d \in nodes[m.hub]
        PROVE  CalmCall(Call("distribute", m.first, d, life[m.hub], {m.hub}, m.hub))
    <3>1. d \in Devices /\ Home[d] = m.hub /\ life[m.hub] # 0
      BY <1>m DEF HubTyped
    <3> QED
      BY <3>1, CallFields DEF CalmCall, Owned
  <2> QED
    BY <1>3, <2>1, CallsOnlyCalm DEF DistributeNodes, Becomes
<1>4. CASE RemoveRefused(m)
  <2>1. /\ Home[m.dev] = m.hub /\ m.dev \in nodes[m.hub] /\ life[m.hub] # 0 /\ m.trace # {}
    BY <1>4, <1>m DEF RemoveRefused, MustStay, HubTyped
  <2>2. CalmCall(Call("distribute", m.hub, m.dev, life[m.hub], {}, m.first))
    BY <2>1, CallFields DEF CalmCall, Owned
  <2> QED
    BY <1>4, <2>1, <2>2, CallsOnlyCalm DEF RemoveRefused, Becomes
<1>5. CASE Refresh(m)
  <2>1. Becomes(m, {Call("drop", m.hub, r[2], 0, {}, r[1]) : r \in Silent(m.hub, {})}
                   \cup Forwarded("refresh", m))
    <3>1. ~(misses < MaxMisses)
      BY DEF Undisturbed, HubTyped
    <3>2. PICK slow \in {{}} \cup {{d} : d \in {d \in Devices : misses < MaxMisses
                                                             /\ Home[d] # m.hub}} :
              Becomes(m, {Call("drop", m.hub, r[2], 0, {}, r[1]) : r \in Silent(m.hub, slow)}
                         \cup Forwarded("refresh", m))
      BY <1>5 DEF Refresh
    <3>3. slow = {}
      BY <3>1
    <3> QED
      BY <3>2, <3>3
  <2>2. ASSUME NEW r \in Silent(m.hub, {})
        PROVE  CalmCall(Call("drop", m.hub, r[2], 0, {}, r[1]))
    <3>1. /\ r[1] \in Devices /\ r[2] \in Devices /\ collected[r[1]][r[2]] # 0
          /\ ~DeviceLives(r[2], collected[r[1]][r[2]])
      BY <1>m DEF Silent, HubTyped
    <3>2. Owned(r[2])
      BY <3>1 DEF Calm
    <3>3. collected[r[1]][r[2]] \in Nat /\ collected[r[1]][r[2]] <= life[Home[r[2]]]
      BY <3>1 DEF HubTyped
    <3>4. ProcessLives(Home[r[2]], collected[r[1]][r[2]])
      BY <3>1, <3>3, OneLife
    <3>5. r[2] \in killed
      BY <3>1, <3>2, <3>4 DEF DeviceLives, Owned
    <3> QED
      BY <3>5, CallFields DEF CalmCall
  <2>3. \A k \in Forwarded("refresh", m) : CalmCall(k)
    BY <1>5, <1>m, ForwardedCalm DEF Refresh
  <2>4. /\ \A k \in calls' : k \in calls \/ CalmCall(k)
        /\ calls \ {m} \subseteq calls'
    BY <2>1, <2>2, <2>3 DEF Becomes
  <2> QED
    BY <1>5, <2>4, CallsOnlyCalm DEF Refresh
<1> QED
  BY <1>1, <1>2, <1>3, <1>4, <1>5

\* A device that arrives, or is made known, is one that is there.
LEMMA ExchangeCalm ==
    ASSUME HubTyped, Calm, NEW h \in Hubs, NEW d, NEW n, collected' = Exchanged(h, d, n),
           Owned(d)', \A e \in Devices : Owned(e) => Owned(e)'
    PROVE  \A c, e \in Devices : collected'[c][e] # 0 => Owned(e)'
<1>1. SUFFICES ASSUME NEW c \in Devices, NEW e \in Devices, collected'[c][e] # 0 PROVE Owned(e)'
  OBVIOUS
<1>2. e \in nodes[h] => Owned(e)
  BY DEF Owned, HubTyped
<1>3. collected[c][e] # 0 => Owned(e)
  BY DEF Calm
<1> QED
  BY <1>1, <1>2, <1>3, ExchangedRefs

\* A device that is added is owned, and the call for it says so.
LEMMA AddNodeCalm ==
    ASSUME Laboratory, Undisturbed, HubTyped, Calm, NEW h \in Hubs, NEW d \in Devices, AddNode(h, d)
    PROVE  Calm'
<1>1. /\ up[h] /\ Home[d] = h /\ UNCHANGED <<life, killed, hubs>> /\ d \notin killed
      /\ nodes' = [nodes EXCEPT ![h] = @ \cup {d}] /\ nodes \in [Hubs -> SUBSET Devices]
      /\ collected' = Exchanged(h, d, life[h])
      /\ calls' = calls \cup {Call("add", h, d, life[h], {}, h)}
      /\ life[h] # 0 /\ Home \in [Devices -> Hubs]
  BY DEF AddNode, HubTyped, Laboratory
<1>2. Owned(d)' /\ \A e \in Devices : Owned(e) => Owned(e)'
  BY <1>1 DEF Owned
<1>3. \A k \in calls : k.dev \in Devices /\ CalmCall(k)
  BY DEF HubTyped, CallTypeOK, Calm
<1>4. CalmCall(Call("add", h, d, life[h], {}, h))'
  BY <1>1, <1>2, CallFields DEF CalmCall
<1>5. \A k \in calls' : CalmCall(k)'
  BY <1>1, <1>2, <1>3, <1>4, CalmCallStays
<1>6. \A e \in killed' : e \in nodes'[Home[e]] =>
          \E k \in calls' : k.op = "remove" /\ k.dev = e /\ k.hub = Home[e] /\ k.trace = {}
  <2>1. \A e \in killed : e \in Devices /\ e # d
    BY <1>1 DEF HubTyped
  <2>2. \A e \in killed : e \in nodes'[Home[e]] => e \in nodes[Home[e]]
    BY <1>1, <2>1
  <2> QED
    BY <1>1, <2>2 DEF Calm
<1>7. \A c, e \in Devices : collected'[c][e] # 0 => Owned(e)'
  BY <1>1, <1>2, ExchangeCalm
<1>8. \A g, p \in Hubs : hubs'[g][p] # 0 => g # p /\ Server \in {g, p}
  BY <1>1 DEF Calm
<1> QED
  BY <1>5, <1>6, <1>7, <1>8 DEF Calm

\* A call that makes a device known is about one that is, or was, owned.
LEMMA DistributeCalm ==
    ASSUME Laboratory, Undisturbed, HubTyped, Calm, NEW m \in calls, Distribute(m)
    PROVE  Calm'
<1>1. /\ CallTypeOK(m) /\ m.hub \in Hubs /\ m.dev \in Devices /\ CalmCall(m)
      /\ UNCHANGED <<nodes, killed, hubs>> /\ m.op = "distribute"
      /\ collected' = Exchanged(m.hub, m.dev, m.ref) /\ calls \ {m} \subseteq calls'
  BY DEF HubTyped, CallTypeOK, Distribute, Calm, Becomes
<1>2. Owned(m.dev)' /\ \A e \in Devices : Owned(e) => Owned(e)'
  BY <1>1 DEF Owned, CalmCall
<1>3. \A k \in Forwarded("distribute", m) : CalmCall(k)
  BY <1>1, ForwardedCalm
<1>4. \A k \in calls' : CalmCall(k)'
  BY <1>1, <1>3 DEF Distribute, Becomes, Calm, CalmCall, Owned
<1>5. \A e \in killed : e \in nodes[Home[e]] =>
          \E k \in calls' : k.op = "remove" /\ k.dev = e /\ k.hub = Home[e] /\ k.trace = {}
  BY <1>1 DEF Calm
<1>6. \A c, e \in Devices : collected'[c][e] # 0 => Owned(e)'
  BY <1>1, <1>2, ExchangeCalm
<1>7. \A h, p \in Hubs : hubs'[h][p] # 0 => h # p /\ Server \in {h, p}
  BY <1>1 DEF Calm
<1> QED
  BY <1>1, <1>4, <1>5, <1>6, <1>7 DEF Calm

\* The removal of a device starts with a call at its own hub.
LEMMA KillDeviceCalm ==
    ASSUME Laboratory, Undisturbed, HubTyped, Calm, NEW h \in Hubs, NEW d \in Devices,
           KillDevice(h, d)
    PROVE  Calm'
<1>1. /\ UNCHANGED <<life, nodes, collected, hubs>> /\ killed' = killed \cup {d} /\ Home[d] = h
      /\ calls' = calls \cup {Call("remove", h, d, life[h], {}, h)}
  BY DEF KillDevice, HubTyped
<1>2. CalmCall(Call("remove", h, d, life[h], {}, h))'
  BY <1>1, CallFields DEF CalmCall
<1>3. \A e \in Devices : Owned(e) => Owned(e)'
  BY <1>1 DEF Owned
<1>4. \A k \in calls : k.dev \in Devices /\ CalmCall(k)
  BY DEF HubTyped, CallTypeOK, Calm
<1>5. \A k \in calls' : CalmCall(k)'
  BY <1>1, <1>2, <1>3, <1>4, CalmCallStays
<1>6. \A e \in killed' : e \in nodes'[Home[e]] =>
          \E k \in calls' : k.op = "remove" /\ k.dev = e /\ k.hub = Home[e] /\ k.trace = {}
  BY <1>1, CallFields DEF Calm
<1>7. \A c, e \in Devices : collected'[c][e] # 0 => Owned(e)'
  BY <1>1, <1>3 DEF Calm
<1>8. \A g, p \in Hubs : hubs'[g][p] # 0 => g # p /\ Server \in {g, p}
  BY <1>1 DEF Calm
<1> QED
  BY <1>5, <1>6, <1>7, <1>8 DEF Calm

\* The device that a removal takes out is one that its owner removed.
LEMMA RemoveNodeCalm ==
    ASSUME Laboratory, Undisturbed, HubTyped, Calm, NEW m \in calls, RemoveNode(m)
    PROVE  Calm'
<1>1. /\ CallTypeOK(m) /\ m.hub \in Hubs /\ m.dev \in Devices /\ CalmCall(m) /\ m.op = "remove"
      /\ UNCHANGED <<killed, hubs>> /\ nodes' = [nodes EXCEPT ![m.hub] = @ \ {m.dev}]
      /\ nodes \in [Hubs -> SUBSET Devices] /\ calls \ {m} \subseteq calls'
      /\ Home \in [Devices -> Hubs]
  BY DEF HubTyped, CallTypeOK, RemoveNode, Calm, Becomes, Laboratory
<1>2. m.dev \in killed /\ \A e \in Devices : Owned(e) => Owned(e)'
  BY <1>1 DEF Owned, CalmCall
<1>3. \A k \in calls' : k.dev \in Devices /\ CalmCall(k)
  <2>1. \A k \in Forwarded("remove", m) : CalmCall(k) /\ k.dev \in Devices
    BY <1>1, ForwardedCalm, ForwardedCalls
  <2>2. \A k \in calls : k.dev \in Devices /\ CalmCall(k)
    BY DEF HubTyped, CallTypeOK, Calm
  <2> QED
    BY <2>1, <2>2 DEF RemoveNode, Becomes
<1>4. \A k \in calls' : CalmCall(k)'
  BY <1>1, <1>2, <1>3, CalmCallStays
<1>5. \A e \in killed : e \in nodes'[Home[e]] =>
          \E k \in calls' : k.op = "remove" /\ k.dev = e /\ k.hub = Home[e] /\ k.trace = {}
  <2>1. SUFFICES ASSUME NEW e \in killed, e \in nodes'[Home[e]]
                 PROVE  \E k \in calls' : k.op = "remove" /\ k.dev = e /\ k.hub = Home[e]
                                          /\ k.trace = {}
    OBVIOUS
  <2>2. e \in Devices /\ Home[e] \in Hubs
    BY <1>1 DEF HubTyped
  <2>3. e \in nodes[Home[e]] /\ ~(e = m.dev /\ m.hub = Home[e])
    BY <1>1, <2>1, <2>2
  <2> QED
    BY <1>1, <2>3 DEF Calm
<1>6. \A c, e \in Devices : collected'[c][e] # 0 => Owned(e)'
  BY <1>2, RemovedRefs DEF Calm
<1>7. \A h, p \in Hubs : hubs'[h][p] # 0 => h # p /\ Server \in {h, p}
  BY <1>1 DEF Calm
<1> QED
  BY <1>1, <1>4, <1>5, <1>6, <1>7 DEF Calm

\* What a device forgets was removed by its owner.
LEMMA RefreshDropCalm ==
    ASSUME Laboratory, Undisturbed, HubTyped, Calm, NEW m \in calls, RefreshDrop(m)
    PROVE  Calm'
<1>1. /\ m.op = "drop" /\ CalmCall(m) /\ UNCHANGED <<nodes, killed, hubs>>
      /\ collected' = [collected EXCEPT ![m.first][m.dev] = 0]
      /\ collected \in [Devices -> [Devices -> Nat]]
      /\ calls' = (calls \ {m}) \cup {Call("remove", m.hub, m.dev, 0, {}, m.hub)}
  BY DEF RefreshDrop, Calm, HubTyped, Becomes
<1>2. CalmCall(Call("remove", m.hub, m.dev, 0, {}, m.hub))
  BY <1>1, CallFields DEF CalmCall
<1>3. \A k \in calls' : CalmCall(k)'
  BY <1>1, <1>2 DEF Calm, CalmCall, Owned
<1>4. \A e \in killed : e \in nodes[Home[e]] =>
          \E k \in calls' : k.op = "remove" /\ k.dev = e /\ k.hub = Home[e] /\ k.trace = {}
  BY <1>1 DEF Calm
<1>5. \A c, d \in Devices : collected'[c][d] \in {0, collected[c][d]}
  BY <1>1
<1>6. \A c, e \in Devices : collected'[c][e] # 0 => Owned(e)'
  BY <1>1, <1>5 DEF Calm, Owned
<1>7. \A h, p \in Hubs : hubs'[h][p] # 0 => h # p /\ Server \in {h, p}
  BY <1>1 DEF Calm
<1> QED
  BY <1>1, <1>3, <1>4, <1>6, <1>7 DEF Calm

\* A link is made between a hub and the server.
LEMMA ConnectEndsCalm ==
    ASSUME Laboratory, Undisturbed, HubTyped, Calm, NEW m \in calls, ConnectEnds(m)
    PROVE  Calm'
<1>1. /\ m.op = "connect" /\ CalmCall(m) /\ UNCHANGED <<nodes, killed, collected>>
      /\ hubs' = [hubs EXCEPT ![m.hub][m.first] = m.ref] /\ hubs \in [Hubs -> [Hubs -> Nat]]
      /\ calls \ {m} \subseteq calls' /\ m.hub \in Hubs /\ up[m.hub]
  BY DEF ConnectEnds, Calm, HubTyped, Becomes, CallTypeOK
<1>2. \A k \in calls' : k \in calls \/ CalmCall(k)
  <2>1. ASSUME NEW h, NEW p PROVE CalmCall(Call("give", h, AnyDevice, 0, {}, p))
    BY CallFields, OtherCallsCalm
  <2>2. CalmCall(RefreshCall(m.hub))
    BY <1>1, RefreshTyped, OtherCallsCalm
  <2> QED
    BY <2>1, <2>2 DEF ConnectEnds, Becomes
<1>3. \A k \in calls' : CalmCall(k)'
  BY <1>1, <1>2 DEF Calm, CalmCall, Owned
<1>4. \A e \in killed : e \in nodes[Home[e]] =>
          \E k \in calls' : k.op = "remove" /\ k.dev = e /\ k.hub = Home[e] /\ k.trace = {}
  BY <1>1 DEF Calm
<1>5. \A h, p \in Hubs : hubs'[h][p] # 0 => h # p /\ Server \in {h, p}
  BY <1>1 DEF Calm, CalmCall
<1> QED
  BY <1>1, <1>3, <1>4, <1>5 DEF Calm, Owned

\* So are the links that the task asks for.
LEMMA TaskCalm ==
    ASSUME Laboratory, Undisturbed, HubTyped, Calm, NEW h \in Hubs,
           ConnectToTarget(h) \/ RefreshConnection(h)
    PROVE  Calm'
<1>s. /\ UNCHANGED <<nodes, killed, collected>> /\ hubs \in [Hubs -> [Hubs -> Nat]]
      /\ Server \in Hubs
  BY DEF ConnectToTarget, RefreshConnection, HubTyped, Laboratory
<1>1. ASSUME NEW g \in Hubs, NEW p \in Hubs, NEW n, NEW connected, Connect(g, p, n, connected),
             g # p, Server \in {g, p}
      PROVE  Calm'
  <2>1. /\ hubs' = [hubs EXCEPT ![p][g] = life[g]]
        /\ calls' = calls \cup {Call("connect", g, AnyDevice, n, connected \cap {p}, p)}
        /\ n # 0
    BY <1>1 DEF Connect, ProcessLives, HubTyped
  <2>2. CalmCall(Call("connect", g, AnyDevice, n, connected \cap {p}, p))
    BY <1>1, <2>1, CallFields DEF CalmCall
  <2>3. \A k \in calls' : CalmCall(k)'
    BY <1>s, <2>1, <2>2 DEF Calm, CalmCall, Owned
  <2>4. \A e \in killed : e \in nodes[Home[e]] =>
            \E k \in calls' : k.op = "remove" /\ k.dev = e /\ k.hub = Home[e] /\ k.trace = {}
    BY <2>1 DEF Calm
  <2>5. \A q, r \in Hubs : hubs'[q][r] # 0 => q # r /\ Server \in {q, r}
    BY <1>s, <1>1, <2>1 DEF Calm
  <2> QED
    BY <1>s, <2>3, <2>4, <2>5 DEF Calm, Owned
<1>2. ASSUME UNCHANGED <<hubs, calls>> PROVE Calm'
  BY <1>s, <1>2 DEF Calm, CalmCall, Owned
<1>3. CASE ConnectToTarget(h)
  BY <1>s, <1>1, <1>3 DEF ConnectToTarget, CanConnect
<1>4. CASE RefreshConnection(h)
  BY <1>s, <1>1, <1>2, <1>4 DEF RefreshConnection, CanRefresh
<1> QED
  BY <1>3, <1>4

\* Every step keeps a laboratory calm.
LEMMA HubStepCalm ==
    ASSUME Laboratory, Undisturbed, HubTyped, Calm, [HubNext]_hubVars
    PROVE  Calm'
<1>1. ASSUME HubCall PROVE Calm'
  BY <1>1, QuietCallsCalm, DistributeCalm, RemoveNodeCalm, RefreshDropCalm, ConnectEndsCalm
     DEF HubCall
<1>2. ASSUME HubTask PROVE Calm'
  BY <1>2, TaskCalm DEF HubTask
<1>3. ASSUME \E h \in Hubs : Start(h) \/ Crash(h) PROVE Calm'
  BY <1>3, OneLife DEF Start, Calm, CalmCall, Owned
<1>4. ASSUME \E h \in Hubs, d \in Devices : AddNode(h, d) \/ KillDevice(h, d) PROVE Calm'
  BY <1>4, AddNodeCalm, KillDeviceCalm
<1>5. ASSUME UNCHANGED hubVars PROVE Calm'
  BY <1>5 DEF hubVars, Calm, CalmCall, Owned
<1> QED
  BY <1>1, <1>2, <1>3, <1>4, <1>5 DEF HubNext

\* A joined hub has the server's reference, and the server has its.
LEMMA JoinedHubs ==
    ASSUME Laboratory, Undisturbed, HubTyped, NEW h \in Hubs, h # Server, Joined(h)
    PROVE  /\ Server \in HubsOf(h) /\ ProcessLives(Server, hubs[h][Server])
           /\ h \in HubsOf(Server) /\ ProcessLives(h, hubs[Server][h])
BY OneLife DEF Joined, HubsOf, HubConnected, Laboratory

\* A call is forwarded to a connected hub that is alive and was not there.
LEMMA IsForwarded ==
    ASSUME NEW op, NEW m, NEW p \in HubsOf(m.hub), ProcessLives(p, hubs[m.hub][p]),
           p \notin m.trace \cup {m.hub}
    PROVE  Call(op, p, m.dev, m.ref, m.trace \cup {m.hub}, m.first) \in Forwarded(op, m)
BY DEF Forwarded

\* A call that brings a device to the hub of another leads there, one hub on or by the
\* exchange of the two.
LEMMA BringingGoesOn ==
    ASSUME Laboratory, Undisturbed, HubTyped, Calm, NEW m \in calls, NEW c \in Devices,
           NEW d \in Devices, Stays(c), Stays(d), Home[c] # Home[d], Joined(Home[c]),
           Joined(Home[d]), Brings(m, c, Home[d]),
           \/ NodeAdded(m) \/ Distribute(m) \/ HubSkips(m) \/ DistributeNodes(m)
           \/ RemoveRefused(m) \/ RemoveNode(m) \/ Refresh(m) \/ RefreshDrop(m)
           \/ ConnectEnds(m)
    PROVE  Met(c, d)' \/ \E k \in calls' : Brings(k, c, Home[d])
<1> DEFINE A == Home[c] B == Home[d]
<1>h. /\ A \in Hubs /\ B \in Hubs /\ A # B /\ Server \in Hubs /\ c \in nodes[A] /\ d \in nodes[B]
      /\ up[A] /\ up[B] /\ life[A] = 1 /\ life[B] = 1
  BY OneLife DEF Laboratory, Stays
<1>a. A # Server => Server \in HubsOf(A) /\ ProcessLives(Server, hubs[A][Server])
  BY <1>h, JoinedHubs
<1>b. B # Server => B \in HubsOf(Server) /\ ProcessLives(B, hubs[Server][B])
  BY <1>h, JoinedHubs
<1>m. CallTypeOK(m) /\ CalmCall(m)
  BY DEF HubTyped, Calm
<1> HIDE DEF A, B
<1>1. CASE NodeAdded(m)
  <2>1. m.op = "add" /\ m.dev = c /\ m.hub = A /\ m.trace = {} /\ m.first = A
    BY <1>1, <1>m DEF NodeAdded, Brings, CalmCall, A
  <2>2. Forwarded("distribute", m) \subseteq calls'
    BY <1>1 DEF NodeAdded, Becomes
  <2> DEFINE p == IF A = Server THEN B ELSE Server
             k == Call("distribute", p, c, m.ref, {A}, A)
  <2>3. p \in HubsOf(A) /\ ProcessLives(p, hubs[A][p]) /\ p # A
    BY <1>h, <1>a, <1>b
  <2>4. Call("distribute", p, m.dev, m.ref, m.trace \cup {m.hub}, m.first) = k
    BY <2>1
  <2>5. k \in calls'
    BY <2>1, <2>2, <2>3, <2>4, IsForwarded
  <2>6. Brings(k, c, B)
    BY <2>3, CallFields DEF Brings, A
  <2> QED
    BY <2>5, <2>6 DEF B
<1>2. CASE Distribute(m)
  <2>1. /\ m.op = "distribute" /\ m.dev = c /\ A \in m.trace /\ m.trace \subseteq {A, Server}
        /\ m.hub \in {Server, B} \ m.trace /\ m.first \in m.trace
    BY <1>2 DEF Distribute, Brings, A, B
  <2>2. CASE m.hub = B
    <3>1. /\ m.ref = 1 /\ collected' = Exchanged(B, c, 1) /\ UNCHANGED life
          /\ DeviceLives(c, 1)
      <4>1. m.ref # 0 /\ m.ref \in 0 .. life[A]
        BY <1>m, <2>1 DEF CalmCall, CallTypeOK, A
      <4>2. m.ref = 1
        BY <1>h, <4>1
      <4>3. DeviceLives(c, 1)
        BY <1>h DEF DeviceLives, ProcessLives, A
      <4> QED
        BY <1>2, <2>1, <2>2, <4>2, <4>3 DEF Distribute
    <3>2. Exchanged(B, c, 1) = Offered(Offered(collected, nodes[B], {c}, 1), {c}, nodes[B], life[B])
      BY <3>1 DEF Exchanged
    <3>3. c # d
      BY <1>h DEF A, B
    <3>4. d \in Partners[c] => collected'[c][d] = life[B]
      BY <1>h, <3>1, <3>2, <3>3 DEF Offered
    <3>5. c \in Partners[d] => collected'[d][c] = 1
      <4>1. c \in Partners[d] => Offered(collected, nodes[B], {c}, 1)[d][c] = 1
        BY <1>h, <3>3 DEF Offered
      <4>2. collected'[d][c] = Offered(collected, nodes[B], {c}, 1)[d][c]
        BY <3>1, <3>2, <3>3 DEF Offered
      <4> QED
        BY <4>1, <4>2
    <3> QED
      BY <1>h, <3>1, <3>4, <3>5 DEF Met, Finds, A, B
  <2>3. CASE m.hub # B
    <3>1. m.hub = Server /\ A # Server /\ B # Server /\ m.trace = {A}
      BY <2>1, <2>3
    <3> DEFINE k == Call("distribute", B, c, m.ref, {A, Server}, m.first)
    <3>2. Call("distribute", B, m.dev, m.ref, m.trace \cup {m.hub}, m.first) = k
      BY <2>1, <3>1
    <3>3. k \in calls'
      BY <1>2, <1>h, <1>b, <3>1, <3>2, IsForwarded DEF Distribute, Becomes
    <3>4. Brings(k, c, B)
      BY <1>h, <2>1, <3>1, CallFields DEF Brings, A
    <3> QED
      BY <3>3, <3>4 DEF B
  <2> QED
    BY <2>2, <2>3
<1>3. CASE HubSkips(m)
  BY <1>3 DEF HubSkips, ShortCircuits, Brings
<1>4. CASE DistributeNodes(m)
  <2>1. m.op = "give" /\ A # Server /\ m.hub = A /\ m.first = Server
    BY <1>4 DEF DistributeNodes, Brings, A
  <2> DEFINE k == Call("distribute", Server, c, life[A], {A}, A)
  <2>2. k \in calls'
    BY <1>4, <1>h, <1>a, <2>1 DEF DistributeNodes, Becomes
  <2>3. Brings(k, c, B)
    BY <2>1, CallFields DEF Brings, A
  <2> QED
    BY <2>2, <2>3 DEF B
<1>5. CASE RemoveRefused(m) \/ RemoveNode(m) \/ Refresh(m) \/ RefreshDrop(m)
  BY <1>5 DEF RemoveRefused, RemoveNode, Refresh, RefreshDrop, Brings
<1>6. CASE ConnectEnds(m)
  <2>1. m.op = "connect" /\ A # Server /\ {m.hub, m.first} = {A, Server}
    BY <1>6 DEF ConnectEnds, Brings, A
  <2>2. m.ref = 1 /\ up[m.first] /\ ProcessLives(m.first, m.ref) /\ m.first \in Hubs
    <3>1. m.first \in Hubs /\ m.ref # 0 /\ m.ref \in 0 .. life[m.first]
      BY <1>m, <2>1 DEF CallTypeOK, CalmCall
    <3>2. life[m.first] \in {0, 1} /\ (up[m.first] <=> life[m.first] = 1)
      BY <3>1, OneLife
    <3> QED
      BY <3>1, <3>2 DEF ProcessLives
  <2>3. /\ Call("give", m.hub, AnyDevice, 0, {}, m.first) \in calls'
        /\ Call("give", m.first, AnyDevice, 0, {}, m.hub) \in calls'
    BY <1>6, <2>2 DEF ConnectEnds, Becomes
  <2> DEFINE k == Call("give", A, AnyDevice, 0, {}, Server)
  <2>4. k \in calls'
    BY <2>1, <2>3
  <2>5. Brings(k, c, B)
    BY <2>1, CallFields DEF Brings, A
  <2> QED
    BY <2>4, <2>5 DEF B
<1> QED
  BY <1>1, <1>2, <1>3, <1>4, <1>5, <1>6

\* A reference that is current stays so, for devices that stay.
LEMMA ExchangeKeeps ==
    ASSUME HubTyped, NEW h \in Hubs, up[h], NEW e \in Devices, NEW n, n = life[Home[e]],
           UNCHANGED life, collected' = Exchanged(h, e, n), NEW c \in Devices, NEW d \in Devices,
           Finds(c, d)
    PROVE  Finds(c, d)'
<1>1. d \in nodes[h] => Home[d] = h
  BY DEF HubTyped
<1> QED
  BY <1>1, ExchangedRefs DEF Finds

\* What a step may do to the links and to devices that stay: a link that is made is one whose
\* hub's devices a call brings.
KeepsMeeting ==
    /\ \A d \in Devices : Stays(d)' => Stays(d)
    /\ \A c, d \in Devices : Stays(c)' /\ Stays(d)' /\ Finds(c, d) => Finds(c, d)'
    /\ \A c \in Devices : Stays(c) /\ ~Joined(Home[c]) /\ Joined(Home[c])' =>
            \A p : \E k \in calls' : Brings(k, c, p)
    /\ \A c, d \in Devices :
            /\ Stays(c) /\ Stays(d) /\ Home[c] # Home[d] /\ Joined(Home[c]) /\ Joined(Home[d])
            /\ \E k \in calls : Brings(k, c, Home[d])
            => Met(c, d)' \/ \E k \in calls' : Brings(k, c, Home[d])

\* A step that keeps the devices that stay, what they find and what brings them keeps the
\* meetings.
LEMMA MeetingKept == ASSUME DevicesMeet, KeepsMeeting PROVE DevicesMeet'
<1>1. SUFFICES ASSUME NEW c \in Devices, NEW d \in Devices, Stays(c)', Stays(d)', c # d
               PROVE  (Met(c, d) \/ WillMeet(c, d))'
  BY DEF DevicesMeet
<1>2. Stays(c) /\ Stays(d)
  BY <1>1 DEF KeepsMeeting
<1>3. CASE Met(c, d)
  BY <1>1, <1>3 DEF Met, KeepsMeeting
<1>4. CASE WillMeet(c, d)
  <2>1. Home[c] # Home[d]
    BY <1>4 DEF WillMeet
  <2>2. CASE ~(Joined(Home[c]) /\ Joined(Home[d]))
    <3>1. \/ ~Joined(Home[c])' \/ ~Joined(Home[d])'
          \/ \E k \in calls' : Brings(k, c, Home[d]) \/ Brings(k, d, Home[c])
      BY <1>2, <2>2 DEF KeepsMeeting
    <3> QED
      BY <2>1, <3>1 DEF WillMeet
  <2>3. CASE Joined(Home[c]) /\ Joined(Home[d])
    <3>1. (\E k \in calls : Brings(k, c, Home[d])) \/ \E k \in calls : Brings(k, d, Home[c])
      BY <1>4, <2>3 DEF WillMeet
    <3>2. \/ Met(c, d)' \/ Met(d, c)'
          \/ \E k \in calls' : Brings(k, c, Home[d]) \/ Brings(k, d, Home[c])
      BY <1>2, <2>1, <2>3, <3>1 DEF KeepsMeeting
    <3>3. Met(d, c)' => Met(c, d)'
      BY DEF Met
    <3> QED
      BY <2>1, <3>2, <3>3 DEF WillMeet
  <2> QED
    BY <2>2, <2>3
<1> QED
  BY <1>1, <1>2, <1>3, <1>4 DEF DevicesMeet

\* A hub is joined by a link between it and the server.
LEMMA LinksOfJoined ==
    ASSUME hubs \in [Hubs -> [Hubs -> Nat]], NEW h \in Hubs, NEW g \in Hubs, NEW p \in Hubs, NEW n,
           hubs' = [hubs EXCEPT ![g][p] = n], ~Joined(h), Joined(h)', Server \in Hubs
    PROVE  (g = h /\ p = Server) \/ (g = Server /\ p = h)
<1>1. hubs'[h][Server] # hubs[h][Server] \/ hubs'[Server][h] # hubs[Server][h]
  BY DEF Joined
<1>2. \A q, r \in Hubs : hubs'[q][r] # hubs[q][r] => q = g /\ r = p
  OBVIOUS
<1> QED
  BY <1>1, <1>2

\* The steps of calls.
LEMMA CallsKeepMeeting ==
    ASSUME Laboratory, Undisturbed, HubTyped, Calm, NEW m \in calls,
           \/ NodeAdded(m) \/ Distribute(m) \/ HubSkips(m) \/ DistributeNodes(m)
           \/ RemoveRefused(m) \/ RemoveNode(m) \/ Refresh(m) \/ RefreshDrop(m)
           \/ ConnectEnds(m)
    PROVE  KeepsMeeting
<1>m. /\ CallTypeOK(m) /\ CalmCall(m) /\ m.hub \in Hubs /\ m.dev \in Devices /\ up[m.hub]
      /\ nodes \in [Hubs -> SUBSET Devices] /\ Home \in [Devices -> Hubs]
      /\ collected \in [Devices -> [Devices -> Nat]] /\ hubs \in [Hubs -> [Hubs -> Nat]]
      /\ Server \in Hubs
  BY DEF HubTyped, Calm, CallTypeOK, Laboratory
<1>u. UNCHANGED <<up, life, killed>> /\ calls \ {m} \subseteq calls'
  BY DEF NodeAdded, Distribute, HubSkips, DistributeNodes, RemoveRefused, RemoveNode, Refresh,
         RefreshDrop, ConnectEnds, Becomes
<1>1. \A d \in Devices : Stays(d)' => Stays(d)
  <2>1. \A h \in Hubs : nodes'[h] \subseteq nodes[h]
    <3>1. UNCHANGED nodes \/ RemoveNode(m)
      BY DEF NodeAdded, Distribute, HubSkips, DistributeNodes, RemoveRefused, Refresh,
             RefreshDrop, ConnectEnds
    <3>2. RemoveNode(m) => \A h \in Hubs : nodes'[h] \subseteq nodes[h]
      BY <1>m DEF RemoveNode
    <3> QED
      BY <3>1, <3>2
  <2> QED
    BY <1>m, <1>u, <2>1 DEF Stays
<1>2. ASSUME NEW c \in Devices, NEW d \in Devices, Stays(c), Stays(d), Finds(c, d)
      PROVE  Finds(c, d)'
  <2>1. CASE Distribute(m)
    <3>1. m.op = "distribute" /\ collected' = Exchanged(m.hub, m.dev, m.ref)
      BY <2>1 DEF Distribute
    <3>2. m.ref # 0 /\ m.ref \in 0 .. life[Home[m.dev]] /\ life[Home[m.dev]] \in {0, 1}
      BY <1>m, <3>1, OneLife DEF CalmCall, CallTypeOK
    <3>3. m.ref = life[Home[m.dev]]
      BY <3>2
    <3> QED
      BY <1>m, <1>u, <1>2, <3>1, <3>3, ExchangeKeeps
  <2>2. CASE RemoveNode(m)
    <3>1. m.dev \in killed /\ c # m.dev /\ d # m.dev
      BY <1>m, <1>2, <2>2 DEF RemoveNode, CalmCall, Stays
    <3>2. collected'[c][d] = collected[c][d]
      BY <1>m, <2>2, <3>1 DEF RemoveNode
    <3> QED
      BY <1>u, <1>2, <3>2 DEF Finds
  <2>3. CASE RefreshDrop(m)
    <3>1. m.dev \in killed /\ d # m.dev
      BY <1>m, <1>2, <2>3 DEF RefreshDrop, CalmCall, Stays
    <3>2. collected'[c][d] = collected[c][d]
      BY <1>m, <2>3, <3>1 DEF RefreshDrop
    <3> QED
      BY <1>u, <1>2, <3>2 DEF Finds
  <2>4. CASE UNCHANGED collected
    BY <1>u, <1>2, <2>4 DEF Finds
  <2> QED
    BY <2>1, <2>2, <2>3, <2>4
       DEF NodeAdded, HubSkips, DistributeNodes, RemoveRefused, Refresh, ConnectEnds
<1>3. ASSUME NEW c \in Devices, NEW p, Stays(c), ~Joined(Home[c]), Joined(Home[c])'
      PROVE  \E k \in calls' : Brings(k, c, p)
  <2>1. UNCHANGED hubs \/ ConnectEnds(m)
    BY DEF NodeAdded, Distribute, HubSkips, DistributeNodes, RemoveRefused, RemoveNode, Refresh,
           RefreshDrop
  <2>2. ConnectEnds(m)
    BY <1>3, <2>1 DEF Joined
  <2>3. /\ m.op = "connect" /\ m.first \in Hubs /\ m.ref # 0 /\ m.ref \in 0 .. life[m.first]
        /\ m.hub # m.first /\ Server \in {m.hub, m.first}
        /\ hubs' = [hubs EXCEPT ![m.hub][m.first] = m.ref]
    BY <1>m, <2>2 DEF ConnectEnds, CallTypeOK, CalmCall
  <2>4. Home[c] # Server /\ {m.hub, m.first} = {Home[c], Server}
    <3>1. Home[c] \in Hubs /\ Home[c] # Server
      BY <1>m, <1>3 DEF Joined
    <3>2. \/ m.hub = Home[c] /\ m.first = Server
          \/ m.hub = Server /\ m.first = Home[c]
      BY <1>m, <2>3, <3>1, LinksOfJoined, <1>3
    <3> QED
      BY <3>1, <3>2
  <2>5. ProcessLives(m.first, m.ref)
    <3>1. life[m.first] \in {0, 1} /\ (up[m.first] <=> life[m.first] = 1)
      BY <2>3, OneLife
    <3> QED
      BY <2>3, <3>1 DEF ProcessLives
  <2>6. /\ Call("give", m.hub, AnyDevice, 0, {}, m.first) \in calls'
        /\ Call("give", m.first, AnyDevice, 0, {}, m.hub) \in calls'
    BY <2>2, <2>3, <2>5 DEF ConnectEnds, Becomes
  <2>7. Call("give", Home[c], AnyDevice, 0, {}, Server) \in calls'
    BY <2>4, <2>6
  <2>8. Brings(Call("give", Home[c], AnyDevice, 0, {}, Server), c, p)
    BY <2>4, CallFields DEF Brings
  <2> QED
    BY <2>7, <2>8
<1>4. ASSUME NEW c \in Devices, NEW d \in Devices, Stays(c), Stays(d), Home[c] # Home[d],
             Joined(Home[c]), Joined(Home[d]), NEW k \in calls, Brings(k, c, Home[d])
      PROVE  Met(c, d)' \/ \E j \in calls' : Brings(j, c, Home[d])
  <2>1. CASE k = m
    BY <1>4, <2>1, BringingGoesOn
  <2>2. CASE k # m
    BY <1>u, <1>4, <2>2
  <2> QED
    BY <2>1, <2>2
<1> QED
  BY <1>1, <1>2, <1>3, <1>4 DEF KeepsMeeting

\* A link that the task makes is one whose connect is under way.
LEMMA TaskKeepsMeeting ==
    ASSUME Laboratory, Undisturbed, HubTyped, Calm, NEW h \in Hubs,
           ConnectToTarget(h) \/ RefreshConnection(h)
    PROVE  KeepsMeeting
<1>s. /\ UNCHANGED <<up, life, nodes, killed, collected>> /\ hubs \in [Hubs -> [Hubs -> Nat]]
      /\ Server \in Hubs /\ Home \in [Devices -> Hubs] /\ calls \subseteq calls'
  BY DEF ConnectToTarget, RefreshConnection, Connect, HubTyped, Laboratory
<1>1. ASSUME NEW g \in Hubs, NEW p \in Hubs, NEW n, NEW connected, Connect(g, p, n, connected),
             g # p, Server \in {g, p}, NEW c \in Devices, NEW q, ~Joined(Home[c]),
             Joined(Home[c])'
      PROVE  \E k \in calls' : Brings(k, c, q)
  <2> DEFINE k == Call("connect", g, AnyDevice, n, connected \cap {p}, p)
  <2>1. hubs' = [hubs EXCEPT ![p][g] = life[g]] /\ k \in calls'
    BY <1>1 DEF Connect
  <2>2. Home[c] \in Hubs /\ Home[c] # Server
    BY <1>s, <1>1 DEF Joined
  <2>3. {g, p} = {Home[c], Server}
    <3>1. \/ p = Home[c] /\ g = Server
          \/ p = Server /\ g = Home[c]
      BY <1>s, <1>1, <2>1, <2>2, LinksOfJoined
    <3> QED
      BY <3>1
  <2>4. Brings(k, c, q)
    BY <2>2, <2>3, CallFields DEF Brings
  <2> QED
    BY <2>1, <2>4
<1>2. ASSUME NEW c \in Devices, NEW q, ~Joined(Home[c]), Joined(Home[c])'
      PROVE  \E k \in calls' : Brings(k, c, q)
  <2>1. ~UNCHANGED hubs
    BY <1>2 DEF Joined
  <2>2. CASE ConnectToTarget(h)
    BY <1>s, <1>1, <1>2, <2>2 DEF ConnectToTarget, CanConnect
  <2>3. CASE RefreshConnection(h)
    BY <1>s, <1>1, <1>2, <2>1, <2>3 DEF RefreshConnection, CanRefresh
  <2> QED
    BY <2>2, <2>3
<1>3. /\ \A d \in Devices : Stays(d)' => Stays(d)
      /\ \A c, d \in Devices : Finds(c, d) => Finds(c, d)'
  BY <1>s DEF Stays, Finds
<1> QED
  BY <1>s, <1>2, <1>3 DEF KeepsMeeting

\* The removal of a device, and the start of a process, neither make nor break a link.
LEMMA KillAndStartKeepMeeting ==
    ASSUME Laboratory, Undisturbed, HubTyped, NEW h \in Hubs,
           Start(h) \/ \E d \in Devices : KillDevice(h, d)
    PROVE  KeepsMeeting
<1>1. /\ UNCHANGED <<nodes, hubs, collected>> /\ killed \subseteq killed' /\ calls \subseteq calls'
      /\ \A g \in Hubs : up[g] => life'[g] = life[g]
      /\ Home \in [Devices -> Hubs]
  BY DEF Start, KillDevice, HubTyped, Laboratory
<1>2. \A d \in Devices : (Stays(d)' => Stays(d)) /\ (Stays(d) => up[Home[d]])
  BY <1>1, OneLife DEF Stays
<1>3. \A c, d \in Devices : Stays(c)' /\ Stays(d)' /\ Finds(c, d) => Finds(c, d)'
  BY <1>1, <1>2 DEF Finds
<1>4. \A g : Joined(g)' <=> Joined(g)
  BY <1>1 DEF Joined
<1> QED
  BY <1>1, <1>2, <1>3, <1>4 DEF KeepsMeeting

\* A device that is added meets those of its hub at once, and a call brings it to the others.
LEMMA AddNodeMeeting ==
    ASSUME Laboratory, Undisturbed, HubTyped, Calm, DevicesMeet, NEW h \in Hubs,
           NEW x \in Devices, AddNode(h, x)
    PROVE  DevicesMeet'
<1>1. /\ up[h] /\ Home[x] = h /\ UNCHANGED <<life, killed, hubs>> /\ x \notin nodes[h]
      /\ nodes' = [nodes EXCEPT ![h] = @ \cup {x}] /\ nodes \in [Hubs -> SUBSET Devices]
      /\ collected' = Exchanged(h, x, life[h])
      /\ calls' = calls \cup {Call("add", h, x, life[h], {}, h)}
      /\ Home \in [Devices -> Hubs]
  BY DEF AddNode, HubTyped, Laboratory
<1>2. \A c \in Devices : c # x /\ Stays(c)' => Stays(c)
  BY <1>1 DEF Stays
<1>3. \A c, d \in Devices : Finds(c, d) => Finds(c, d)'
  BY <1>1, ExchangeKeeps
<1>4. \A g : Joined(g)' <=> Joined(g)
  BY <1>1 DEF Joined
<1>5. ASSUME NEW c \in Devices, Stays(c)', c # x PROVE Met(c, x)' \/ WillMeet(c, x)'
  <2>1. CASE Home[c] # h
    <3>1. Brings(Call("add", h, x, life[h], {}, h), x, Home[c])
      BY <1>1, CallFields DEF Brings
    <3> QED
      BY <1>1, <2>1, <3>1 DEF WillMeet
  <2>2. CASE Home[c] = h
    <3>1. c \in nodes[h]
      BY <1>1, <1>2, <1>5, <2>2 DEF Stays
    <3>2. collected' = Offered(Offered(collected, nodes[h], {x}, life[h]), {x}, nodes[h], life[h])
      BY <1>1 DEF Exchanged
    <3>3. c \in Partners[x] => collected'[x][c] = life[h]
      BY <1>5, <3>1, <3>2 DEF Offered
    <3>4. x \in Partners[c] => collected'[c][x] = life[h]
      <4>1. x \in Partners[c] => Offered(collected, nodes[h], {x}, life[h])[c][x] = life[h]
        BY <1>5, <3>1 DEF Offered
      <4>2. collected'[c][x] = Offered(collected, nodes[h], {x}, life[h])[c][x]
        BY <1>5, <3>2 DEF Offered
      <4> QED
        BY <4>1, <4>2
    <3> QED
      BY <1>1, <2>2, <3>3, <3>4 DEF Met, Finds
  <2> QED
    BY <2>1, <2>2
<1>6. SUFFICES ASSUME NEW c \in Devices, NEW d \in Devices, Stays(c)', Stays(d)', c # d
               PROVE  (Met(c, d) \/ WillMeet(c, d))'
  BY DEF DevicesMeet
<1>7. CASE d = x
  BY <1>5, <1>6, <1>7
<1>8. CASE c = x
  <2>1. Met(d, x)' \/ WillMeet(d, x)'
    BY <1>5, <1>6, <1>8
  <2> QED
    BY <1>8, <2>1 DEF Met, WillMeet
<1>9. CASE c # x /\ d # x
  <2>1. Met(c, d) \/ WillMeet(c, d)
    BY <1>2, <1>6, <1>9 DEF DevicesMeet
  <2>2. Met(c, d) => Met(c, d)'
    BY <1>3 DEF Met
  <2>3. WillMeet(c, d) => WillMeet(c, d)'
    BY <1>1, <1>4 DEF WillMeet
  <2> QED
    BY <2>1, <2>2, <2>3
<1> QED
  BY <1>7, <1>8, <1>9

\* Every step keeps the devices that stay together, or on the way to each other.
LEMMA HubStepMeeting ==
    ASSUME Laboratory, Undisturbed, HubTyped, Calm, DevicesMeet, [HubNext]_hubVars
    PROVE  DevicesMeet'
<1>1. ASSUME HubCall PROVE DevicesMeet'
  BY <1>1, CallsKeepMeeting, MeetingKept DEF HubCall
<1>2. ASSUME HubTask PROVE DevicesMeet'
  BY <1>2, TaskKeepsMeeting, MeetingKept DEF HubTask
<1>3. ASSUME \E h \in Hubs : Start(h) \/ Crash(h) PROVE DevicesMeet'
  BY <1>3, OneLife, KillAndStartKeepMeeting, MeetingKept
<1>4. ASSUME \E h \in Hubs, d \in Devices : AddNode(h, d) \/ KillDevice(h, d) PROVE DevicesMeet'
  BY <1>4, AddNodeMeeting, KillAndStartKeepMeeting, MeetingKept
<1>5. ASSUME UNCHANGED hubVars PROVE DevicesMeet'
  BY <1>5 DEF hubVars, DevicesMeet, Stays, Met, Finds, WillMeet, Joined
<1> QED
  BY <1>1, <1>2, <1>3, <1>4, <1>5 DEF HubNext

\* At rest all hubs that run are joined and no call is left: the devices that are there have
\* met.
LEMMA MeetingEnds ==
    ASSUME Laboratory, Undisturbed, HubTyped, Calm, DevicesMeet PROVE DevicesAreFound
<1>1. SUFFICES ASSUME AtRest, NEW s \in Acquainted PROVE Finds(s[1], s[2])
  BY DEF DevicesAreFound
<1>2. calls = {} /\ up[Server] /\ \A h \in Hubs : up[h] => Linked(h)
  BY <1>1 DEF AtRest, AllRun
<1>3. /\ s[1] \in Devices /\ s[2] \in Devices /\ s[1] \in nodes[Home[s[1]]]
      /\ s[2] \in nodes[Home[s[2]]] /\ s[2] \in Partners[s[1]]
  BY <1>1 DEF Acquainted
<1>4. Stays(s[1]) /\ Stays(s[2]) /\ s[1] # s[2]
  BY <1>2, <1>3 DEF Calm, Stays, Undisturbed
<1>5. Joined(Home[s[1]]) /\ Joined(Home[s[2]])
  <2>1. \A h \in Hubs : up[h] => life[h] = 1
    BY OneLife
  <2>2. up[Home[s[1]]] /\ up[Home[s[2]]] /\ {Home[s[1]], Home[s[2]], Server} \subseteq Hubs
    BY <1>3 DEF HubTyped, Laboratory
  <2> QED
    BY <1>2, <2>1, <2>2 DEF Linked, Joined
<1>6. ~WillMeet(s[1], s[2])
  BY <1>2, <1>3, <1>5 DEF WillMeet, Laboratory
<1>7. Met(s[1], s[2])
  BY <1>3, <1>4, <1>6 DEF DevicesMeet
<1> QED
  BY <1>3, <1>7 DEF Met

\* When the hubs that run are connected and no call is left, every device has a reference to
\* each partner that is there: in laboratories of any size, where devices come and go and processes
\* start in any order, but none crashes and no living device is taken for dead.
THEOREM DevicesMeetAtRest ==
    ASSUME Laboratory, Undisturbed PROVE HubSpec => []DevicesAreFound
<1>1. HubInit => MeetingInv
  <2>1. ASSUME HubInit PROVE OwnDevices /\ Calm /\ DevicesMeet
    <3>1. calls = {} /\ killed = {} /\ \A h \in Hubs : nodes[h] = {}
      BY <2>1 DEF HubInit
    <3>2. \A h, p \in Hubs : hubs[h][p] = 0
      BY <2>1 DEF HubInit
    <3>3. \A c, d \in Devices : collected[c][d] = 0
      BY <2>1 DEF HubInit, NoReferences
    <3>4. \A d \in Devices : ~Stays(d)
      BY <3>1 DEF Stays, Laboratory
    <3> QED
      BY <3>1, <3>2, <3>3, <3>4 DEF OwnDevices, OwnReference, Calm, DevicesMeet
  <2> QED
    BY <2>1, HubInitTyped DEF MeetingInv
<1>2. MeetingInv /\ [HubNext]_hubVars => MeetingInv'
  BY HubStepTyped, HubStepOwned, HubStepCalm, HubStepMeeting DEF MeetingInv
<1>3. MeetingInv => DevicesAreFound
  BY MeetingEnds DEF MeetingInv
<1> QED
  BY <1>1, <1>2, <1>3, PTL DEF HubSpec

-----------------------------------------------------------------------------
(* Two hubs that crash and start again. *)

\* With two hubs, each is one of any two that differ.
LEMMA OneOfTwo ==
    ASSUME Laboratory, TwoHubs, NEW g \in Hubs, NEW h \in Hubs, g # h
    PROVE  Server \in {g, h} /\ \A p \in Hubs : p \in {g, h}
BY DEF Laboratory, TwoHubs

\* So a call that was at one of them is not forwarded by the other.
LEMMA NotForwarded ==
    ASSUME Laboratory, TwoHubs, NEW m, CallTypeOK(m), m.trace # {}, m.hub \notin m.trace, NEW op
    PROVE  Forwarded(op, m) = {}
<1>1. PICK g \in m.trace : g \in Hubs /\ g # m.hub /\ m.hub \in Hubs
  BY DEF CallTypeOK
<1>2. HubsOf(m.hub) \ (m.trace \cup {m.hub}) = {}
  BY <1>1, OneOfTwo DEF HubsOf
<1> QED
  BY <1>2 DEF Forwarded

\* What a call says stays true while no device is added and no process starts or ends.
LEMMA CurrentCallStays ==
    ASSUME Laboratory, UNCHANGED <<up, life>>, \A h \in Hubs : nodes'[h] \subseteq nodes[h],
           killed \subseteq killed', NEW k, k.dev \in Devices, CurrentCall(k)
    PROVE  CurrentCall(k)'
BY DEF CurrentCall, Laboratory

\* What a call that has begun leaves as it is.
LEMMA CallsLeave ==
    ASSUME HubTyped, NEW m \in calls,
           \/ NodeAdded(m) \/ Distribute(m) \/ HubSkips(m) \/ DistributeNodes(m)
           \/ RemoveRefused(m) \/ RemoveNode(m) \/ Refresh(m) \/ RefreshDrop(m)
           \/ ConnectEnds(m)
    PROVE  /\ UNCHANGED <<up, life, killed>> /\ calls \ {m} \subseteq calls'
           /\ refused \subseteq refused'
           /\ \A h \in Hubs : nodes'[h] \subseteq nodes[h]
           /\ UNCHANGED hubs \/ ConnectEnds(m)
           /\ UNCHANGED collected \/ Distribute(m) \/ RemoveNode(m) \/ RefreshDrop(m)
<1>1. UNCHANGED <<up, life, killed>> /\ calls \ {m} \subseteq calls' /\ refused \subseteq refused'
  BY DEF NodeAdded, Distribute, HubSkips, DistributeNodes, RemoveRefused, RemoveNode, Refresh,
         RefreshDrop, ConnectEnds, Becomes
<1>2. UNCHANGED nodes \/ RemoveNode(m)
  BY DEF NodeAdded, Distribute, HubSkips, DistributeNodes, RemoveRefused, Refresh, RefreshDrop,
         ConnectEnds
<1>3. RemoveNode(m) => \A h \in Hubs : nodes'[h] \subseteq nodes[h]
  BY DEF RemoveNode, HubTyped
<1>4. UNCHANGED hubs \/ ConnectEnds(m)
  BY DEF NodeAdded, Distribute, HubSkips, DistributeNodes, RemoveRefused, RemoveNode, Refresh,
         RefreshDrop
<1>5. UNCHANGED collected \/ Distribute(m) \/ RemoveNode(m) \/ RefreshDrop(m)
  BY DEF NodeAdded, HubSkips, DistributeNodes, RemoveRefused, Refresh, ConnectEnds
<1> QED
  BY <1>1, <1>2, <1>3, <1>4, <1>5

\* The calls that a call makes say what they should.
LEMMA NewCallsCurrent ==
    ASSUME Laboratory, TwoHubs, HubTyped, OwnDevices, Current, NEW m \in calls,
           \/ NodeAdded(m) \/ Distribute(m) \/ HubSkips(m) \/ DistributeNodes(m)
           \/ RemoveRefused(m) \/ RemoveNode(m) \/ Refresh(m) \/ RefreshDrop(m)
           \/ ConnectEnds(m),
           NEW k \in calls', k \notin calls
    PROVE  CurrentCall(k)'
<1>m. /\ CallTypeOK(m) /\ CurrentCall(m) /\ OwnCall(m) /\ m.hub \in Hubs /\ m.dev \in Devices
      /\ UNCHANGED <<up, life, killed>>
      /\ \A e \in nodes[m.hub] : e \in Devices /\ Home[e] = m.hub
  BY CallsLeave DEF HubTyped, Current, OwnDevices, CallTypeOK
<1>r. RefreshCall(m.hub).op = "refresh"
  BY CallFields DEF RefreshCall
<1>f. ASSUME NEW op \in {"distribute", "remove", "refresh"}, NEW j \in Forwarded(op, m),
             m.op \notin {"drop", "connect"}
      PROVE  j.op = op /\ j.dev = m.dev /\ j.ref = m.ref /\ j.trace = m.trace \cup {m.hub}
  BY <1>m, <1>f, ForwardedCalls
<1>1. CASE NodeAdded(m)
  <2>1. m.op = "add" /\ k \in Forwarded("distribute", m) \cup {RefreshCall(m.hub)}
    BY <1>1 DEF NodeAdded, Becomes
  <2> QED
    BY <1>m, <1>r, <1>f, <2>1 DEF CurrentCall
<1>2. CASE Distribute(m)
  <2>1. m.op = "distribute" /\ k \in Forwarded("distribute", m)
    BY <1>2 DEF Distribute, Becomes
  <2> QED
    BY <1>m, <1>f, <2>1 DEF CurrentCall
<1>3. CASE HubSkips(m)
  BY <1>3 DEF HubSkips, Becomes
<1>4. CASE DistributeNodes(m)
  <2>1. PICK d \in nodes[m.hub] :
            k = Call("distribute", m.first, d, life[m.hub], {m.hub}, m.hub)
    BY <1>4 DEF DistributeNodes, Becomes
  <2> QED
    BY <1>m, <2>1, CallFields DEF CurrentCall
<1>5. CASE RemoveRefused(m)
  <2>1. /\ k = Call("distribute", m.hub, m.dev, life[m.hub], {}, m.first)
        /\ Home[m.dev] = m.hub
    BY <1>5, <1>m DEF RemoveRefused, Becomes, MustStay
  <2> QED
    BY <1>m, <2>1, CallFields DEF CurrentCall
<1>6. CASE RemoveNode(m)
  <2>1. /\ m.op = "remove" /\ k \in Forwarded("remove", m) /\ m.hub \notin m.trace
        /\ nodes' = [nodes EXCEPT ![m.hub] = @ \ {m.dev}] /\ nodes \in [Hubs -> SUBSET Devices]
    BY <1>6 DEF RemoveNode, Becomes, ShortCircuits, HubTyped
  <2>2. m.trace = {}
    BY <1>m, <2>1, NotForwarded
  <2>3. k.op = "remove" /\ k.dev = m.dev /\ k.trace = {m.hub}
    BY <1>f, <2>1, <2>2
  <2>4. Home[m.dev] = m.hub => m.dev \in killed' /\ m.dev \notin nodes'[m.hub]
    BY <1>m, <2>1, <2>2 DEF OwnCall
  <2> QED
    BY <2>3, <2>4 DEF CurrentCall
<1>7. CASE Refresh(m)
  <2>1. PICK slow : k \in {Call("drop", m.hub, r[2], 0, {}, r[1]) : r \in Silent(m.hub, slow)}
                           \cup Forwarded("refresh", m)
    BY <1>7 DEF Refresh, Becomes
  <2>2. ASSUME NEW r \in Silent(m.hub, slow), k = Call("drop", m.hub, r[2], 0, {}, r[1])
        PROVE  CurrentCall(k)'
    <3>1. Home[r[1]] = m.hub
      BY <1>m, <2>2 DEF Silent
    <3> QED
      BY <2>2, <3>1, CallFields DEF CurrentCall
  <2>3. k \in Forwarded("refresh", m) => k.op = "refresh"
    BY <1>7, <1>f DEF Refresh
  <2> QED
    BY <2>1, <2>2, <2>3 DEF CurrentCall
<1>8. CASE RefreshDrop(m)
  <2>1. k = Call("remove", m.hub, m.dev, 0, {}, m.hub)
    BY <1>8 DEF RefreshDrop, Becomes
  <2> QED
    BY <2>1, CallFields DEF CurrentCall
<1>9. CASE ConnectEnds(m)
  <2>1. k.op \in {"give", "refresh"}
    BY <1>9, <1>r, CallFields DEF ConnectEnds, Becomes
  <2> QED
    BY <2>1 DEF CurrentCall
<1> QED
  BY <1>1, <1>2, <1>3, <1>4, <1>5, <1>6, <1>7, <1>8, <1>9

\* The steps of calls.
LEMMA CallsStayCurrent ==
    ASSUME Laboratory, TwoHubs, HubTyped, OwnDevices, Current, NEW m \in calls,
           \/ NodeAdded(m) \/ Distribute(m) \/ HubSkips(m) \/ DistributeNodes(m)
           \/ RemoveRefused(m) \/ RemoveNode(m) \/ Refresh(m) \/ RefreshDrop(m)
           \/ ConnectEnds(m)
    PROVE  Current'
<1>1. /\ UNCHANGED <<up, life, killed>> /\ calls \ {m} \subseteq calls'
      /\ \A h \in Hubs : nodes'[h] \subseteq nodes[h]
      /\ Home \in [Devices -> Hubs] /\ killed \in SUBSET Devices
  BY CallsLeave DEF Laboratory, HubTyped
<1>2. ASSUME NEW k \in calls' PROVE CurrentCall(k)'
  <2>1. CASE k \in calls
    <3>1. k.dev \in Devices /\ CurrentCall(k)
      BY <2>1 DEF HubTyped, CallTypeOK, Current
    <3> QED
      BY <1>1, <3>1, CurrentCallStays
  <2> QED
    BY <1>2, <2>1, NewCallsCurrent
<1>3. ASSUME NEW d \in killed', d \in nodes'[Home[d]]
      PROVE  \E j \in calls' : OwnRemoval(j, d)
  <2>1. PICK j \in calls : OwnRemoval(j, d)
    BY <1>1, <1>3 DEF Current
  <2>2. j # m
    <3>1. SUFFICES ASSUME j = m PROVE FALSE
      OBVIOUS
    <3>2. m.op = "remove" /\ m.trace = {} /\ m.dev = d /\ m.hub = Home[d]
      BY <2>1, <3>1 DEF OwnRemoval
    <3>3. RemoveNode(m)
      BY <3>2 DEF NodeAdded, Distribute, HubSkips, DistributeNodes, RemoveRefused, MustStay,
                  Refresh, RefreshDrop, ConnectEnds, ShortCircuits
    <3> QED
      BY <1>1, <1>3, <3>2, <3>3 DEF RemoveNode, HubTyped
  <2> QED
    BY <1>1, <2>1, <2>2
<1> QED
  BY <1>2, <1>3 DEF Current

\* Where nothing but links and calls changes, new calls are all that asks for something.
LEMMA OthersStayCurrent ==
    ASSUME Laboratory, HubTyped, Current, UNCHANGED <<up, life, nodes, killed>>,
           calls \subseteq calls', \A k \in calls' : k \in calls \/ CurrentCall(k)
    PROVE  Current'
BY DEF Current, CurrentCall

\* The steps of the owners.
LEMMA OwnersStayCurrent ==
    ASSUME Laboratory, HubTyped, Current, NEW h \in Hubs, NEW d \in Devices,
           AddNode(h, d) \/ KillDevice(h, d)
    PROVE  Current'
<1>m. \A k \in calls : k.dev \in Devices /\ CurrentCall(k)
  BY DEF HubTyped, CallTypeOK, Current
<1>s. Home \in [Devices -> Hubs] /\ nodes \in [Hubs -> SUBSET Devices] /\ killed \in SUBSET Devices
  BY DEF Laboratory, HubTyped
<1>1. CASE AddNode(h, d)
  <2>1. /\ up[h] /\ Home[d] = h /\ d \notin killed /\ UNCHANGED <<up, life, killed>>
        /\ nodes' = [nodes EXCEPT ![h] = @ \cup {d}]
        /\ calls' = calls \cup {Call("add", h, d, life[h], {}, h)}
    BY <1>1 DEF AddNode
  <2>2. CurrentCall(Call("add", h, d, life[h], {}, h))'
    BY <2>1, CallFields DEF CurrentCall
  <2>3. \A e \in Devices \ {d} : e \in nodes'[Home[e]] <=> e \in nodes[Home[e]]
    BY <1>s, <2>1
  <2>4. \A k \in calls : CurrentCall(k)'
    <3>1. SUFFICES ASSUME NEW k \in calls PROVE CurrentCall(k)'
      OBVIOUS
    <3>2. k.op = "remove" /\ Home[k.dev] \in k.trace => k.dev # d
      BY <1>m, <2>1 DEF CurrentCall
    <3> QED
      BY <1>m, <2>1, <2>3, <3>2 DEF CurrentCall
  <2>5. \A e \in killed' : e \in nodes'[Home[e]] => \E k \in calls' : OwnRemoval(k, e)
    BY <1>s, <2>1, <2>3 DEF Current
  <2> QED
    BY <2>1, <2>2, <2>4, <2>5 DEF Current
<1>2. CASE KillDevice(h, d)
  <2>1. /\ Home[d] = h /\ UNCHANGED <<up, life, nodes>> /\ killed' = killed \cup {d}
        /\ calls' = calls \cup {Call("remove", h, d, life[h], {}, h)}
    BY <1>2 DEF KillDevice, HubTyped
  <2>2. CurrentCall(Call("remove", h, d, life[h], {}, h))'
    BY <2>1, CallFields DEF CurrentCall
  <2>3. \A k \in calls : CurrentCall(k)'
    BY <1>m, <2>1, CurrentCallStays
  <2>4. OwnRemoval(Call("remove", h, d, life[h], {}, h), d)
    BY <2>1, CallFields DEF OwnRemoval
  <2>5. \A e \in killed' : e \in nodes'[Home[e]] => \E k \in calls' : OwnRemoval(k, e)
    BY <2>1, <2>4 DEF Current
  <2> QED
    BY <2>1, <2>2, <2>3, <2>5 DEF Current
<1> QED
  BY <1>1, <1>2

\* A process that ends takes its devices with it, those that a removal is about too.
LEMMA CrashCurrent ==
    ASSUME Laboratory, HubTyped, Current, NEW x \in Hubs, Crash(x)
    PROVE  Current'
<1>1. /\ UNCHANGED life /\ killed' = {d \in killed : Home[d] # x}
      /\ nodes' = [nodes EXCEPT ![x] = {}] /\ up' = [up EXCEPT ![x] = FALSE]
      /\ calls' = {m \in calls : m.hub # x}
      /\ nodes \in [Hubs -> SUBSET Devices] /\ up \in [Hubs -> BOOLEAN]
      /\ Home \in [Devices -> Hubs] /\ killed \in SUBSET Devices
  BY DEF Crash, HubTyped, Laboratory
<1>2. ASSUME NEW k \in calls' PROVE CurrentCall(k)'
  <2>1. k \in calls /\ k.dev \in Devices /\ CurrentCall(k)
    BY <1>1 DEF HubTyped, CallTypeOK, Current
  <2>2. CASE Home[k.dev] = x
    BY <1>1, <2>1, <2>2 DEF CurrentCall
  <2>3. CASE Home[k.dev] # x
    BY <1>1, <2>1, <2>3 DEF CurrentCall
  <2> QED
    BY <2>2, <2>3
<1>3. ASSUME NEW d \in killed', d \in nodes'[Home[d]]
      PROVE  \E k \in calls' : OwnRemoval(k, d)
  <2>1. d \in killed /\ Home[d] # x /\ d \in nodes[Home[d]]
    BY <1>1, <1>3
  <2>2. PICK k \in calls : OwnRemoval(k, d)
    BY <2>1 DEF Current
  <2> QED
    BY <1>1, <2>1, <2>2 DEF OwnRemoval
<1> QED
  BY <1>2, <1>3 DEF Current

\* A process does not start before the calls of its earlier life have ended: no offer of a device
\* is of that life, and no removal.
LEMMA StartCurrent ==
    ASSUME Laboratory, HubTyped, OwnDevices, Current, NEW x \in Hubs, Start(x)
    PROVE  Current'
<1>1. /\ UNCHANGED <<nodes, calls, killed>> /\ ~up[x]
      /\ \A m \in calls : x \notin m.trace
      /\ \A h \in Hubs \ {x} : up'[h] = up[h] /\ life'[h] = life[h]
      /\ Home \in [Devices -> Hubs]
  BY DEF Start, HubTyped, Laboratory
<1>2. ASSUME NEW k \in calls PROVE CurrentCall(k)'
  <2>1. CurrentCall(k) /\ OwnCall(k) /\ k.dev \in Devices /\ up[k.hub] /\ k.hub \in Hubs
    BY DEF HubTyped, CallTypeOK, Current, OwnDevices
  <2>2. k.op \in {"add", "distribute"} => Home[k.dev] # x
    BY <1>1, <2>1 DEF OwnCall
  <2>3. Home[k.dev] \in k.trace => Home[k.dev] # x
    BY <1>1
  <2>4. k.op \in {"add", "distribute"} => k.ref = life'[Home[k.dev]]
    BY <1>1, <2>1, <2>2 DEF CurrentCall
  <2> QED
    BY <1>1, <2>1, <2>3, <2>4 DEF CurrentCall
<1> QED
  BY <1>1, <1>2 DEF Current

\* Every step keeps the calls current.
LEMMA HubStepCurrent ==
    ASSUME Laboratory, TwoHubs, HubTyped, OwnDevices, Current, [HubNext]_hubVars
    PROVE  Current'
<1>1. ASSUME HubCall PROVE Current'
  BY <1>1, CallsStayCurrent DEF HubCall
<1>2. ASSUME HubTask PROVE Current'
  <2>1. PICK h \in Hubs : ConnectToTarget(h) \/ RefreshConnection(h)
    BY <1>2 DEF HubTask
  <2>2. /\ UNCHANGED <<up, life, nodes, killed>>
        /\ UNCHANGED <<hubs, calls>> \/ \E g, p \in Hubs : NewLink(g, p)
    BY <2>1, TaskLinks
  <2>3. calls \subseteq calls' /\ \A k \in calls' : k \in calls \/ k.op = "connect"
    BY <2>2, CallFields DEF NewLink
  <2>4. \A k \in calls' : k \in calls \/ CurrentCall(k)
    BY <2>3 DEF CurrentCall
  <2> QED
    BY <2>2, <2>3, <2>4, OthersStayCurrent
<1>3. ASSUME \E h \in Hubs : Start(h) \/ Crash(h) PROVE Current'
  BY <1>3, StartCurrent, CrashCurrent
<1>4. ASSUME \E h \in Hubs, d \in Devices : AddNode(h, d) \/ KillDevice(h, d) PROVE Current'
  BY <1>4, OwnersStayCurrent
<1>5. ASSUME UNCHANGED hubVars PROVE Current'
  BY <1>5 DEF hubVars, Current, CurrentCall
<1> QED
  BY <1>1, <1>2, <1>3, <1>4, <1>5 DEF HubNext

\* Hubs that are paired forward calls to each other.
LEMMA PairedHubs ==
    ASSUME HubTyped, NEW g \in Hubs, NEW h \in Hubs, up[g], up[h], Paired(g, h)
    PROVE  /\ h \in HubsOf(g) /\ ProcessLives(h, hubs[g][h])
           /\ g \in HubsOf(h) /\ ProcessLives(g, hubs[h][g])
BY DEF HubTyped, Paired, HubsOf, HubConnected, ProcessLives

\* A call that brings a device to the other hub leads there, or they have met.
LEMMA BringingSettles ==
    ASSUME Laboratory, TwoHubs, HubTyped, Links, Current, NEW m \in calls, NEW c \in Devices,
           NEW d \in Devices, Stays(c), Stays(d), Home[c] # Home[d], Paired(Home[c], Home[d]),
           Brings(m, c, Home[d]),
           \/ NodeAdded(m) \/ Distribute(m) \/ HubSkips(m) \/ DistributeNodes(m)
           \/ RemoveRefused(m) \/ RemoveNode(m) \/ Refresh(m) \/ RefreshDrop(m)
           \/ ConnectEnds(m)
    PROVE  Met(c, d)' \/ \E k \in calls' : Brings(k, c, Home[d])
<1> DEFINE A == Home[c] B == Home[d]
<1>h. /\ A \in Hubs /\ B \in Hubs /\ A # B /\ Server \in {A, B}
      /\ c \in nodes[A] /\ d \in nodes[B] /\ up[A] /\ up[B]
  <2>1. A \in Hubs /\ B \in Hubs /\ c \in nodes[A] /\ d \in nodes[B]
    BY DEF Laboratory, Stays
  <2> QED
    BY <2>1, OneOfTwo DEF HubTyped
<1>a. B \in HubsOf(A) /\ ProcessLives(B, hubs[A][B])
  BY <1>h, PairedHubs
<1>m. CallTypeOK(m) /\ CurrentCall(m)
  BY DEF HubTyped, Current
<1> HIDE DEF A, B
<1>1. CASE NodeAdded(m)
  <2> DEFINE k == Call("distribute", B, c, m.ref, {A}, A)
  <2>1. m.op = "add" /\ m.dev = c /\ m.hub = A /\ m.trace = {} /\ m.first = A
    BY <1>1, <1>m DEF NodeAdded, Brings, CurrentCall, A
  <2>2. Call("distribute", B, m.dev, m.ref, m.trace \cup {m.hub}, m.first) = k
    BY <2>1
  <2>3. k \in calls'
    BY <1>1, <1>h, <1>a, <2>1, <2>2, IsForwarded DEF NodeAdded, Becomes
  <2>4. Brings(k, c, B)
    BY <1>h, CallFields DEF Brings, A
  <2> QED
    BY <2>3, <2>4 DEF B
<1>2. CASE Distribute(m)
  <2>1. /\ m.op = "distribute" /\ m.dev = c /\ A \in m.trace
        /\ m.hub \in {Server, B} \ m.trace
    BY <1>2 DEF Distribute, Brings, A, B
  <2>2. m.hub = B /\ m.ref = life[A]
    BY <1>h, <1>m, <2>1 DEF CurrentCall, A
  <2> DEFINE n == life[A]
  <2>3. DeviceLives(c, n)
    BY <1>h DEF DeviceLives, ProcessLives, A
  <2> HIDE DEF n
  <2>4. /\ UNCHANGED life
        /\ collected' = Offered(Offered(collected, nodes[B], {c}, n), {c}, nodes[B], life[B])
    BY <1>2, <2>1, <2>2, <2>3 DEF Distribute, Exchanged, n
  <2>5. c # d
    BY <1>h DEF A, B
  <2>6. d \in Partners[c] => collected'[c][d] = life[B]
    BY <1>h, <2>4, <2>5 DEF Offered
  <2>7. c \in Partners[d] => collected'[d][c] = n
    <3>1. c \in Partners[d] => Offered(collected, nodes[B], {c}, n)[d][c] = n
      BY <1>h, <2>5 DEF Offered
    <3>2. collected'[d][c] = Offered(collected, nodes[B], {c}, n)[d][c]
      BY <2>4, <2>5 DEF Offered
    <3> QED
      BY <3>1, <3>2
  <2> QED
    BY <2>4, <2>6, <2>7 DEF Met, Finds, A, B, n
<1>3. CASE HubSkips(m)
  BY <1>3 DEF HubSkips, ShortCircuits, Brings
<1>4. CASE DistributeNodes(m)
  <2> DEFINE k == Call("distribute", B, c, life[A], {A}, A)
  <2>1. m.op = "give" /\ A # Server /\ m.hub = A /\ m.first = Server /\ B = Server
    BY <1>4, <1>h DEF DistributeNodes, Brings, A
  <2>2. k \in calls'
    BY <1>4, <1>h, <1>a, <2>1 DEF DistributeNodes, Becomes
  <2>3. Brings(k, c, B)
    BY <1>h, CallFields DEF Brings, A
  <2> QED
    BY <2>2, <2>3 DEF B
<1>5. CASE RemoveRefused(m) \/ RemoveNode(m) \/ Refresh(m) \/ RefreshDrop(m)
  BY <1>5 DEF RemoveRefused, RemoveNode, Refresh, RefreshDrop, Brings
<1>6. CASE ConnectEnds(m)
  <2>1. m.op = "connect" /\ A # Server /\ {m.hub, m.first} = {A, Server}
    BY <1>6 DEF ConnectEnds, Brings, A
  <2>2. ProcessLives(m.first, m.ref) /\ m.first \in Hubs
    BY <1>h, <2>1 DEF Links, ProcessLives
  <2>3. /\ Call("give", m.hub, AnyDevice, 0, {}, m.first) \in calls'
        /\ Call("give", m.first, AnyDevice, 0, {}, m.hub) \in calls'
    BY <1>6, <2>2 DEF ConnectEnds, Becomes
  <2> DEFINE k == Call("give", A, AnyDevice, 0, {}, Server)
  <2>4. k \in calls'
    BY <2>1, <2>3
  <2>5. Brings(k, c, B)
    BY <2>1, CallFields DEF Brings, A
  <2> QED
    BY <2>4, <2>5 DEF B
<1> QED
  BY <1>1, <1>2, <1>3, <1>4, <1>5, <1>6

\* A removal that takes the device for dead reaches its owner, who refuses it.
LEMMA AccusingSettles ==
    ASSUME Laboratory, HubTyped, NEW m \in calls, NEW p \in Hubs, NEW d \in Devices, Stays(d),
           up[p],
           p # Home[d], Paired(p, Home[d]), Accuses(m, d, p),
           \/ NodeAdded(m) \/ Distribute(m) \/ HubSkips(m) \/ DistributeNodes(m)
           \/ RemoveRefused(m) \/ RemoveNode(m) \/ Refresh(m) \/ RefreshDrop(m)
           \/ ConnectEnds(m)
    PROVE  d \in refused' \/ \E k \in calls' : Accuses(k, d, p)
<1>1. /\ m.op = "remove" /\ m.dev = d /\ m.hub \notin m.trace
      /\ (m.hub = p /\ m.trace = {}) \/ (m.hub = Home[d] /\ m.trace = {p})
      /\ Home[d] \in Hubs /\ d \in nodes[Home[d]] /\ up[Home[d]]
  BY DEF Accuses, Stays, HubTyped, Laboratory
<1>2. RemoveRefused(m) \/ RemoveNode(m)
  BY <1>1 DEF NodeAdded, Distribute, HubSkips, ShortCircuits, DistributeNodes, Refresh, RefreshDrop,
              ConnectEnds
<1>3. CASE RemoveRefused(m)
  BY <1>1, <1>3 DEF RemoveRefused
<1>4. CASE RemoveNode(m)
  <2> DEFINE k == Call("remove", Home[d], d, m.ref, {p}, m.first)
  <2>1. m.hub = p /\ m.trace = {}
    BY <1>1, <1>4 DEF RemoveNode, MustStay
  <2>2. Home[d] \in HubsOf(p) /\ ProcessLives(Home[d], hubs[p][Home[d]])
    BY <1>1, PairedHubs
  <2>3. Call("remove", Home[d], m.dev, m.ref, m.trace \cup {m.hub}, m.first) = k
    BY <1>1, <2>1
  <2>4. k \in calls'
    BY <1>1, <1>4, <2>1, <2>2, <2>3, IsForwarded DEF RemoveNode, Becomes
  <2>5. Accuses(k, d, p)
    BY CallFields DEF Accuses
  <2> QED
    BY <2>4, <2>5
<1> QED
  BY <1>2, <1>3, <1>4

\* A reference to a device that stays is lost only to a removal that takes this for dead.
LEMMA ReferenceStays ==
    ASSUME Laboratory, TwoHubs, HubTyped, OwnDevices, Current, NEW m \in calls, NEW c \in Devices,
           NEW d \in Devices, Stays(c), Stays(d), Stays(c)', Stays(d)', Finds(c, d),
           \/ NodeAdded(m) \/ Distribute(m) \/ HubSkips(m) \/ DistributeNodes(m)
           \/ RemoveRefused(m) \/ RemoveNode(m) \/ Refresh(m) \/ RefreshDrop(m)
           \/ ConnectEnds(m)
    PROVE  Finds(c, d)' \/ WillFind(c, d)'
<1>m. /\ CallTypeOK(m) /\ CurrentCall(m) /\ OwnCall(m) /\ m.hub \in Hubs /\ m.dev \in Devices
      /\ up[m.hub] /\ UNCHANGED <<up, life, killed>>
      /\ Home[c] \in Hubs /\ Home[d] \in Hubs /\ c \in nodes[Home[c]] /\ d \in nodes[Home[d]]
      /\ \A e \in nodes[m.hub] : Home[e] = m.hub
      /\ c \in nodes'[Home[c]] /\ d \in nodes'[Home[d]] /\ d \notin killed
      /\ nodes \in [Hubs -> SUBSET Devices] /\ collected \in [Devices -> [Devices -> Nat]]
      /\ up[Home[c]] /\ up[Home[d]]
  BY CallsLeave DEF HubTyped, Current, OwnDevices, CallTypeOK, Laboratory, Stays
<1>1. CASE Distribute(m)
  <2>1. m.ref = life[Home[m.dev]] /\ collected' = Exchanged(m.hub, m.dev, m.ref)
    BY <1>m, <1>1 DEF Distribute, CurrentCall
  <2> QED
    BY <1>m, <2>1, ExchangeKeeps
<1>2. CASE RemoveNode(m)
  <2>1. /\ m.op = "remove" /\ m.hub \notin m.trace /\ UNCHANGED hubs
        /\ nodes' = [nodes EXCEPT ![m.hub] = @ \ {m.dev}]
    BY <1>2 DEF RemoveNode, ShortCircuits
  <2>2. CASE c \in nodes[m.hub] /\ d = m.dev
    <3>1. m.hub = Home[c] /\ Home[c] # Home[d]
      BY <1>m, <2>1, <2>2
    <3>2. m.trace = {}
      <4>1. SUFFICES ASSUME NEW g \in m.trace PROVE FALSE
        BY <1>m DEF CallTypeOK
      <4>2. g \in Hubs /\ g # Home[c]
        BY <1>m, <2>1, <3>1, <4>1 DEF CallTypeOK
      <4>3. g = Home[d]
        BY <1>m, <3>1, <4>2, OneOfTwo
      <4> QED
        BY <1>m, <2>1, <2>2, <4>1, <4>3 DEF CurrentCall
    <3>3. Accuses(m, d, Home[c])
      BY <2>1, <2>2, <3>1, <3>2 DEF Accuses
    <3>4. CASE Paired(Home[c], Home[d])
      <4>1. d \in refused' \/ \E k \in calls' : Accuses(k, d, Home[c])
        BY <1>m, <3>1, <3>3, <3>4, AccusingSettles
      <4> QED
        BY <3>1, <4>1 DEF WillFind, Settles
    <3>5. CASE ~Paired(Home[c], Home[d])
      BY <1>m, <2>1, <3>1, <3>5 DEF WillFind, Paired
    <3> QED
      BY <3>4, <3>5
  <2>3. CASE ~(c \in nodes[m.hub] /\ d = m.dev)
    <3>1. ~(c = m.dev /\ m.dev \in nodes[m.hub])
      BY <1>m, <2>1
    <3>2. collected'[c][d] = collected[c][d]
      BY <1>m, <1>2, <2>3, <3>1 DEF RemoveNode
    <3> QED
      BY <1>m, <3>2 DEF Finds
  <2> QED
    BY <2>2, <2>3
<1>3. CASE RefreshDrop(m)
  <2>1. /\ m.op = "drop" /\ collected' = [collected EXCEPT ![m.first][m.dev] = 0]
        /\ Call("remove", m.hub, m.dev, 0, {}, m.hub) \in calls'
    BY <1>3 DEF RefreshDrop, Becomes
  <2>2. CASE c = m.first /\ d = m.dev
    <3>1. m.hub = Home[c] /\ Home[c] # Home[d]
      BY <1>m, <2>1, <2>2 DEF CurrentCall, OwnCall
    <3>2. Accuses(Call("remove", m.hub, m.dev, 0, {}, m.hub), d, Home[c])
      BY <2>2, <3>1, CallFields DEF Accuses
    <3> QED
      BY <2>1, <3>1, <3>2 DEF WillFind, Settles
  <2>3. CASE ~(c = m.first /\ d = m.dev)
    <3>1. collected'[c][d] = collected[c][d]
      BY <1>m, <2>1, <2>3
    <3> QED
      BY <1>m, <3>1 DEF Finds
  <2> QED
    BY <2>2, <2>3
<1>4. CASE UNCHANGED collected
  BY <1>m, <1>4 DEF Finds
<1> QED
  BY <1>1, <1>2, <1>3, <1>4, CallsLeave

\* Hubs are paired only by a connect that ends, and what they give each other settles it.
LEMMA PairingSettles ==
    ASSUME Laboratory, TwoHubs, HubTyped, Links, NEW m \in calls, ConnectEnds(m), NEW c \in Devices,
           NEW d \in Devices, Stays(c), Stays(d), Home[c] # Home[d]
    PROVE  \E k \in calls' : Settles(k, c, d)
<1>h. /\ Home[c] \in Hubs /\ Home[d] \in Hubs /\ up[Home[c]] /\ up[Home[d]]
      /\ Server \in {Home[c], Home[d]} /\ \A p \in Hubs : p \in {Home[c], Home[d]}
  <2>1. Home[c] \in Hubs /\ Home[d] \in Hubs
    BY DEF Laboratory
  <2> QED
    BY <2>1, OneOfTwo DEF Stays, HubTyped
<1>1. /\ m.op = "connect" /\ m.hub \in Hubs /\ m.first \in Hubs /\ m.hub # m.first
      /\ m.ref = life[m.first]
  BY DEF ConnectEnds, Links, HubTyped, CallTypeOK
<1>2. {m.hub, m.first} = {Home[c], Home[d]} /\ ProcessLives(m.first, m.ref)
  BY <1>h, <1>1 DEF ProcessLives
<1>3. /\ Call("give", m.hub, AnyDevice, 0, {}, m.first) \in calls'
      /\ Call("give", m.first, AnyDevice, 0, {}, m.hub) \in calls'
  BY <1>1, <1>2 DEF ConnectEnds, Becomes
<1>4. ASSUME NEW x \in Devices, NEW y \in Devices, {Home[x], Home[y]} = {Home[c], Home[d]},
             Home[x] # Home[y], Home[y] = Server
      PROVE  \E k \in calls' : Brings(k, x, Home[y])
  <2>1. Call("give", Home[x], AnyDevice, 0, {}, Server) \in calls'
    BY <1>2, <1>3, <1>4
  <2>2. Brings(Call("give", Home[x], AnyDevice, 0, {}, Server), x, Home[y])
    BY <1>4, CallFields DEF Brings
  <2> QED
    BY <2>1, <2>2
<1> QED
  BY <1>h, <1>4 DEF Settles

\* The steps of calls.
LEMMA CallsFind ==
    ASSUME Laboratory, TwoHubs, HubTyped, OwnDevices, Links, Current, NEW m \in calls,
           \/ NodeAdded(m) \/ Distribute(m) \/ HubSkips(m) \/ DistributeNodes(m)
           \/ RemoveRefused(m) \/ RemoveNode(m) \/ Refresh(m) \/ RefreshDrop(m)
           \/ ConnectEnds(m),
           DevicesFind
    PROVE  DevicesFind'
<1>1. SUFFICES ASSUME NEW c \in Devices, NEW d \in Devices, Stays(c)', Stays(d)', d \in Partners[c]
               PROVE  (Finds(c, d) \/ WillFind(c, d))'
  BY DEF DevicesFind
<1>2. /\ UNCHANGED <<up, life, killed>> /\ calls \ {m} \subseteq calls'
      /\ refused \subseteq refused'
      /\ UNCHANGED hubs \/ ConnectEnds(m)
      /\ Stays(c) /\ Stays(d) /\ Home[c] \in Hubs /\ Home[d] \in Hubs
      /\ up[Home[c]] /\ up[Home[d]]
  <2>1. Home[c] \in Hubs /\ Home[d] \in Hubs
    BY DEF Laboratory
  <2>2. Stays(c) /\ Stays(d)
    BY <1>1, <2>1, CallsLeave DEF Stays
  <2> QED
    BY <2>1, <2>2, CallsLeave DEF Stays, HubTyped
<1>3. CASE Finds(c, d)
  BY <1>1, <1>2, <1>3, ReferenceStays
<1>4. CASE WillFind(c, d)
  <2>1. Home[c] # Home[d]
    BY <1>4 DEF WillFind
  <2>2. CASE d \in refused
    BY <1>2, <2>1, <2>2 DEF WillFind
  <2>3. CASE ConnectEnds(m)
    <3>1. \E k \in calls' : Settles(k, c, d)
      BY <1>2, <2>1, <2>3, PairingSettles
    <3> QED
      BY <2>1, <3>1 DEF WillFind
  <2>4. CASE ~Paired(Home[c], Home[d]) /\ UNCHANGED hubs
    BY <1>2, <2>1, <2>4 DEF WillFind, Paired
  <2>5. ASSUME Paired(Home[c], Home[d]), NEW k \in calls, Settles(k, c, d)
        PROVE  (Finds(c, d) \/ WillFind(c, d))'
    <3>1. CASE k # m
      BY <1>2, <2>1, <2>5, <3>1 DEF WillFind
    <3>2. CASE Brings(m, c, Home[d])
      <4>1. Met(c, d)' \/ \E j \in calls' : Brings(j, c, Home[d])
        BY <1>2, <2>1, <2>5, <3>2, BringingSettles
      <4> QED
        BY <1>1, <2>1, <4>1 DEF Met, WillFind, Settles
    <3>3. CASE Brings(m, d, Home[c])
      <4>1. Paired(Home[d], Home[c])
        BY <2>5 DEF Paired
      <4>2. Met(d, c)' \/ \E j \in calls' : Brings(j, d, Home[c])
        BY <1>2, <2>1, <3>3, <4>1, BringingSettles
      <4> QED
        BY <1>1, <2>1, <4>2 DEF Met, WillFind, Settles
    <3>4. CASE Accuses(m, d, Home[c])
      <4>1. d \in refused' \/ \E j \in calls' : Accuses(j, d, Home[c])
        BY <1>2, <2>1, <2>5, <3>4, AccusingSettles
      <4> QED
        BY <2>1, <4>1 DEF WillFind, Settles
    <3> QED
      BY <2>5, <3>1, <3>2, <3>3, <3>4 DEF Settles
  <2> QED
    BY <1>2, <1>4, <2>2, <2>3, <2>4, <2>5 DEF WillFind
<1> QED
  BY <1>1, <1>2, <1>3, <1>4 DEF DevicesFind

\* A link that the task makes is one whose connect is under way.
LEMMA NewLinkFinds ==
    ASSUME Laboratory, TwoHubs, HubTyped, NEW g \in Hubs, NEW p \in Hubs, NewLink(g, p),
           UNCHANGED <<up, life, nodes, collected, killed, refused>>, DevicesFind
    PROVE  DevicesFind'
<1>1. SUFFICES ASSUME NEW c \in Devices, NEW d \in Devices, Stays(c), Stays(d), d \in Partners[c],
                      ~Finds(c, d)
               PROVE  WillFind(c, d)'
  BY DEF DevicesFind, Stays, Finds
<1>2. Home[c] # Home[d] /\ Home[c] \in Hubs /\ Home[d] \in Hubs
  BY <1>1 DEF DevicesFind, WillFind, Laboratory
<1>3. {g, p} = {Home[c], Home[d]} /\ Server \in {g, p} /\ g # p
  <2>1. g # p /\ Server \in {g, p}
    BY DEF NewLink
  <2>2. g \in {Home[c], Home[d]} /\ p \in {Home[c], Home[d]}
    BY <1>2, OneOfTwo
  <2> QED
    BY <2>1, <2>2
<1>4. PICK met : Call("connect", g, AnyDevice, life[p], met, p) \in calls'
  BY DEF NewLink
<1>5. Settles(Call("connect", g, AnyDevice, life[p], met, p), c, d)
  BY <1>2, <1>3, CallFields DEF Settles, Brings
<1> QED
  BY <1>2, <1>4, <1>5 DEF WillFind

\* A device that is added finds those of its hub at once, and they find it; a call brings it to
\* the others.
LEMMA AddNodeFinds ==
    ASSUME Laboratory, TwoHubs, HubTyped, NEW h \in Hubs, NEW x \in Devices, AddNode(h, x),
           DevicesFind
    PROVE  DevicesFind'
<1>1. /\ up[h] /\ Home[x] = h /\ UNCHANGED <<life, killed, hubs>> /\ x \notin nodes[h]
      /\ nodes' = [nodes EXCEPT ![h] = @ \cup {x}] /\ nodes \in [Hubs -> SUBSET Devices]
      /\ collected' = Exchanged(h, x, life[h]) /\ refused' = refused \ {x}
      /\ calls' = calls \cup {Call("add", h, x, life[h], {}, h)}
      /\ Home \in [Devices -> Hubs]
  BY DEF AddNode, HubTyped, Laboratory
<1>2. \A c \in Devices : c # x /\ Stays(c)' => Stays(c)
  BY <1>1 DEF Stays
<1>3. SUFFICES ASSUME NEW c \in Devices, NEW d \in Devices, Stays(c)', Stays(d)', d \in Partners[c]
               PROVE  (Finds(c, d) \/ WillFind(c, d))'
  BY DEF DevicesFind
<1>4. c # d
  BY <1>3 DEF TwoHubs
<1>5. CASE x \in {c, d} /\ Home[c] # Home[d]
  <2>1. Settles(Call("add", h, x, life[h], {}, h), c, d)
    BY <1>1, <1>5, CallFields DEF Settles, Brings
  <2> QED
    BY <1>1, <1>5, <2>1 DEF WillFind
<1>6. CASE x \in {c, d} /\ Home[c] = Home[d]
  <2>1. collected' = Offered(Offered(collected, nodes[h], {x}, life[h]), {x}, nodes[h], life[h])
    BY <1>1 DEF Exchanged
  <2>2. CASE c = x
    <3>1. d \in nodes[h]
      BY <1>1, <1>2, <1>3, <1>4, <1>6, <2>2 DEF Stays
    <3>2. collected'[c][d] = life[h]
      BY <1>3, <1>4, <2>1, <2>2, <3>1 DEF Offered
    <3> QED
      BY <1>1, <1>6, <2>2, <3>2 DEF Finds
  <2>3. CASE d = x
    <3>1. c \in nodes[h]
      BY <1>1, <1>2, <1>3, <1>4, <1>6, <2>3 DEF Stays
    <3>2. Offered(collected, nodes[h], {x}, life[h])[c][d] = life[h]
      BY <1>3, <1>4, <2>3, <3>1 DEF Offered
    <3>3. collected'[c][d] = Offered(collected, nodes[h], {x}, life[h])[c][d]
      BY <1>4, <2>1, <2>3 DEF Offered
    <3> QED
      BY <1>1, <2>3, <3>2, <3>3 DEF Finds
  <2> QED
    BY <1>6, <2>2, <2>3
<1>7. CASE x \notin {c, d}
  <2>1. Finds(c, d) \/ WillFind(c, d)
    BY <1>2, <1>3, <1>7 DEF DevicesFind
  <2>2. Finds(c, d) => Finds(c, d)'
    BY <1>1, ExchangeKeeps
  <2>3. WillFind(c, d) => WillFind(c, d)'
    BY <1>1, <1>7 DEF WillFind, Paired
  <2> QED
    BY <2>1, <2>2, <2>3
<1> QED
  BY <1>5, <1>6, <1>7

\* The removal of a device asks nothing of those that stay.
LEMMA KillDeviceFinds ==
    ASSUME HubTyped, NEW h \in Hubs, NEW x \in Devices, KillDevice(h, x), DevicesFind
    PROVE  DevicesFind'
<1>1. /\ UNCHANGED <<up, life, hubs, nodes, collected, refused>> /\ killed \subseteq killed'
      /\ calls \subseteq calls'
  BY DEF KillDevice
<1>2. \A c, d \in Devices : (Finds(c, d) => Finds(c, d)') /\ (WillFind(c, d) => WillFind(c, d)')
  BY <1>1 DEF Finds, WillFind, Paired
<1>3. \A d \in Devices : Stays(d)' => Stays(d)
  BY <1>1 DEF Stays
<1> QED
  BY <1>2, <1>3 DEF DevicesFind

\* Where one of two hubs ends or starts no devices stay at both: and those at the other one have
\* found each other.
LEMMA LivesFind ==
    ASSUME Laboratory, TwoHubs, HubTyped, NEW x \in Hubs, Crash(x) \/ Start(x), DevicesFind
    PROVE  DevicesFind'
<1>1. SUFFICES ASSUME NEW c \in Devices, NEW d \in Devices, Stays(c)', Stays(d)', d \in Partners[c]
               PROVE  Finds(c, d)'
  BY DEF DevicesFind
<1>2. \A e \in {c, d} : Home[e] \in Hubs /\ Home[e] # x /\ Stays(e)
  <2>1. SUFFICES ASSUME NEW e \in {c, d} PROVE Home[e] \in Hubs /\ Home[e] # x /\ Stays(e)
    OBVIOUS
  <2>2. /\ Home[e] \in Hubs /\ e \in nodes'[Home[e]] /\ e \notin killed'
        /\ nodes \in [Hubs -> SUBSET Devices]
    BY <1>1 DEF Laboratory, Stays, HubTyped
  <2>3. CASE Crash(x)
    BY <2>2, <2>3 DEF Crash, Stays
  <2>4. CASE Start(x)
    <3>1. UNCHANGED <<nodes, killed>> /\ nodes[x] = {}
      BY <2>4 DEF Start, HubTyped
    <3> QED
      BY <2>2, <3>1 DEF Stays
  <2> QED
    BY <2>3, <2>4
<1>3. Home[c] = Home[d]
  BY <1>2, OneOfTwo
<1>4. Finds(c, d)
  BY <1>1, <1>2, <1>3 DEF DevicesFind, WillFind
<1>5. collected'[c][d] = collected[c][d] /\ life'[Home[d]] = life[Home[d]]
  BY <1>2 DEF Crash, Start, HubTyped
<1> QED
  BY <1>4, <1>5 DEF Finds

\* Every step keeps the devices that stay together, or on the way to each other.
LEMMA HubStepFinds ==
    ASSUME Laboratory, TwoHubs, HubTyped, OwnDevices, Links, Current, DevicesFind,
           [HubNext]_hubVars
    PROVE  DevicesFind'
<1>1. ASSUME HubCall PROVE DevicesFind'
  BY <1>1, CallsFind DEF HubCall
<1>2. ASSUME UNCHANGED <<up, life, hubs, nodes, collected, calls, killed, refused>>
      PROVE  DevicesFind'
  BY <1>2 DEF DevicesFind, Stays, Finds, WillFind, Paired
<1>3. ASSUME HubTask PROVE DevicesFind'
  <2>1. PICK h \in Hubs : ConnectToTarget(h) \/ RefreshConnection(h)
    BY <1>3 DEF HubTask
  <2> QED
    BY <1>2, <2>1, TaskLinks, NewLinkFinds
<1>4. ASSUME \E h \in Hubs : Start(h) \/ Crash(h) PROVE DevicesFind'
  BY <1>4, LivesFind
<1>5. ASSUME \E h \in Hubs, d \in Devices : AddNode(h, d) \/ KillDevice(h, d) PROVE DevicesFind'
  BY <1>5, AddNodeFinds, KillDeviceFinds
<1>6. ASSUME UNCHANGED hubVars PROVE DevicesFind'
  BY <1>2, <1>6 DEF hubVars
<1> QED
  BY <1>1, <1>3, <1>4, <1>5, <1>6 DEF HubNext

\* At rest the hubs that run are paired and no call is left: nothing can be on its way.
LEMMA FindingEnds ==
    ASSUME Laboratory, TwoHubs, HubTyped, Current, DevicesFind PROVE DevicesAreFound
<1>1. SUFFICES ASSUME AtRest, NEW s \in Acquainted PROVE s[2] \in refused \/ Finds(s[1], s[2])
  BY DEF DevicesAreFound
<1>2. calls = {} /\ up[Server] /\ \A h \in Hubs : up[h] => Linked(h)
  BY <1>1 DEF AtRest, AllRun
<1> DEFINE c == s[1] d == s[2]
<1>3. /\ c \in Devices /\ d \in Devices /\ c \in nodes[Home[c]] /\ d \in nodes[Home[d]]
      /\ d \in Partners[c]
  BY <1>1 DEF Acquainted
<1> HIDE DEF c, d
<1>4. Stays(c) /\ Stays(d)
  BY <1>2, <1>3 DEF Current, Stays
<1>5. Home[c] # Home[d] => Paired(Home[c], Home[d])
  <2>1. Home[c] \in Hubs /\ Home[d] \in Hubs /\ up[Home[c]] /\ up[Home[d]]
    BY <1>3 DEF HubTyped, Laboratory
  <2>2. Linked(Home[c]) /\ Linked(Home[d])
    BY <1>2, <2>1
  <2>3. Home[c] # Home[d] => Server \in {Home[c], Home[d]}
    BY <2>1, OneOfTwo
  <2> QED
    BY <2>2, <2>3 DEF Linked, Paired
<1>6. d \in refused \/ Finds(c, d)
  BY <1>2, <1>3, <1>4, <1>5 DEF DevicesFind, WillFind
<1> QED
  BY <1>6 DEF c, d

\* Between two hubs, the server's and another, both of which may crash and start again while devices
\* come and go and living ones are taken for dead: when the hubs that run are connected and no
\* call is left, every device has a reference to each living partner that was not taken for dead.
THEOREM DevicesMeetAgain ==
    ASSUME Laboratory, TwoHubs PROVE HubSpec => []DevicesAreFound
<1>1. HubInit => MeetAgainInv
  <2>1. ASSUME HubInit PROVE OwnDevices /\ Links /\ Current /\ DevicesFind
    <3>1. calls = {} /\ killed = {} /\ \A h \in Hubs : nodes[h] = {} /\ ~up[h]
      BY <2>1 DEF HubInit
    <3>2. \A h, p \in Hubs : hubs[h][p] = 0
      BY <2>1 DEF HubInit
    <3>3. \A c, d \in Devices : collected[c][d] = 0
      BY <2>1 DEF HubInit, NoReferences
    <3>4. \A d \in Devices : ~Stays(d)
      BY <3>1 DEF Stays, Laboratory
    <3> QED
      BY <3>1, <3>2, <3>3, <3>4 DEF OwnDevices, OwnReference, Links, Current, DevicesFind
  <2> QED
    BY <2>1, HubInitTyped DEF MeetAgainInv
<1>2. MeetAgainInv /\ [HubNext]_hubVars => MeetAgainInv'
  BY HubStepTyped, HubStepOwned, HubStepLinks, HubStepCurrent, HubStepFinds DEF MeetAgainInv
<1>3. MeetAgainInv => DevicesAreFound
  BY FindingEnds DEF MeetAgainInv
<1> QED
  BY <1>1, <1>2, <1>3, PTL DEF HubSpec
=============================================================================
