------------------------------ MODULE DeviceHub ------------------------------
(***************************************************************************)
(* The hubs, one per process, that make the devices of a laboratory known  *)
(* to each other: LocalHub with its Distributer, and the periodic task of  *)
(* NetworkDeviceHub that connects a hub to the server's.                   *)
(*                                                                         *)
(* A call between hubs is synchronous, but its caller gives up after a     *)
(* time-out, with locks that make such waits happen, while the call goes   *)
(* on.  So the model lets every caller go on at once: `calls' are those    *)
(* that have not begun, in no order, and one step is a call up to those    *)
(* that it makes itself.  A process may crash and start again; the         *)
(* references to it and to its devices that others keep are then dead.  A  *)
(* reference is the number of the life of the process it leads to, or 0.   *)
(***************************************************************************)
EXTENDS Integers, FiniteSets

CONSTANTS
    Hubs,        \* the hubs
    Server,      \* the hub that all the others have as their target
    Devices,     \* the devices
    Home,        \* Home[d]: the hub that d is added to
    Partners,    \* Partners[c]: the devices whose references c collects
    MaxLives,    \* bound on the starts of a process
    MaxKills,    \* bound on the devices that their owner removes
    MaxMisses    \* bound on the pings that a living device does not answer in time

VARIABLES
    up,          \* up[h]: the process runs
    life,        \* life[h]: how often it was started
    hubs,        \* hubs[h][p]: h's reference to p
    known,       \* known[h]: the hubs in contextToHubID
    nodes,       \* nodes[h]: the devices that h owns
    collected,   \* collected[c][d]: c's reference to d
    calls,       \* calls that have not begun
    killed,      \* the devices removed by their owner while its process runs
    misses,
    refused,     \* living devices that a hub took for dead and their owner would not remove
    expelled     \* a device left its owner that this one did not remove

hubVars == <<up, life, hubs, known, nodes, collected, calls, killed, misses, refused, expelled>>

HubConnected(h, p) == hubs[h][p] # 0
ProcessLives(h, n) == up[h] /\ life[h] = n
DeviceLives(d, n)  == ProcessLives(Home[d], n) /\ d \in nodes[Home[d]]
HubsOf(h)          == {p \in Hubs : HubConnected(h, p)}
NoReferences       == [d \in Devices |-> 0]
AnyDevice          == CHOOSE d \in Devices : TRUE

\* A call at hub h about the device d, whose reference is n; `trace' are the hubs that the
\* call has been to and `first' is the one that it began at.
Call(op, h, d, n, trace, first) ==
    [op |-> op, hub |-> h, dev |-> d, ref |-> n, trace |-> trace, first |-> first]

RefreshCall(h) == Call("refresh", h, AnyDevice, 0, {}, h)

\* The same call at the connected hubs that have not received it yet.
\* Mutant: at those whose process has ended, too.
ForwardedBlindly(op, m) ==
    {Call(op, p, m.dev, m.ref, m.trace \cup {m.hub}, m.first) :
        p \in HubsOf(m.hub) \ (m.trace \cup {m.hub})}
Forwarded(op, m) ==
    LET trace == m.trace \cup {m.hub} IN
    {Call(op, p, m.dev, m.ref, trace, m.first) :
        p \in {p \in HubsOf(m.hub) \ trace : ProcessLives(p, hubs[m.hub][p])}}

Becomes(m, new) == calls' = (calls \ {m}) \cup new

-----------------------------------------------------------------------------
(* addNode, distribute and distributeNodes *)

\* The references to the devices of ds, all n, are offered to the devices of cs.
Offered(refs, cs, ds, n) ==
    [c \in Devices |-> [d \in Devices |->
        IF c \in cs /\ d \in (ds \cap Partners[c]) \ {c} THEN n ELSE refs[c][d]]]

\* distributeNode: the device to the devices of h, and they to the device, if it lives.
\* Mutant: they are not offered to the device.
ExchangedOneWay(h, d, n) == Offered(collected, nodes[h], {d}, n)
Exchanged(h, d, n) ==
    LET got == Offered(collected, nodes[h], {d}, n) IN
    IF DeviceLives(d, n) \/ Home[d] = h THEN Offered(got, {d}, nodes[h], life[h]) ELSE got

AddNode(h, d) ==
    /\ up[h] /\ Home[d] = h /\ d \notin nodes[h] \cup killed
    /\ nodes' = [nodes EXCEPT ![h] = @ \cup {d}]
    /\ collected' = Exchanged(h, d, life[h])
    /\ calls' = calls \cup {Call("add", h, d, life[h], {}, h)}
    /\ refused' = refused \ {d}
    /\ UNCHANGED <<up, life, hubs, known, killed, misses, expelled>>

\* The second half of addNode, after the lock was released in between.
NodeAdded(m) ==
    /\ m.op = "add"
    /\ Becomes(m, Forwarded("distribute", m) \cup {RefreshCall(m.hub)})
    /\ UNCHANGED <<up, life, hubs, known, nodes, collected, killed, misses, refused, expelled>>

\* The call has been here, or begins here and is meant for another hub.
ShortCircuits(m) ==
    \/ m.hub \in m.trace
    \/ m.op = "distribute" /\ m.first \notin m.trace /\ m.first # m.hub

Distribute(m) ==
    /\ m.op = "distribute" /\ ~ShortCircuits(m)
    /\ collected' = Exchanged(m.hub, m.dev, m.ref)
    /\ Becomes(m, Forwarded("distribute", m))
    /\ UNCHANGED <<up, life, hubs, known, nodes, killed, misses, refused, expelled>>

HubSkips(m) ==
    /\ m.op \in {"distribute", "remove", "refresh"} /\ ShortCircuits(m)
    /\ Becomes(m, {})
    /\ UNCHANGED <<up, life, hubs, known, nodes, collected, killed, misses, refused, expelled>>

\* distributeNodes: the devices of this hub for the hub `first'.
DistributeNodes(m) ==
    /\ m.op = "give"
    /\ Becomes(m, IF ProcessLives(m.first, hubs[m.hub][m.first])
                  THEN {Call("distribute", m.first, d, life[m.hub], {m.hub}, m.hub) :
                            d \in nodes[m.hub]}
                  ELSE {})
    /\ UNCHANGED <<up, life, hubs, known, nodes, collected, killed, misses, refused, expelled>>

-----------------------------------------------------------------------------
(* removeNode and refresh *)

KillDevice(h, d) ==
    /\ up[h] /\ d \in nodes[h] \ killed /\ Cardinality(killed) < MaxKills
    /\ killed' = killed \cup {d}
    /\ calls' = calls \cup {Call("remove", h, d, life[h], {}, h)}
    /\ UNCHANGED <<up, life, hubs, known, nodes, collected, misses, refused, expelled>>

\* Another hub wants a device removed that this hub owns and that is alive.
\* Mutant: the hub does not look whether it does.
MustStayNever(m) == FALSE
MustStay(m) == m.trace # {} /\ m.dev \in nodes[m.hub]

\* The distribute that is to replace the device's references: it begins at this hub with an
\* empty trace, but is meant for the hub that began the removal.
RemoveRefused(m) ==
    /\ m.op = "remove" /\ ~ShortCircuits(m) /\ MustStay(m)
    /\ refused' = refused \cup {m.dev}
    /\ Becomes(m, {Call("distribute", m.hub, m.dev, life[m.hub], {}, m.first)})
    /\ UNCHANGED <<up, life, hubs, known, nodes, collected, killed, misses, expelled>>

RemoveNode(m) ==
    /\ m.op = "remove" /\ ~ShortCircuits(m) /\ ~MustStay(m)
    /\ nodes' = [nodes EXCEPT ![m.hub] = @ \ {m.dev}]
    /\ expelled' = (expelled \/ m.dev \in nodes[m.hub] \ killed)
    /\ collected' = [c \in Devices |->
                        IF c = m.dev /\ m.dev \in nodes[m.hub] THEN NoReferences
                        ELSE IF c \in nodes[m.hub] THEN [collected[c] EXCEPT ![m.dev] = 0]
                        ELSE collected[c]]
    /\ Becomes(m, Forwarded("remove", m))
    /\ UNCHANGED <<up, life, hubs, known, killed, misses, refused>>

\* The references of the devices of h that do not answer; at most one of a living device
\* on another hub that is too slow.
Silent(h, slow) ==
    {r \in nodes[h] \X Devices :
        /\ collected[r[1]][r[2]] # 0
        /\ ~DeviceLives(r[2], collected[r[1]][r[2]]) \/ r[2] \in slow}

Refresh(m) ==
    /\ m.op = "refresh" /\ ~ShortCircuits(m)
    /\ \E slow \in {{}} \cup {{d} : d \in {d \in Devices : misses < MaxMisses /\ Home[d] # m.hub}} :
        /\ Becomes(m, {Call("drop", m.hub, r[2], 0, {}, r[1]) : r \in Silent(m.hub, slow)}
                      \cup Forwarded("refresh", m))
        /\ misses' = IF slow = {} THEN misses ELSE misses + 1
    /\ UNCHANGED <<up, life, hubs, known, nodes, collected, killed, refused, expelled>>

\* What did not answer goes, by its name, from the device `first' and from the network.
RefreshDrop(m) ==
    /\ m.op = "drop"
    /\ collected' = [collected EXCEPT ![m.first][m.dev] = 0]
    /\ Becomes(m, {Call("remove", m.hub, m.dev, 0, {}, m.hub)})
    /\ UNCHANGED <<up, life, hubs, known, nodes, killed, misses, refused, expelled>>

-----------------------------------------------------------------------------
(* The refresh task: connectToTargetHubs, and refreshHubConnections for the hubs that are
   registered with this one; the name service has every process's last reference. *)

\* connect: first the link at the other hub, p, then the link here, and the devices of both,
\* followed by a refresh, unless the caller finds p among the hubs that it is connected to.
Connect(h, p, n, connected) ==
    /\ ProcessLives(p, n)
    /\ hubs' = [hubs EXCEPT ![p][h] = life[h]]
    /\ calls' = calls \cup {Call("connect", h, AnyDevice, n, connected \cap {p}, p)}

ConnectEnds(m) ==
    /\ m.op = "connect"
    /\ hubs' = [hubs EXCEPT ![m.hub][m.first] = m.ref]
    /\ Becomes(m, {Call("give", m.hub, AnyDevice, 0, {}, m.first)}
                  \cup {Call("give", p, AnyDevice, 0, {}, m.hub) :
                            p \in {m.first} \cap {p \in Hubs : ProcessLives(p, m.ref)}}
                  \cup IF m.trace = {} THEN {RefreshCall(m.hub)} ELSE {})
    /\ UNCHANGED <<up, life, known, nodes, collected, killed, misses, refused, expelled>>

TaskIdle(h) == up[h] /\ \A m \in calls : ~(m.op = "connect" /\ m.hub = h)

\* A hub that has the target's reference only asks that one whether it is connected.
Target(h) == IF HubConnected(h, Server) THEN hubs[h][Server] ELSE life[Server]
CanConnect(h) ==
    /\ h # Server /\ TaskIdle(h)
    /\ ProcessLives(Server, Target(h)) /\ ~(HubConnected(h, Server) /\ HubConnected(Server, h))
ConnectToTarget(h) ==
    /\ CanConnect(h) /\ Connect(h, Server, Target(h), {})
    /\ UNCHANGED <<up, life, known, nodes, collected, killed, misses, refused, expelled>>

\* The hub is not known, or does not answer.  Mutant: it is known and does not answer.
LostKnown(p) == p \in known[Server] /\ ~ProcessLives(p, hubs[Server][p])
Lost(p) == ~(p \in known[Server] /\ ProcessLives(p, hubs[Server][p]))

\* disconnect(p) first asks p to remove this hub: a dead p does not answer, and stays.
CanRefresh(p) ==
    /\ p # Server /\ TaskIdle(Server) /\ life[p] # 0
    /\ Lost(p) /\ (up[p] \/ p \in known[Server])
RefreshConnection(p) ==
    /\ CanRefresh(p)
    /\ IF up[p]
       THEN /\ Connect(Server, p, life[p], HubsOf(Server))
            /\ known' = [known EXCEPT ![Server] = @ \cup {p}]
       ELSE /\ known' = [known EXCEPT ![Server] = @ \ {p}]
            /\ UNCHANGED <<hubs, calls>>
    /\ UNCHANGED <<up, life, nodes, collected, killed, misses, refused, expelled>>

-----------------------------------------------------------------------------
(* Crashes and starts. *)

Crash(h) ==
    /\ up[h] /\ life[h] < MaxLives
    /\ up' = [up EXCEPT ![h] = FALSE]
    /\ hubs' = [hubs EXCEPT ![h] = [p \in Hubs |-> 0]]
    /\ known' = [known EXCEPT ![h] = {}]
    /\ nodes' = [nodes EXCEPT ![h] = {}]
    /\ collected' = [c \in Devices |-> IF Home[c] = h THEN NoReferences ELSE collected[c]]
    /\ calls' = {m \in calls : m.hub # h}
    /\ killed' = {d \in killed : Home[d] # h}
    /\ UNCHANGED <<life, misses, refused, expelled>>

\* The process starts, which takes longer than the calls of its earlier life; from now on
\* the name service has its reference, and its task runs.
Start(h) ==
    /\ ~up[h] /\ \A m \in calls : h \notin m.trace /\ ~(m.op = "connect" /\ m.first = h)
    /\ up' = [up EXCEPT ![h] = TRUE]
    /\ life' = [life EXCEPT ![h] = @ + 1]
    /\ UNCHANGED <<hubs, known, nodes, collected, calls, killed, misses, refused, expelled>>

-----------------------------------------------------------------------------

HubInit ==
    /\ up = [h \in Hubs |-> FALSE] /\ life = [h \in Hubs |-> 0]
    /\ hubs = [h \in Hubs |-> [p \in Hubs |-> 0]] /\ known = [h \in Hubs |-> {}]
    /\ nodes = [h \in Hubs |-> {}] /\ collected = [c \in Devices |-> NoReferences]
    /\ calls = {} /\ killed = {} /\ misses = 0 /\ refused = {} /\ expelled = FALSE

HubCall ==
    \E m \in calls :
        \/ NodeAdded(m) \/ Distribute(m) \/ HubSkips(m) \/ DistributeNodes(m)
        \/ RemoveRefused(m) \/ RemoveNode(m) \/ Refresh(m) \/ RefreshDrop(m)
        \/ ConnectEnds(m)

HubTask == \E h \in Hubs : ConnectToTarget(h) \/ RefreshConnection(h)

HubNext ==
    \/ HubCall \/ HubTask
    \/ \E h \in Hubs : Start(h) \/ Crash(h)
    \/ \E h \in Hubs, d \in Devices : AddNode(h, d) \/ KillDevice(h, d)

HubSpec == HubInit /\ [][HubNext]_hubVars

-----------------------------------------------------------------------------
(* Properties. *)

\* The references, the devices and the calls have the types of the code, and no call is at a
\* process that has ended.
HubTypeOK ==
    /\ \A h \in Hubs : up[h] \in BOOLEAN /\ life[h] \in 0..MaxLives
                       /\ known[h] \subseteq Hubs
                       /\ nodes[h] \subseteq {d \in Devices : Home[d] = h}
                       /\ \A p \in Hubs : hubs[h][p] \in 0..life[p]
    /\ \A c, d \in Devices : collected[c][d] \in 0..life[Home[d]]
    /\ \A m \in calls : up[m.hub]
    /\ killed \subseteq Devices /\ misses \in 0..MaxMisses

Linked(h) ==
    h # Server => hubs[h][Server] = life[Server] /\ hubs[Server][h] = life[h]

\* The server runs, and every process that was ever started; a hub that never was has no part.
AllRun == up[Server] /\ \A h \in Hubs : life[h] # 0 => up[h]
AtRest == calls = {} /\ AllRun /\ \A h \in Hubs : up[h] => Linked(h)

Finds(c, d) == collected[c][d] = life[Home[d]]

Acquainted == {s \in Devices \X Devices : s[1] \in nodes[Home[s[1]]] /\ s[2] \in nodes[Home[s[2]]]
                                          /\ s[2] \in Partners[s[1]]}

\* When the hubs that run are connected and no call is left, every device has a reference to each
\* living partner that nobody took for dead: in whatever order devices are added, processes
\* start and hubs connect, in a laboratory of any size in which none crashes, and also where the
\* processes of two hubs do (both in DeviceHub_proofs).  Where a third hub is told
\* both of a dead reference and of the living one that takes its place, a removal (by name)
\* that its caller no longer waits for may come last.
DevicesAreFound ==
    AtRest => \A s \in Acquainted : s[2] \in refused \/ Finds(s[1], s[2])

\* No hub loses a living device that its owner did not remove: neither because another one
\* holds a dead reference to it, nor because a device of its own does.
OwnersKeepDevices == ~expelled

\* Hubs whose processes have crashed and run again are connected again: while the server runs,
\* a hub that has no reference to it, or a dead one, or to which the server has none, or a dead
\* one, has a refresh task to come that connects them, its own or the server's.
HubsReconnect ==
    calls = {} /\ up[Server] =>
        \A h \in Hubs : up[h] => Linked(h) \/ CanConnect(h) \/ CanRefresh(h)

\* "The removing Hub will then distribute the replacement Node when the removeNode call
\* completes": a living device that someone took for dead is known again in the end.
ReplacementIsDistributed ==
    AtRest => \A s \in Acquainted : s[2] \in refused => Finds(s[1], s[2])

=============================================================================
