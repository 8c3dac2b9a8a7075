------------------------------ MODULE MCNetwork ------------------------------
(***************************************************************************)
(* What the processes of a laboratory do with each other, for TLC: their   *)
(* hubs, and an engine that plays for the server (PlayEngine, whose        *)
(* constants the .cfg gives).  A behaviour is one of one part, chosen in   *)
(* the beginning, while the variables of the other rest.  The hubs have    *)
(* three parts, in each of which they do some of what they can do.         *)
(***************************************************************************)
EXTENDS PlayEngine, DeviceHub

CONSTANT Parts   \* the parts that the run checks

VARIABLE part

\* The server's hub, 1, that of a device, 2, and a third, with a device each.  Device 1 wants
\* that of hub 2, but not the other way round, and those of hubs 2 and 3 each other.
LabHubs     == 1 .. 3
LabServer   == 1
LabDevices  == 1 .. 3
LabHome     == <<1, 2, 3>>
LabPartners == <<{2}, {3}, {2}>>

\* The processes of hubs 1 and 2 may crash, once each; no device is removed or misses a ping.
Crashing == ~up'[3] /\ killed' = {} /\ misses' = 0

\* Hubs 1 and 2; nothing crashes, but a device ends, and one does not answer a ping in time.
NoCrash == \A h \in Hubs : up[h] => up'[h]
Failing == NoCrash /\ ~up'[3]

\* The third hub comes to the two that are connected already.
Growing == NoCrash /\ killed' = {} /\ misses' = 0 /\ nodes'[1] = {}

TwoConnected ==
    /\ up = <<TRUE, TRUE, FALSE>> /\ life = <<1, 1, 0>>
    /\ hubs = <<<<0, 1, 0>>, <<1, 0, 0>>, <<0, 0, 0>>>> /\ known = <<{2}, {}, {}>>
    /\ nodes = <<{}, {}, {}>> /\ collected = [c \in Devices |-> NoReferences]
    /\ calls = {} /\ killed = {} /\ misses = 0 /\ refused = {} /\ expelled = FALSE

NetworkInit ==
    /\ part \in Parts
    /\ Init
    /\ IF part = "growing" THEN TwoConnected ELSE HubInit

NetworkNext ==
    \/ part = "owned" /\ Next /\ UNCHANGED <<part, hubVars>>
    \/ part = "crashing" /\ HubNext /\ Crashing /\ UNCHANGED <<part, vars>>
    \/ part = "failing" /\ HubNext /\ Failing /\ UNCHANGED <<part, vars>>
    \/ part = "growing" /\ HubNext /\ Growing /\ UNCHANGED <<part, vars>>

NetworkSpec == NetworkInit /\ [][NetworkNext]_<<part, vars, hubVars>>

=============================================================================
