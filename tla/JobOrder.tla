------------------------------- MODULE JobOrder -------------------------------
(***************************************************************************)
(* EngineJobID::operator<, the key order of the job lists: parse and play  *)
(* jobs as the times they were submitted at.  A play carries the time of   *)
(* its parse as well; no two ids have the same time.                       *)
(***************************************************************************)
EXTENDS Naturals

ParseID(t)   == [type |-> "Parse", pid |-> t, time |-> t]
ShotID(p, t) == [type |-> "Play", pid |-> p, time |-> t]

\* Jobs whose ids the program can generate: a play is submitted after its parse.
IsParseID(j) == \E t \in Nat : j = ParseID(t)
IsShotID(j)  == \E p, t \in Nat : p < t /\ j = ShotID(p, t)

\* Two parses are ordered by time, two plays by parse and then by time, and a parse and a
\* play by time.
PlayBefore(a, b) == IF a.pid = b.pid THEN a.time < b.time ELSE a.pid < b.pid
MixedBefore(a, b) ==
    IF a.type = "Parse" THEN a.pid = b.pid \/ a.time < b.time
    ELSE a.pid # b.pid /\ a.time < b.time

Before(a, b) ==
    IF a.type # b.type THEN MixedBefore(a, b)
    ELSE IF a.type = "Parse" THEN a.pid < b.pid ELSE PlayBefore(a, b)

=============================================================================
