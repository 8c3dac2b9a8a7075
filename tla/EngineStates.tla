---------------------------- MODULE EngineStates ----------------------------
(***************************************************************************)
(* The state machine every event engine carries                            *)
(* (EventEngineStateMachine.cpp, EngineState.h).  A transition is an edge  *)
(* of the table the constructor builds; setState refuses any other target  *)
(* and leaves the state alone.                                             *)
(***************************************************************************)

NormalStates == {"Idle", "Parsing", "Parsed", "PreparingPlay", "PlayReady",
                 "WaitingForTrigger", "Playing"}

\* isPlayState of LocalEventEngine.cpp.
PlayStates == {"PreparingPlay", "PlayReady", "WaitingForTrigger", "Playing"}

\* Paused has no vertex in the table: it can be asked for, never entered.
EngineState == NormalStates \cup {"Unknown", "Missing", "Error"}

Edges == {<<"Idle", "Parsing">>,
          <<"Parsing", "Idle">>, <<"Parsing", "Parsed">>,
          <<"Parsed", "Idle">>, <<"Parsed", "PreparingPlay">>,
          <<"PreparingPlay", "Parsed">>, <<"PreparingPlay", "PlayReady">>,
          <<"PlayReady", "WaitingForTrigger">>, <<"PlayReady", "Parsed">>,
          <<"WaitingForTrigger", "Parsed">>, <<"WaitingForTrigger", "Playing">>,
          <<"Playing", "Parsed">>,
          <<"Unknown", "Idle">>, <<"Missing", "Idle">>, <<"Error", "Idle">>}
         \cup (NormalStates \X {"Error", "Unknown"})

IsAllowedTransition(from, to) == <<from, to>> \in Edges

\* The state after setState(target) when the machine is in state from.
SetState(from, target) == IF IsAllowedTransition(from, target) THEN target ELSE from

\* setState returns _isState(target): asking for the current state succeeds.
SetStateOk(from, target) == SetState(from, target) = target

\* setState(target, fallback): the fallback is tried when the target is refused.
SetStateOr(from, target, fallback) ==
    IF SetStateOk(from, target) THEN target ELSE SetState(from, fallback)
=============================================================================
