---------------------------- MODULE SessionState ----------------------------
(***************************************************************************)
(* session_state.h: which of Monitor and Bridge the component is in, and    *)
(* the id of the one client it serves.  A pure object without calls out, so *)
(* its methods are operators from a value of the object to its next value   *)
(* and to the Transition the caller branches on.                           *)
(***************************************************************************)
EXTENDS Naturals

kNoClient == 0

Reset == [mode |-> "Monitor", active |-> kNoClient]

SessionStates(Ids) == [mode : {"Monitor", "Bridge"}, active : Ids \cup {kNoClient}]

IsBridgeMode(s) == s.mode = "Bridge"

-----------------------------------------------------------------------------
\* Mutant: a second client takes over.
MutOnConnectResult(s, id) == IF id = kNoClient THEN "None" ELSE "EnteredBridge"

-----------------------------------------------------------------------------
OnConnectResult(s, id) ==
  CASE id = kNoClient                    -> "None"
    [] id # kNoClient /\ IsBridgeMode(s) -> "Rejected"
    [] OTHER                             -> "EnteredBridge"

AfterConnect(s, id) ==
  IF OnConnectResult(s, id) = "EnteredBridge" THEN [mode |-> "Bridge", active |-> id] ELSE s

OnDisconnectResult(s, id) ==
  IF IsBridgeMode(s) /\ id = s.active THEN "EnteredMonitor" ELSE "None"

AfterDisconnect(s, id) ==
  IF OnDisconnectResult(s, id) = "EnteredMonitor" THEN Reset ELSE s
=============================================================================
