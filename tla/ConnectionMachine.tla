------------------------- MODULE ConnectionMachine -------------------------
(***************************************************************************)
(* ConnectionStateMachine of crates/vpn_service_core/src/lib.rs: the state *)
(* the privileged service reports, and the transitions its methods allow.  *)
(* A method that returns Result is a guard (CanX) and a result (X); the    *)
(* caller takes the error path when the guard is false.                    *)
(*                                                                         *)
(* kill_switch_active is left out: every caller passes FALSE to            *)
(* mark_connected and every other method writes FALSE.                     *)
(***************************************************************************)

CONSTANT Handles            \* the opaque profile handles a vault can issue

NoHandle == "no-handle"     \* profile_id = None
NoError  == "no-error"      \* error_code = None

FailurePhases ==
  {"BlockedBySubscription", "NoNetwork", "ServerUnavailable", "Error"}

\* The phases a request passes through before it returns.
TransientPhases == {"Validating", "Connecting", "Disconnecting"}

Phases ==
  {"Disconnected", "Connected", "Reconnecting"} \cup TransientPhases
     \cup FailurePhases

Protocols == {"WireGuard", "AmneziaWg", "VlessReality"}

BackendFailures ==
  {"EngineUnavailable", "NoNetwork", "ServerUnavailable", "InvalidProfile",
   "UnsupportedFeature", "Internal"}

\* backend_failure: the phase and the allow-listed code of an engine failure.
FailurePhase(f) == IF f \in {"NoNetwork", "ServerUnavailable"} THEN f ELSE "Error"

FailureCode ==
  [EngineUnavailable  |-> "ENGINE_NOT_INSTALLED",
   NoNetwork          |-> "NO_NETWORK",
   ServerUnavailable  |-> "SERVER_UNAVAILABLE",
   InvalidProfile     |-> "INVALID_PROFILE",
   UnsupportedFeature |-> "UNSUPPORTED_FEATURE",
   Internal           |-> "ENGINE_FAILED"]

FailureCodes == {FailureCode[f] : f \in BackendFailures}

\* StateEvent
Machines ==
  [phase   : Phases,
   profile : Handles \cup {NoHandle},
   error   : FailureCodes \cup {NoError}]

\* StateEvent::default
Idle == [phase |-> "Disconnected", profile |-> NoHandle, error |-> NoError]

IsFailure(m) == m.phase \in FailurePhases

\* Mutant: a second begin_connect while the first is still connecting.
CanBeginConnectTwice(m) == m.phase \in {"Disconnected", "Connecting"}

CanBeginConnect(m) == m.phase = "Disconnected"
BeginConnect(h)    == [phase |-> "Validating", profile |-> h, error |-> NoError]

MarkValidated(m) == [m EXCEPT !.phase = "Connecting"]

MarkConnected(m) == [m EXCEPT !.phase = "Connected", !.error = NoError]

CanBeginDisconnect(m) == m.phase \in {"Connected", "Reconnecting"}
BeginDisconnect(m)    == [m EXCEPT !.phase = "Disconnecting"]

\* Mutant: the failure forgets its profile.
FailAnonymously(m, f) ==
  [phase |-> FailurePhase(f), profile |-> NoHandle, error |-> FailureCode[f]]

\* The profile stays: a failure is reported for the profile that failed.
Fail(m, f) ==
  [m EXCEPT !.phase = FailurePhase(f), !.error = FailureCode[f]]

\* Mutant: reset_failure is forgotten.
KeepFailure(m) == m

\* reset_failure, then nothing more of the failed attempt is remembered.
ResetFailure(m) == IF IsFailure(m) THEN Idle ELSE m
=============================================================================
