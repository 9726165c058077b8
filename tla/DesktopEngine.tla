--------------------------- MODULE DesktopEngine ---------------------------
(***************************************************************************)
(* WindowsVpnEngine of apps/desktop/lib/src/infrastructure/                *)
(* windows_vpn_engine.dart with its callers, the servers screen and the    *)
(* sign-out of the account screen, against the service and its one pipe    *)
(* instance.  The application is one event loop: its handlers interleave   *)
(* where they await.  The service is ConnectionMachine under the contracts *)
(* of ServiceCore, one command at a time, its replies reduced to a phase,  *)
(* that to a delete to whether its code is one of the two of success.      *)
(***************************************************************************)
EXTENDS ConnectionMachine

VARIABLES phase,            \* _state.phase
          informed,         \* history: it came from the running service
          named,            \* _protocol, which _state.protocol repeats
          settled,          \* history: the connect that set it ended connected
          inFlight,         \* _operationInFlight
          op,               \* which operation that is
          signOut,          \* where AccountScreen._signOut awaits
          step,             \* where each exchange of the application awaits
          reply,            \* what counts of the response an exchange has got
          pipe,             \* whose exchange holds the pipe instance
          pending,          \* the command the service has not answered yet
          up,               \* the service's loop runs
          machine, tunnel,  \* the service's state and what really runs
          stored,           \* the profile is in the service's vault
          session           \* the account session and its handle are stored

guiVars == <<phase, informed, named, settled, inFlight, op>>
serviceVars == <<up, machine, tunnel, stored>>
vars == <<phase, informed, named, settled, inFlight, op, signOut, step, reply, pipe, pending, up,
          machine, tunnel, stored, session>>

ASSUME HandlesAssumption == Handles # {} /\ NoHandle \notin Handles

Handle   == CHOOSE h \in Handles : TRUE
NoTunnel == NoHandle
Nobody   == "nobody"
None     == "none"

\* A protocol the account has no profile of.  _serverId is set and cleared with
\* _protocol; it does not decide which profile is connected.
Unprovisioned == "unprovisioned"

\* An operation, a status call of each screen, the delete of a sign-out; the
\* statistics of every second and profile imports only get in the way.
StatusCalls == {"screenStatus", "signOutStatus"}
Exchanges   == StatusCalls \cup {"operation", "delete"}

\* PROFILE_DELETED and PROFILE_NOT_FOUND come with any phase.
Deleted == "deleted"
Replies == Phases \cup {Deleted}

Busy(p) == p \in {"Validating", "Connecting", "Reconnecting", "Disconnecting"}

TypeOK ==
  /\ phase \in Phases
  /\ {informed, settled, inFlight, up, stored, session} \subseteq BOOLEAN
  /\ named \in {Handle, Unprovisioned, NoHandle}
  /\ op \in {None, "connect", "connectUnprovisioned", "disconnect"}
  /\ signOut \in {None, "status", "disconnect", "delete", "clear"}
  /\ step \in [Exchanges -> {None, "access", "opening", "asked", "answered", "closed"}]
  /\ reply \in [Exchanges -> Replies \cup {None}]
  /\ pipe \in Exchanges \cup {Nobody, "abandoned", "other"}
  /\ pending \in {None, "status", "connect", "disconnect", "delete"}
  /\ machine \in Machines
  /\ tunnel \in Handles \cup {NoTunnel}

\* The application starts with an activated account; the tunnel may already run.
Init ==
  /\ phase = "Disconnected"
  /\ informed = FALSE /\ inFlight = FALSE
  /\ named = NoHandle /\ settled = FALSE
  /\ op = None /\ signOut = None
  /\ step = [e \in Exchanges |-> None]
  /\ reply = [e \in Exchanges |-> None]
  /\ pipe = Nobody /\ pending = None
  /\ up = TRUE /\ stored = TRUE /\ session = TRUE
  /\ \/ machine = Idle /\ tunnel = NoTunnel
     \/ machine = MarkConnected(BeginConnect(Handle)) /\ tunnel = Handle

-----------------------------------------------------------------------------
(* _emit, _emitFailure, _apply *)

Emit(p) == phase' = p /\ informed' = FALSE /\ UNCHANGED <<named, settled>>

\* Mutant: a failure forgets what was connected.
EmitFailureForgetting ==
  phase' = "Error" /\ informed' = FALSE /\ named' = NoHandle /\ UNCHANGED settled

\* Neither SERVICE_UNAVAILABLE, SERVICE_TIMEOUT nor BUSY has a phase of its own.
EmitFailure == Emit("Error")

\* _apply: only a disconnected service has no protocol.
Reported(p) ==
  /\ phase' = p /\ informed' = up
  /\ named' = IF p = "Disconnected" THEN NoHandle ELSE named

EndOperation == inFlight' = FALSE /\ op' = None

\* The throw of an engine call reaches _signOut, which gives up.
SignOutFails(waiting) ==
  signOut' = IF signOut = waiting THEN None ELSE signOut

-----------------------------------------------------------------------------
(* What the user does *)

\* _toggleConnection and connect() up to its first await.
Connect ==
  /\ phase # "Connected"
  /\ ~inFlight /\ ~Busy(phase)
  /\ inFlight' = TRUE
  /\ \/ op' = "connect" /\ named' = Handle
     \/ op' = "connectUnprovisioned" /\ named' = Unprovisioned
  /\ phase' = "Validating" /\ informed' = FALSE /\ settled' = FALSE
  /\ step' = [step EXCEPT !["operation"] = "access"]
  /\ UNCHANGED <<signOut, reply, pipe, pending, serviceVars, session>>

\* _accountAccess: without a session or the protocol's handle nothing is asked.
Access ==
  /\ step["operation"] = "access"
  /\ \/ /\ session /\ op = "connect"
        /\ Emit("Connecting")
        /\ step' = [step EXCEPT !["operation"] = "opening"]
        /\ UNCHANGED <<inFlight, op>>
     \/ /\ ~session \/ op = "connectUnprovisioned"
        /\ Emit("BlockedBySubscription")
        /\ step' = [step EXCEPT !["operation"] = None]
        /\ EndOperation
  /\ UNCHANGED <<signOut, reply, pipe, pending, serviceVars, session>>

BeginDisconnectOp ==
  /\ ~inFlight
  /\ inFlight' = TRUE /\ op' = "disconnect"
  /\ Emit("Disconnecting")

\* The same button, connected.
Disconnect ==
  /\ phase = "Connected"
  /\ BeginDisconnectOp
  /\ step' = [step EXCEPT !["operation"] = "opening"]
  /\ UNCHANGED <<signOut, reply, pipe, pending, serviceVars, session>>

\* status() of a screen that opens: with an operation in flight it asks nothing.
ScreenStatus ==
  /\ step["screenStatus"] = None
  /\ ~inFlight
  /\ step' = [step EXCEPT !["screenStatus"] = "opening"]
  /\ UNCHANGED <<guiVars, signOut, reply, pipe, pending, serviceVars, session>>

\* _signOut up to its status(), which hands out _state during an operation.
SignOut ==
  /\ signOut = None /\ session
  /\ \/ /\ ~inFlight
        /\ signOut' = "status"
        /\ step' = [step EXCEPT !["signOutStatus"] = "opening"]
     \/ /\ inFlight
        /\ signOut' = IF phase = "Disconnected" THEN "delete" ELSE None
        /\ UNCHANGED step
  /\ UNCHANGED <<guiVars, reply, pipe, pending, serviceVars, session>>

\* repository.signOut(): the profile first ...
SignOutDeletes ==
  /\ signOut = "delete" /\ step["delete"] = None
  /\ step' = [step EXCEPT !["delete"] = "opening"]
  /\ UNCHANGED <<guiVars, signOut, reply, pipe, pending, serviceVars, session>>

\* ... then _clearAccountData, which the secure storage can refuse.
SignOutClears ==
  /\ signOut = "clear"
  /\ signOut' = None
  /\ session' \in {FALSE, session}
  /\ UNCHANGED <<guiVars, step, reply, pipe, pending, serviceVars>>

-----------------------------------------------------------------------------
(* Exchanges *)

CommandOf(e) == CASE e = "operation" -> op
                  [] e = "delete" -> "delete"
                  [] OTHER -> "status"

\* Completions reach the event loop in order: one that waits to be handled is
\* handled before an exchange that was opened later can end.
InOrder == \A e \in Exchanges : step[e] # "closed"

Open(e) ==
  /\ step[e] = "opening"
  /\ up /\ pipe = Nobody
  /\ pipe' = e /\ pending' = CommandOf(e)
  /\ step' = [step EXCEPT ![e] = "asked"]
  /\ UNCHANGED <<guiVars, signOut, reply, serviceVars, session>>

\* What the caller of an exchange makes of an error.
ExchangeFails(e) ==
  /\ step' = [step EXCEPT ![e] = None]
  /\ reply' = [reply EXCEPT ![e] = None]
  /\ CASE e = "operation" -> EmitFailure /\ EndOperation /\ SignOutFails("disconnect")
       [] e = "delete" -> UNCHANGED guiVars /\ SignOutFails("delete")
       [] e = "screenStatus" -> EmitFailure /\ UNCHANGED <<inFlight, op, signOut>>
       [] OTHER -> EmitFailure /\ SignOutFails("status") /\ UNCHANGED <<inFlight, op>>

\* The one instance is taken, or nobody serves it.
OpenFails(e) ==
  /\ step[e] = "opening"
  /\ ~up \/ pipe # Nobody
  /\ ExchangeFails(e)
  /\ UNCHANGED <<pipe, pending, serviceVars, session>>

\* Mutant: only the open has a timeout.
TimeOutOpening(e) ==
  /\ step[e] = "opening"
  /\ ExchangeFails(e)
  /\ UNCHANGED <<pipe, pending, serviceVars, session>>

\* The timeout: the service may already be at the command, and goes on.
TimeOut(e) ==
  /\ \/ step[e] = "opening"
     \/ step[e] \in {"asked", "answered"} /\ InOrder
  /\ ExchangeFails(e)
  /\ pipe' = IF pipe # e THEN pipe ELSE IF pending = None THEN Nobody ELSE "abandoned"
  /\ UNCHANGED <<pending, serviceVars, session>>

\* The service went away under the exchange.
Cut(e) ==
  /\ step[e] = "asked" /\ ~up /\ InOrder
  /\ ExchangeFails(e)
  /\ pipe' = Nobody
  /\ UNCHANGED <<pending, serviceVars, session>>

\* The response is read and the pipe closed ...
Close(e) ==
  /\ step[e] = "answered" /\ InOrder
  /\ step' = [step EXCEPT ![e] = "closed"]
  /\ pipe' = Nobody
  /\ UNCHANGED <<guiVars, signOut, reply, pending, serviceVars, session>>

\* ... and handled.
Handled(e) ==
  /\ step[e] = "closed"
  /\ step' = [step EXCEPT ![e] = None]
  /\ reply' = [reply EXCEPT ![e] = None]
  /\ UNCHANGED <<pipe, pending, serviceVars, session>>

\* Mutant: connect() shows its own terminal state.
ApplyConnectOptimistically ==
  /\ op = "connect"
  /\ Handled("operation")
  /\ Reported("Connected")
  /\ settled' = TRUE
  /\ EndOperation
  /\ UNCHANGED signOut

\* Mutant: connect() does not await its exchange.
ApplyConnectUnawaited ==
  /\ op = "connect" /\ step["operation"] # None
  /\ Reported(reply["operation"])
  /\ settled' = FALSE
  /\ step' = [step EXCEPT !["operation"] = None]
  /\ EndOperation
  /\ UNCHANGED <<signOut, reply, pipe, pending, serviceVars, session>>

\* connect() ends with the phase the service reports.
ApplyConnect ==
  /\ op = "connect"
  /\ Handled("operation")
  /\ Reported(reply["operation"])
  /\ settled' = (phase' = "Connected" /\ named = Handle)
  /\ EndOperation
  /\ UNCHANGED signOut

\* disconnect() throws unless the service says disconnected.
ApplyDisconnect ==
  /\ op = "disconnect"
  /\ Handled("operation")
  /\ EndOperation
  /\ \/ /\ reply["operation"] = "Disconnected"
        /\ Reported("Disconnected") /\ UNCHANGED settled
        /\ signOut' = IF signOut = "disconnect" THEN "delete" ELSE signOut
     \/ /\ reply["operation"] # "Disconnected"
        /\ EmitFailure
        /\ SignOutFails("disconnect")

\* A status reply is applied whatever was started since it was asked for.
ApplyScreenStatus ==
  /\ Handled("screenStatus")
  /\ Reported(reply["screenStatus"])
  /\ UNCHANGED <<settled, inFlight, op, signOut>>

\* That of a sign-out as well, which then goes on, stops the tunnel first, or
\* gives up: on a phase that is neither, and on a disconnect() that is refused.
ApplySignOutStatus ==
  LET seen == reply["signOutStatus"]
  IN  \/ /\ seen = "Connected"
         /\ step["signOutStatus"] = "closed"
         /\ BeginDisconnectOp
         /\ signOut' = "disconnect"
         /\ step' = [step EXCEPT !["signOutStatus"] = None, !["operation"] = "opening"]
         /\ reply' = [reply EXCEPT !["signOutStatus"] = None]
         /\ UNCHANGED <<pipe, pending, serviceVars, session>>
      \/ /\ seen # "Connected" \/ inFlight
         /\ Handled("signOutStatus")
         /\ Reported(seen)
         /\ signOut' = IF seen = "Disconnected" THEN "delete" ELSE None
         /\ UNCHANGED <<settled, inFlight, op>>

\* deleteProfile tests the code.
ApplyDelete ==
  /\ Handled("delete")
  /\ signOut' = IF reply["delete"] = Deleted THEN "clear" ELSE None
  /\ UNCHANGED guiVars

Exchange(e) == Open(e) \/ OpenFails(e) \/ TimeOut(e) \/ Cut(e) \/ Close(e)

Apply == \/ ApplyConnect \/ ApplyDisconnect \/ ApplyDelete
         \/ ApplyScreenStatus \/ ApplySignOutStatus

-----------------------------------------------------------------------------
(* The service *)

\* write_response: to a client that has given up it fails, which ends serve.
Answer(p) ==
  /\ up
  /\ pending' = None
  /\ IF pipe = "abandoned"
     THEN /\ pipe' = Nobody /\ up' = FALSE /\ informed' = FALSE
          /\ UNCHANGED <<step, reply>>
     ELSE /\ step' = [step EXCEPT ![pipe] = "answered"]
          /\ reply' = [reply EXCEPT ![pipe] = p]
          /\ UNCHANGED <<pipe, up, informed>>
  /\ UNCHANGED <<phase, named, settled, inFlight, op, signOut, session>>

\* safe_command_error, or the phase of the machine after the command.
Refuse == Answer("Error")
Report == Answer(machine'.phase)

\* A frame the client gave up writing is not processed.
DropAbandoned ==
  /\ up /\ pipe = "abandoned"
  /\ pipe' = Nobody /\ pending' = None
  /\ UNCHANGED <<guiVars, signOut, step, reply, serviceVars, session>>

ServeStatus ==
  /\ pending = "status"
  /\ \/ machine' = IF CanBeginDisconnect(machine) /\ tunnel = NoTunnel
                   THEN Idle ELSE machine
     \/ /\ CanBeginDisconnect(machine)
        /\ machine' = Fail(machine, "Internal")
  /\ Report
  /\ UNCHANGED <<tunnel, stored>>

ServeConnect ==
  /\ pending = "connect"
  /\ \/ /\ ~CanBeginConnect(ResetFailure(machine))
        /\ UNCHANGED <<machine, tunnel>> /\ Refuse
     \/ /\ CanBeginConnect(ResetFailure(machine))
        /\ LET connecting == MarkValidated(BeginConnect(Handle))
           IN  \/ machine' = connecting /\ UNCHANGED tunnel /\ Refuse
               \/ /\ stored
                  /\ machine' = MarkConnected(connecting)
                  /\ tunnel' = Handle /\ Report
               \/ /\ stored
                  /\ machine' = Fail(connecting, "Internal")
                  /\ tunnel' \in {tunnel, Handle, NoTunnel} /\ Report
  /\ UNCHANGED stored

ServeDisconnect ==
  /\ pending = "disconnect"
  /\ \/ /\ ~IsFailure(machine) /\ ~CanBeginDisconnect(machine)
        /\ UNCHANGED <<machine, tunnel>> /\ Refuse
     \/ /\ IsFailure(machine) \/ CanBeginDisconnect(machine)
        /\ \/ machine' = Idle /\ tunnel' = NoTunnel /\ Report
           \/ /\ machine' = IF IsFailure(machine) THEN machine
                            ELSE BeginDisconnect(machine)
              /\ tunnel' \in {tunnel, NoTunnel} /\ Refuse
  /\ UNCHANGED stored

\* Also when there was nothing to delete any more.
ServeDelete ==
  /\ pending = "delete"
  /\ UNCHANGED <<machine, tunnel>>
  /\ \/ stored' = FALSE /\ Answer(Deleted)
     \/ UNCHANGED stored /\ Refuse

Serve == ServeStatus \/ ServeConnect \/ ServeDisconnect \/ ServeDelete

-----------------------------------------------------------------------------
(* The environment *)

OtherExchange ==
  /\ \/ up /\ pipe = Nobody /\ pipe' = "other"
     \/ pipe = "other" /\ pipe' = Nobody
  /\ UNCHANGED <<guiVars, signOut, step, reply, pending, serviceVars, session>>

TunnelStops ==
  /\ tunnel # NoTunnel
  /\ tunnel' = NoTunnel
  /\ UNCHANGED <<guiVars, signOut, step, reply, pipe, pending, up, machine, stored,
                 session>>

ServiceDies ==
  /\ up
  /\ up' = FALSE /\ informed' = FALSE
  /\ pending' = None
  /\ pipe' = IF pipe \in Exchanges THEN pipe ELSE Nobody
  /\ tunnel' \in {tunnel, NoTunnel} \cup IF pending = "connect" THEN {Handle} ELSE {}
  /\ UNCHANGED <<phase, named, settled, inFlight, op, signOut, step, reply, machine,
                 stored, session>>

\* After five seconds (installer/KenaiVPN.nsi): whatever the old process still
\* answered has been read by then.
ServiceStarts ==
  /\ ~up /\ pipe = Nobody
  /\ \A e \in Exchanges : step[e] \notin {"answered", "closed"}
  /\ up' = TRUE
  /\ machine' = Idle /\ tunnel' = NoTunnel
  /\ UNCHANGED <<guiVars, signOut, step, reply, pipe, pending, stored, session>>

\* The application is closed or dies, and is opened again.
AppRestarts ==
  /\ phase' = "Disconnected" /\ informed' = FALSE
  /\ named' = NoHandle /\ settled' = FALSE
  /\ EndOperation
  /\ signOut' = None
  /\ step' = [e \in Exchanges |-> None]
  /\ reply' = [e \in Exchanges |-> None]
  /\ pipe' = IF pipe \notin Exchanges THEN pipe
             ELSE IF pending = None THEN Nobody ELSE "abandoned"
  /\ UNCHANGED <<pending, serviceVars, session>>

User == \/ Connect \/ Disconnect \/ ScreenStatus \/ SignOut

Next ==
  \/ User \/ Access \/ SignOutDeletes \/ SignOutClears
  \/ \E e \in Exchanges : Exchange(e)
  \/ Apply \/ Serve \/ DropAbandoned
  \/ OtherExchange \/ TunnelStops \/ ServiceDies \/ ServiceStarts \/ AppRestarts

\* The event loop runs and every await of an exchange has a timeout.
Fairness ==
  /\ WF_vars(Access) /\ WF_vars(Apply)
  /\ \A e \in Exchanges : WF_vars(TimeOut(e)) /\ WF_vars(Close(e))

Spec == Init /\ [][Next]_vars /\ Fairness

-----------------------------------------------------------------------------
(* Properties *)

Quiescent == /\ \A e \in Exchanges : step[e] = None
             /\ pipe \notin Exchanges \cup {"abandoned"}

\* When nothing is in progress, what the application shows is what the service
\* it was told by is in: a late status reply, an operation started meanwhile, a
\* command that went on after a timeout and a sign-out in between never leave
\* it showing another state; and "disconnected" means that no tunnel runs.
ShownStateIsTheServices ==
  Quiescent /\ informed =>
    /\ phase = "Connected" => machine.phase = "Connected"
    /\ phase = "Disconnected" => machine.phase = "Disconnected" /\ tunnel = NoTunnel
    /\ Busy(phase) => machine.phase = phase

EngineInv == TypeOK /\ ShownStateIsTheServices

\* Once a connect has ended connected, what is shown of the tunnel that runs is
\* its own protocol, through every failed and late status call, until the next
\* connect: unless a reply "disconnected" to an earlier status call cleared it
\* while the connect was in flight.  A connect that was refused has set another
\* protocol already, which the next status call then shows.
ConnectedNamesItsTunnel ==
  Quiescent /\ informed /\ settled /\ phase = "Connected" /\ tunnel # NoTunnel =>
    named = tunnel

\* Every connect and disconnect ends, whether or not the service ever answers.
OperationEnds == inFlight ~> ~inFlight

-----------------------------------------------------------------------------
(* What the documentation says and the code does not do *)

\* docs/architecture/0011-production-gui-ipc.md: account sign-out stops the
\* tunnel first.  When the service deletes the profile for it, none would run;
\* but nothing keeps a connect from coming between its status() and its delete.
SignOutStopsTheTunnelFirst ==
  [][stored /\ ~stored' => tunnel = NoTunnel]_vars
=============================================================================
