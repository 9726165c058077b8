---------------------------- MODULE WireExchange ----------------------------
(***************************************************************************)
(* Requests of the desktop application and their replies as they cross the *)
(* pipe: encoded and decoded in Dart (windows_profile_provisioner.dart,    *)
(* windows_vpn_engine.dart) and in Rust (crates/vpn_contracts/src/lib.rs), *)
(* with process_frame and write_response of ipc.rs in between.  A frame is *)
(* its header and the sequence of the fields of its body, which each side  *)
(* writes and reads in an order, and with numbers, of its own.  The frames *)
(* of imports carry one field for the profile (ProfileTransfer has more).  *)
(***************************************************************************)
EXTENDS ConnectionMachine, Naturals, Sequences

CONSTANT RequestIds         \* identifiers a client draws

VARIABLES vault,            \* the handles a profile is stored under
          machine,          \* the machine of the command processor
          asked,            \* the request of the exchange in progress
          frame,            \* what travels: a frame, cut somewhere or whole
          did,              \* history: what the service did for the request
          concluded,        \* what the caller in the application makes of it
          stage

serviceVars == <<vault, machine>>
vars == <<vault, machine, asked, frame, did, concluded, stage>>

Operations ==
  {"status", "connect", "disconnect", "statistics", "delete", "import"}

Requests ==
  [op : Operations, id : RequestIds, protocol : Protocols, handle : Handles,
   valid : BOOLEAN]         \* the profile of an import passes decode_request

None == "none"

InvalidId == "invalid-request"      \* INVALID_REQUEST_ID

\* The application's ids end in 32 random hexadecimal digits.
ASSUME IdsAssumption == RequestIds \cap {None, InvalidId} = {}
ASSUME HandlesAssumption == NoHandle \notin Handles

-----------------------------------------------------------------------------
(* Frames *)

Frame(opcode, body) ==
  [magic |-> "KVPN", version |-> 4, opcode |-> opcode, reserved |-> 0,
   length |-> Len(body), body |-> body]

NoFrame == Frame(0, <<>>)

\* Mutant: the opcodes of the two later imports are swapped.
DartOpcodeSwapped(r) ==
  CASE r.op = "status" -> 1
    [] r.op = "connect" -> 2
    [] r.op = "disconnect" -> 3
    [] r.op = "delete" -> 6
    [] r.op = "statistics" -> 7
    [] r.op = "import" /\ r.protocol = "WireGuard" -> 5
    [] r.op = "import" /\ r.protocol = "AmneziaWg" -> 9
    [] OTHER -> 8

\* The opcodes that the callers of encodeVpnIpcFrame name.
DartOpcode(r) ==
  CASE r.op = "status" -> 1
    [] r.op = "connect" -> 2
    [] r.op = "disconnect" -> 3
    [] r.op = "delete" -> 6
    [] r.op = "statistics" -> 7
    [] r.op = "import" /\ r.protocol = "WireGuard" -> 5
    [] r.op = "import" /\ r.protocol = "AmneziaWg" -> 8
    [] OTHER -> 9

DartProtocol == [WireGuard |-> 1, AmneziaWg |-> 2, VlessReality |-> 3]

\* The bodies that they write.  The operation id is not looked at again.
DartBody(r) ==
  <<r.id>> \o
    CASE r.op \in {"status", "statistics"} -> <<>>
      [] r.op = "disconnect" -> <<"operation">>
      [] r.op = "delete" -> <<"operation", r.handle>>
      [] r.op = "connect" -> <<"operation", r.handle, DartProtocol[r.protocol], 0>>
      [] OTHER -> <<"operation", [valid |-> r.valid]>>

\* encode_request writes the same frames in Rust, for the tests.
RustFrame(r) ==
  LET opcode == IF r.op = "import"
                THEN [WireGuard |-> 5, AmneziaWg |-> 8, VlessReality |-> 9][r.protocol]
                ELSE [status |-> 1, connect |-> 2, disconnect |-> 3, delete |-> 6,
                      statistics |-> 7][r.op]
      operation == IF r.op \in {"status", "statistics"} THEN <<>> ELSE <<"operation">>
      target == IF r.op \in {"connect", "delete"} THEN <<r.handle>> ELSE <<>>
      rest == IF r.op = "connect"
              THEN <<[WireGuard |-> 1, AmneziaWg |-> 2, VlessReality |-> 3][r.protocol], 0>>
              ELSE IF r.op = "import" THEN <<[valid |-> r.valid]>> ELSE <<>>
  IN  Frame(opcode, <<r.id>> \o operation \o target \o rest)

\* declared_frame_size and the head of decode_request.
HeaderAccepted(f) ==
  /\ f.magic = "KVPN" /\ f.version = 4 /\ f.reserved = 0
  /\ f.length = Len(f.body)

RustProtocol == <<"WireGuard", "AmneziaWg", "VlessReality">>

\* What each opcode has behind the request id; the second field is validated as
\* an operation id, the third as a profile id or a profile.
RustCommand(opcode) ==
  CASE opcode = 1 -> [op |-> "status", fields |-> 1]
    [] opcode = 2 -> [op |-> "connect", fields |-> 5]
    [] opcode = 3 -> [op |-> "disconnect", fields |-> 2]
    [] opcode = 4 -> [op |-> "diagnostics", fields |-> 1]
    [] opcode = 6 -> [op |-> "delete", fields |-> 3]
    [] opcode = 7 -> [op |-> "statistics", fields |-> 1]
    [] opcode \in {5, 8, 9} -> [op |-> "import", fields |-> 3]
    [] OTHER -> [op |-> None, fields |-> 0]

ImportProtocol == [n \in {5, 8, 9} |->
  IF n = 5 THEN "WireGuard" ELSE IF n = 8 THEN "AmneziaWg" ELSE "VlessReality"]

\* decode_request and decode_command: a frame they refuse has no command.
Decoded(f) ==
  LET command == RustCommand(f.opcode)
      b == f.body
      sound == /\ HeaderAccepted(f)
               /\ command.op # None
               /\ Len(b) = command.fields
               /\ command.op = "connect" =>
                    b[4] \in DOMAIN RustProtocol /\ b[5] \in {0, 1}
               /\ command.op = "import" => b[3].valid
  IN  IF ~sound THEN [op |-> None]
      ELSE IF command.op = "connect"
      THEN [op |-> "connect", id |-> b[1], handle |-> b[3],
            protocol |-> RustProtocol[b[4]]]
      ELSE IF command.op = "delete" THEN [op |-> "delete", id |-> b[1], handle |-> b[3]]
      ELSE IF command.op = "import"
      THEN [op |-> "import", id |-> b[1], protocol |-> ImportProtocol[f.opcode]]
      ELSE [op |-> command.op, id |-> b[1]]

-----------------------------------------------------------------------------
(* Replies *)

RustPhases ==
  <<"Disconnected", "Validating", "Connecting", "Connected", "Reconnecting",
    "Disconnecting", "BlockedBySubscription", "NoNetwork", "ServerUnavailable", "Error">>

\* phase_byte
PhaseByte(p) == (CHOOSE n \in DOMAIN RustPhases : RustPhases[n] = p) - 1

\* encode_response: an option is a flag byte and, if set, its value.
Response(e) ==
  Frame(129,
    <<e.id, PhaseByte(e.phase)>>
      \o (IF e.profile = NoHandle THEN <<0>> ELSE <<1, e.profile>>)
      \o <<0, e.code>>
      \o (IF e.counters = None THEN <<0>>
          ELSE <<1, "received", "sent">>
                 \o IF e.counters = "handshake" THEN <<1, "handshake">> ELSE <<0>>))

\* Mutant: the table lacks the phase the service never reports.
DartPhasesShifted ==
  <<"Disconnected", "Validating", "Connecting", "Connected",
    "Disconnecting", "BlockedBySubscription", "NoNetwork", "ServerUnavailable",
    "Error", "Error">>

\* _phase
DartPhases ==
  <<"Disconnected", "Validating", "Connecting", "Connected", "Reconnecting",
    "Disconnecting", "BlockedBySubscription", "NoNetwork", "ServerUnavailable", "Error">>

\* How many fields the options of a response add, by the flags met on the way.
HasProfile(b) == b[3] = 1
AfterProfile(b) == IF HasProfile(b) THEN 4 ELSE 3
HasCounters(b) == b[AfterProfile(b) + 3] = 1
HasHandshake(b) == HasCounters(b) /\ b[AfterProfile(b) + 6] = 1
Fields(b) ==
  AfterProfile(b) + 3 + (IF HasCounters(b) THEN 3 ELSE 0)
    + IF HasHandshake(b) THEN 1 ELSE 0

\* decodeVpnIpcResponse, and with the table of phases of Rust decode_response,
\* which has no request id to compare.
Read(f, phases, ids) ==
  LET b == f.body
      counters == IF ~HasCounters(b) THEN None
                  ELSE IF HasHandshake(b) THEN "handshake" ELSE "counters"
  IN  IF /\ HeaderAccepted(f) /\ f.opcode = 129
         /\ b[1] \in ids /\ b[2] < Len(phases)
         /\ Fields(b) = Len(b)
      THEN [id |-> b[1], phase |-> phases[b[2] + 1],
            profile |-> IF HasProfile(b) THEN b[4] ELSE NoHandle,
            code |-> b[AfterProfile(b) + 2], counters |-> counters]
      ELSE [id |-> None]

DartReads(f, id) == Read(f, DartPhases, {id})
RustReads(f) == Read(f, RustPhases, RequestIds \cup {InvalidId})

-----------------------------------------------------------------------------
(* The service *)

\* What process returns, and what it leaves: as in ServiceCore, without tunnels.
Result(m, v, ok, code) ==
  [machine |-> m, vault |-> v, ok |-> ok, code |-> code, issued |-> NoHandle,
   counters |-> None]

Keeps(ok, code) == Result(machine, vault, ok, code)

StatusResults ==
  IF CanBeginDisconnect(machine)
  THEN {Keeps(TRUE, "OK"), Result(Idle, vault, TRUE, "TUNNEL_STOPPED")}
         \cup {Result(Fail(machine, f), vault, TRUE, FailureCode[f]) : f \in BackendFailures}
  ELSE {Keeps(TRUE, "OK")}

\* PROFILE_NOT_FOUND also of a handle of another protocol, INVALID_REQUEST of a
\* profile that cannot be decoded.
ConnectResults(h) ==
  LET connecting == MarkValidated(BeginConnect(h))
  IN  IF ~CanBeginConnect(ResetFailure(machine)) THEN {Keeps(FALSE, "BUSY")}
      ELSE {Result(connecting, vault, FALSE, code) :
              code \in {"PROFILE_STORE_UNAVAILABLE", "PROFILE_NOT_FOUND"}
                         \cup IF h \in vault THEN {"INVALID_REQUEST"} ELSE {}}
           \cup IF h \notin vault THEN {}
                ELSE {Result(MarkConnected(connecting), vault, TRUE, "CONNECTED")}
                       \cup {Result(Fail(connecting, f), vault, TRUE, FailureCode[f]) :
                               f \in BackendFailures}

DisconnectResults ==
  IF ~IsFailure(machine) /\ ~CanBeginDisconnect(machine) THEN {Keeps(FALSE, "BUSY")}
  ELSE {Result(Idle, vault, TRUE, "DISCONNECTED"),
        Result(IF IsFailure(machine) THEN machine ELSE BeginDisconnect(machine), vault,
               FALSE, "PROFILE_STORE_UNAVAILABLE")}

ImportResults ==
  {Keeps(FALSE, "PROFILE_STORE_UNAVAILABLE")}
    \cup {[Result(machine, vault \cup {h}, TRUE, "PROFILE_STORED") EXCEPT !.issued = h] :
            h \in Handles \ vault}

DeleteResults(h) ==
  {Keeps(FALSE, "PROFILE_STORE_UNAVAILABLE")}
    \cup IF h \in vault THEN {Result(machine, vault \ {h}, TRUE, "PROFILE_DELETED")}
         ELSE {Keeps(FALSE, "PROFILE_NOT_FOUND")}

StatisticsResults ==
  {[Keeps(TRUE, "OK") EXCEPT !.counters = c] : c \in {"counters", "handshake"}}
    \cup {Keeps(TRUE, FailureCode[f]) : f \in BackendFailures}

Executed(command) ==
  CASE command.op = "status" -> StatusResults
    [] command.op = "connect" -> ConnectResults(command.handle)
    [] command.op = "disconnect" -> DisconnectResults
    [] command.op = "import" -> ImportResults
    [] command.op = "delete" -> DeleteResults(command.handle)
    [] command.op = "statistics" -> StatisticsResults
    [] OTHER -> {Keeps(TRUE, "DIAGNOSTICS_REDACTED")}

\* An id may be that of a request the service remembers.
Results(command) == {Keeps(FALSE, "DUPLICATE_REQUEST")} \cup Executed(command)

\* Mutant: the reply does not repeat the id of the request.
EnvelopeAnonymous(id, r) ==
  [id |-> InvalidId, phase |-> r.machine.phase, profile |-> r.issued,
   code |-> r.code, counters |-> r.counters]

\* process_frame: the state after the command with the handle just issued, or
\* safe_command_error.
Envelope(id, r) ==
  IF r.ok
  THEN [id |-> id, phase |-> r.machine.phase,
        profile |-> IF r.issued # NoHandle THEN r.issued ELSE r.machine.profile,
        code |-> r.code, counters |-> r.counters]
  ELSE [id |-> id, phase |-> "Error", profile |-> NoHandle, code |-> r.code,
        counters |-> None]

SafeError ==
  [id |-> InvalidId, phase |-> "Error", profile |-> NoHandle,
   code |-> "INVALID_REQUEST", counters |-> None]

Undecoded == Keeps(FALSE, "INVALID_REQUEST")

-----------------------------------------------------------------------------
(* What the callers make of a response *)

Error(code) == [what |-> "error", code |-> code]

Conclude(r, response) ==
  IF response.id = None THEN Error("INVALID_RESPONSE")
  ELSE CASE r.op = "import" ->
              IF response.code = "PROFILE_STORED" /\ response.profile # NoHandle
              THEN [what |-> "stored", handle |-> response.profile]
              ELSE Error(response.code)
         [] r.op = "delete" ->
              IF response.code \in {"PROFILE_DELETED", "PROFILE_NOT_FOUND"}
              THEN [what |-> "gone"] ELSE Error(response.code)
         [] r.op = "statistics" ->
              IF response.code = "OK" /\ response.counters # None
              THEN [what |-> "counters"] ELSE [what |-> "noCounters"]
         [] r.op = "disconnect" /\ response.phase # "Disconnected" -> Error(response.code)
         [] OTHER -> [what |-> "shows", phase |-> response.phase,
                      code |-> IF response.phase \in FailurePhases
                               THEN response.code ELSE NoError]

-----------------------------------------------------------------------------

Init ==
  /\ vault = {} /\ machine = Idle
  /\ stage = "idle"
  /\ asked \in {r \in Requests : r.op = "status"}
  /\ frame = NoFrame
  /\ did = Undecoded
  /\ concluded = Error(None)

\* Only an import carries a profile; only it, connect and delete say which.
Ask ==
  /\ stage \in {"idle", "concluded"}
  /\ asked' \in Requests
  /\ asked'.op # "import" => asked'.valid
  /\ asked'.op \notin {"import", "connect"} => asked'.protocol = "WireGuard"
  /\ asked'.op \notin {"connect", "delete"} =>
       asked'.handle = CHOOSE h \in Handles : TRUE
  /\ frame' = Frame(DartOpcode(asked'), DartBody(asked'))
  /\ did' = Undecoded
  /\ concluded' = Error(None)
  /\ stage' = "sent"
  /\ UNCHANGED serviceVars

\* handle_one: process_frame and write_response.
Process ==
  LET command == Decoded(frame)
  IN  /\ stage = "sent"
      /\ \/ /\ command.op = None
            /\ did' = Undecoded
            /\ frame' = Response(SafeError)
            /\ UNCHANGED serviceVars
         \/ /\ command.op # None
            /\ did' \in Results(command)
            /\ machine' = did'.machine /\ vault' = did'.vault
            /\ frame' = Response(Envelope(command.id, did'))
      /\ stage' = "answered"
      /\ UNCHANGED <<asked, concluded>>

Receive ==
  /\ stage = "answered"
  /\ concluded' = Conclude(asked, DartReads(frame, asked.id))
  /\ stage' = "concluded"
  /\ UNCHANGED <<vault, machine, asked, frame, did>>

\* The request or the reply does not get through: _readExactly, the timeouts.
Lose ==
  /\ stage \in {"sent", "answered"}
  /\ \E code \in {"SERVICE_TIMEOUT", "SERVICE_UNAVAILABLE", "INVALID_RESPONSE"} :
       concluded' = Error(code)
  /\ stage' = "idle"
  /\ UNCHANGED <<vault, machine, asked, frame, did>>

\* The service starts anew.
Restart ==
  /\ stage = "idle"
  /\ machine' = Idle
  /\ UNCHANGED <<vault, asked, frame, did, concluded, stage>>

Next == Ask \/ Process \/ Receive \/ Lose \/ Restart

Spec == Init /\ [][Next]_vars

-----------------------------------------------------------------------------
(* Properties *)

TypeOK ==
  /\ vault \subseteq Handles
  /\ machine \in Machines
  /\ asked \in Requests
  /\ stage \in {"idle", "sent", "answered", "concluded"}

\* What a caller concludes is so: the handle it keeps names a profile that was
\* just stored, the profile it forgets is not stored, the phase it shows is the
\* service's or that of a refusal, with the reason of it, and counters are
\* counters.  The one reason that is lost is that of a failure the service is
\* still in: a status reply has no place for it, and the error shown is "OK".
ConclusionIsTrue ==
  stage = "concluded" =>
    /\ concluded.what = "stored" =>
         did.ok /\ concluded.handle \in vault /\ concluded.handle = did.issued
    /\ concluded.what = "gone" => asked.handle \notin vault
    /\ concluded.what = "counters" => did.counters # None
    /\ concluded.what = "shows" =>
         /\ concluded.phase = IF did.ok THEN machine.phase ELSE "Error"
         /\ concluded.phase \in FailurePhases =>
              \/ concluded.code = IF did.ok THEN machine.error ELSE did.code
              \/ asked.op = "status" /\ concluded.code = "OK"

ExchangeInv == TypeOK /\ ConclusionIsTrue

\* What was asked for is so: for a delete, also if there was nothing to delete.
Achieved ==
  \/ /\ did.ok
     /\ did.code \notin FailureCodes
     /\ asked.op = "status" => ~IsFailure(machine)
  \/ asked.op = "delete" /\ did.code = "PROFILE_NOT_FOUND"

\* Once the reply has come, what the service did is not reported as a failure,
\* and a failure, a refusal or a frame that was not decoded is not taken for
\* success: of whichever kind of reply each operation's caller tests the code,
\* the phase or the options.
SuccessIsRecognised ==
  stage = "concluded" =>
    (Achieved <=> \/ concluded.what \in {"stored", "gone", "counters"}
                  \/ concluded.what = "shows" /\ concluded.phase \notin FailurePhases)

\* The two languages write the same requests, with the same opcodes in the same
\* order, and read the same replies: what the service's tests send is what the
\* application sends.
TwinsAgree ==
  /\ stage = "sent" => frame = RustFrame(asked)
  /\ stage = "answered" /\ Decoded(RustFrame(asked)).op # None =>
       DartReads(frame, asked.id) = RustReads(frame)
=============================================================================
