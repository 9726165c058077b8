---------------------------- MODULE ServiceCore ----------------------------
(***************************************************************************)
(* ServiceCommandProcessor of crates/vpn_service_core/src/lib.rs over the  *)
(* contracts of its two traits, VpnBackend and ProfileVault, together with *)
(* process_frame and safe_command_error of the Windows service's ipc.rs.   *)
(*                                                                         *)
(* process takes &mut self on a single-threaded runtime, so one request is *)
(* one step.  The backend is its contract: Ok from connect means that the  *)
(* tunnel of that profile runs, Ok from disconnect that none does, and an  *)
(* error promises nothing.  A tunnel can also stop by itself, and the      *)
(* service process can die and be started again by the service manager.   *)
(***************************************************************************)
EXTENDS ConnectionMachine, Naturals, Sequences, Functions

CONSTANTS RequestIds,       \* identifiers a client may put in a request
          Window            \* MAX_RECENT_REQUESTS

ASSUME WindowAssumption == Window \in Nat \ {0}
ASSUME HandlesAssumption == NoHandle \notin Handles

VARIABLES serving,          \* the service process runs its accept loop
          machine,          \* machine: the reported state
          recentIds,        \* recent_ids: VecDeque, oldest first
          recentIdSet,      \* recent_id_set: HashSet
          vault,            \* the DPAPI vault's files, by handle
          tunnel,           \* the profile whose tunnel the backend runs
          reply,            \* the last response frame
          age               \* history: accepted requests since an id was used

coreVars == <<machine, recentIds, recentIdSet>>
vars == <<serving, machine, recentIds, recentIdSet, vault, tunnel, reply, age>>

NoTunnel == NoHandle
Never    == Window + 1      \* the age of an id this process has not accepted

Commands == {"Status", "Diagnostics", "Connect", "Disconnect", "Import",
             "Delete", "Statistics", "None"}

\* A handle is random and is issued once: "deleted" never becomes free again.
VaultStates == Protocols \cup {"unissued", "deleted"}

StoreErrors == {"PROFILE_NOT_FOUND", "PROFILE_STORE_UNAVAILABLE", "INVALID_REQUEST"}

ReplyCodes ==
  {"OK", "TUNNEL_STOPPED", "CONNECTED", "DISCONNECTED", "PROFILE_STORED",
   "PROFILE_DELETED", "DIAGNOSTICS_REDACTED", "BUSY", "DUPLICATE_REQUEST"}
     \cup StoreErrors \cup FailureCodes

Replies == [command : Commands, code : ReplyCodes, phase : Phases]

TypeOK ==
  /\ serving \in BOOLEAN
  /\ machine \in Machines
  /\ recentIds \in Seq(RequestIds)
  /\ recentIdSet \in SUBSET RequestIds
  /\ vault \in [Handles -> VaultStates]
  /\ tunnel \in Handles \cup {NoTunnel}
  /\ reply \in Replies
  /\ age \in [RequestIds -> 0..Never]

-----------------------------------------------------------------------------
(* Requests *)

Init ==
  /\ serving = TRUE
  /\ machine = Idle
  /\ recentIds = <<>>
  /\ recentIdSet = {}
  /\ vault = [h \in Handles |-> "unissued"]
  /\ tunnel = NoTunnel
  /\ reply = [command |-> "None", code |-> "OK", phase |-> "Disconnected"]
  /\ age = [id \in RequestIds |-> Never]

\* Mutant: the set keeps the id the deque evicts.
RememberWithoutForgetting(id) ==
  /\ recentIds' =
       Append(IF Len(recentIds) = Window THEN Tail(recentIds) ELSE recentIds, id)
  /\ recentIdSet' = recentIdSet \cup {id}
  /\ age' = [i \in RequestIds |->
               IF i = id THEN 0
               ELSE IF age[i] < Window THEN age[i] + 1 ELSE age[i]]

\* Mutant: a full history is cleared instead of losing its oldest id.
RememberByClearing(id) ==
  LET full == Len(recentIds) = Window
  IN  /\ recentIds' = Append(IF full THEN <<>> ELSE recentIds, id)
      /\ recentIdSet' = (IF full THEN {} ELSE recentIdSet) \cup {id}
      /\ age' = [i \in RequestIds |->
                   IF i = id THEN 0
                   ELSE IF age[i] < Window THEN age[i] + 1 ELSE age[i]]

\* remember: the oldest id leaves the deque and the set when the deque is full.
Remember(id) ==
  LET full == Len(recentIds) = Window
  IN  /\ recentIds' = Append(IF full THEN Tail(recentIds) ELSE recentIds, id)
      /\ recentIdSet' =
           (IF full THEN recentIdSet \ {Head(recentIds)} ELSE recentIdSet) \cup {id}
      /\ age' = [i \in RequestIds |->
                   IF i = id THEN 0
                   ELSE IF age[i] < Window THEN age[i] + 1 ELSE age[i]]

\* The head of process: a known id is refused, a new one is remembered before
\* the command runs, whatever the command then returns.
Accept(id) ==
  /\ serving
  /\ id \notin recentIdSet
  /\ Remember(id)
  /\ UNCHANGED serving

\* Ok(outcome): the reply carries the machine's state after the command.
Answer(command, code) ==
  reply' = [command |-> command, code |-> code, phase |-> machine'.phase]

\* Mutant: an error is reported with a code outside the allow-list.
RefuseVerbatim(command, code) ==
  reply' = [command |-> command, code |-> "INTERNAL", phase |-> "Error"]

\* Err(error): safe_command_error reports phase Error whatever the machine is.
Refuse(command, code) ==
  reply' = [command |-> command, code |-> code, phase |-> "Error"]

\* A frame that does not decode gets a reply and changes nothing.
RejectFrame ==
  /\ serving
  /\ Refuse("None", "INVALID_REQUEST")
  /\ UNCHANGED <<serving, coreVars, vault, tunnel, age>>

\* Neither does a request whose id is still remembered.
RejectDuplicate(id, command) ==
  /\ serving
  /\ id \in recentIdSet
  /\ Refuse(command, "DUPLICATE_REQUEST")
  /\ UNCHANGED <<serving, coreVars, vault, tunnel, age>>

Diagnostics(id) ==
  /\ Accept(id)
  /\ UNCHANGED <<machine, vault, tunnel>>
  /\ Answer("Diagnostics", "DIAGNOSTICS_REDACTED")

Statistics(id, code) ==
  /\ Accept(id)
  /\ code \in {"OK"} \cup FailureCodes
  /\ UNCHANGED <<machine, vault, tunnel>>
  /\ Answer("Statistics", code)

\* reconcile_status: only a machine that believes in a tunnel asks the backend.
StatusUnasked(id) ==
  /\ Accept(id)
  /\ ~CanBeginDisconnect(machine)
  /\ UNCHANGED <<machine, vault, tunnel>>
  /\ Answer("Status", "OK")

StatusTunnelUp(id) ==
  /\ Accept(id)
  /\ CanBeginDisconnect(machine)
  /\ tunnel # NoTunnel
  /\ UNCHANGED <<machine, vault, tunnel>>
  /\ Answer("Status", "OK")

StatusTunnelStopped(id) ==
  /\ Accept(id)
  /\ CanBeginDisconnect(machine)
  /\ tunnel = NoTunnel
  /\ machine' = Idle
  /\ UNCHANGED <<vault, tunnel>>
  /\ Answer("Status", "TUNNEL_STOPPED")

\* Mutant: is_connected().unwrap_or(false).
StatusFailsAsStopped(id, f) ==
  /\ Accept(id)
  /\ CanBeginDisconnect(machine)
  /\ machine' = Idle
  /\ UNCHANGED <<vault, tunnel>>
  /\ Answer("Status", "TUNNEL_STOPPED")

\* is_connected itself fails: the failure is reported, the tunnel is not touched.
StatusFails(id, f) ==
  /\ Accept(id)
  /\ CanBeginDisconnect(machine)
  /\ machine' = Fail(machine, f)
  /\ UNCHANGED <<vault, tunnel>>
  /\ Answer("Status", FailureCode[f])

\* What a load can fail with: load_amneziawg and load_vless check the handle's
\* prefix, load_wireguard meets the foreign plaintext only when it decodes it.
LoadErrors(h, protocol) ==
  {"PROFILE_STORE_UNAVAILABLE"} \cup
    IF vault[h] \notin Protocols THEN {"PROFILE_NOT_FOUND"}
    ELSE IF vault[h] = protocol THEN {}
    ELSE IF protocol = "WireGuard" THEN {"INVALID_REQUEST"}
    ELSE {"PROFILE_NOT_FOUND"}

\* connect_request after reset_failure, begin_connect and mark_validated.
ConnectingTo(id, h) ==
  /\ Accept(id)
  /\ CanBeginConnect(ResetFailure(machine))
  /\ UNCHANGED vault

ConnectBusy(id) ==
  /\ Accept(id)
  /\ ~CanBeginConnect(ResetFailure(machine))
  /\ UNCHANGED <<machine, vault, tunnel>>
  /\ Refuse("Connect", "BUSY")

\* vault.load_*(..)? returns early: the machine stays in Connecting.
ConnectLoadFails(id, h, protocol, error) ==
  /\ ConnectingTo(id, h)
  /\ error \in LoadErrors(h, protocol)
  /\ machine' = MarkValidated(BeginConnect(h))
  /\ UNCHANGED tunnel
  /\ Refuse("Connect", error)

ConnectSucceeds(id, h, protocol) ==
  /\ ConnectingTo(id, h)
  /\ vault[h] = protocol
  /\ machine' = MarkConnected(MarkValidated(BeginConnect(h)))
  /\ tunnel' = h
  /\ Answer("Connect", "CONNECTED")

\* Mutant: after an error, is_connected decides whether the connect worked.
ConnectFailsUnlessUp(id, h, protocol, f) ==
  /\ ConnectingTo(id, h)
  /\ vault[h] = protocol
  /\ tunnel' \in {tunnel, h, NoTunnel}
  /\ LET connecting == MarkValidated(BeginConnect(h))
     IN  machine' = IF tunnel' = NoTunnel THEN Fail(connecting, f)
                    ELSE MarkConnected(connecting)
  /\ Answer("Connect", FailureCode[f])

\* The engine's error says nothing about what runs: the old tunnel that could
\* not be stopped, the new one that came up late, or none.
ConnectFails(id, h, protocol, f) ==
  /\ ConnectingTo(id, h)
  /\ vault[h] = protocol
  /\ machine' = Fail(MarkValidated(BeginConnect(h)), f)
  /\ tunnel' \in {tunnel, h, NoTunnel}
  /\ Answer("Connect", FailureCode[f])

DisconnectBusy(id) ==
  /\ Accept(id)
  /\ ~IsFailure(machine) /\ ~CanBeginDisconnect(machine)
  /\ UNCHANGED <<machine, vault, tunnel>>
  /\ Refuse("Disconnect", "BUSY")

\* Mutant: mark_disconnected is forgotten.
DisconnectUnmarked(id) ==
  /\ Accept(id)
  /\ CanBeginDisconnect(machine)
  /\ machine' = BeginDisconnect(machine)
  /\ tunnel' = NoTunnel
  /\ UNCHANGED vault
  /\ Answer("Disconnect", "DISCONNECTED")

\* From a failure the engines are stopped again and the failure is cleared;
\* from a connection begin_disconnect and mark_disconnected lead to the same.
DisconnectSucceeds(id) ==
  /\ Accept(id)
  /\ IsFailure(machine) \/ CanBeginDisconnect(machine)
  /\ machine' = Idle
  /\ tunnel' = NoTunnel
  /\ UNCHANGED vault
  /\ Answer("Disconnect", "DISCONNECTED")

\* backend.disconnect() fails: map_err(..)? leaves the machine where it is,
\* which after begin_disconnect is Disconnecting.
DisconnectFails(id) ==
  /\ Accept(id)
  /\ \/ IsFailure(machine) /\ UNCHANGED machine
     \/ CanBeginDisconnect(machine) /\ machine' = BeginDisconnect(machine)
  /\ tunnel' \in {tunnel, NoTunnel}
  /\ UNCHANGED vault
  /\ Refuse("Disconnect", "PROFILE_STORE_UNAVAILABLE")

Import(id, h, protocol) ==
  /\ Accept(id)
  /\ vault[h] = "unissued"
  /\ vault' = [vault EXCEPT ![h] = protocol]
  /\ UNCHANGED <<machine, tunnel>>
  /\ Answer("Import", "PROFILE_STORED")

\* DPAPI, the random source or the disk fails; a half-written file is removed.
ImportFails(id) ==
  /\ Accept(id)
  /\ UNCHANGED <<machine, vault, tunnel>>
  /\ Refuse("Import", "PROFILE_STORE_UNAVAILABLE")

\* The profile may be the one the tunnel runs: nothing asks.
Delete(id, h) ==
  /\ Accept(id)
  /\ vault[h] \in Protocols
  /\ vault' = [vault EXCEPT ![h] = "deleted"]
  /\ UNCHANGED <<machine, tunnel>>
  /\ Answer("Delete", "PROFILE_DELETED")

DeleteFails(id, h, error) ==
  /\ Accept(id)
  /\ \/ error = "PROFILE_STORE_UNAVAILABLE"
     \/ error = "PROFILE_NOT_FOUND" /\ vault[h] \notin Protocols
  /\ UNCHANGED <<machine, vault, tunnel>>
  /\ Refuse("Delete", error)

-----------------------------------------------------------------------------
(* The environment *)

\* The tunnel's own process or service ends.
TunnelStops ==
  /\ tunnel # NoTunnel
  /\ tunnel' = NoTunnel
  /\ UNCHANGED <<serving, coreVars, vault, reply, age>>

\* The service process ends, between requests or inside a connect: WireGuard
\* and AmneziaWG tunnels are services of their own and survive it.
ServiceDies ==
  /\ serving
  /\ serving' = FALSE
  /\ tunnel' \in {tunnel, NoTunnel} \cup {h \in Handles : vault[h] \in Protocols}
  /\ UNCHANGED <<coreVars, vault, reply, age>>

\* system_default of the three engines removes what an earlier process left.
ServiceStarts ==
  /\ ~serving
  /\ serving' = TRUE
  /\ machine' = Idle
  /\ recentIds' = <<>>
  /\ recentIdSet' = {}
  /\ age' = [id \in RequestIds |-> Never]
  /\ tunnel' = NoTunnel
  /\ UNCHANGED <<vault, reply>>

Request(id) ==
  \/ Diagnostics(id)
  \/ \E code \in {"OK"} \cup FailureCodes : Statistics(id, code)
  \/ StatusUnasked(id) \/ StatusTunnelUp(id) \/ StatusTunnelStopped(id)
  \/ \E f \in BackendFailures : StatusFails(id, f)
  \/ ConnectBusy(id)
  \/ \E h \in Handles, protocol \in Protocols :
       \/ \E error \in StoreErrors : ConnectLoadFails(id, h, protocol, error)
       \/ ConnectSucceeds(id, h, protocol)
       \/ \E f \in BackendFailures : ConnectFails(id, h, protocol, f)
       \/ Import(id, h, protocol)
  \/ DisconnectBusy(id) \/ DisconnectSucceeds(id) \/ DisconnectFails(id)
  \/ ImportFails(id)
  \/ \E h \in Handles :
       \/ Delete(id, h)
       \/ \E error \in StoreErrors : DeleteFails(id, h, error)
  \/ \E command \in Commands \ {"None"} : RejectDuplicate(id, command)

Next ==
  \/ \E id \in RequestIds : Request(id)
  \/ RejectFrame
  \/ TunnelStops
  \/ ServiceDies
  \/ ServiceStarts

Spec == Init /\ [][Next]_vars

-----------------------------------------------------------------------------
(* Properties *)

\* A step in which a request was accepted: reply' is its answer.
Answered == serving /\ serving' /\ age' # age

\* "Disconnected" is a promise: while the service reports it, no engine runs a
\* tunnel.  It must survive failed connects that leave a tunnel behind, failed
\* disconnects, a tunnel that stops by itself and a restart of the service.
DisconnectedMeansNoTunnel ==
  serving /\ machine.phase = "Disconnected" => tunnel = NoTunnel

\* While the service reports Connected, the tunnel that runs, if it still does,
\* is the one of the reported profile: switching profiles through failures and
\* retries never leaves the traffic on another server than the reported one.
ConnectedIsTheReportedProfile ==
  serving /\ machine.phase = "Connected" => tunnel \in {machine.profile, NoTunnel}

\* The parts of a StateEvent agree: a profile is named in every phase but
\* Disconnected, and an error code exactly in a failure phase, whatever path of
\* errors led there.
StateEventCoherent ==
  /\ machine.profile = NoHandle <=> machine.phase = "Disconnected"
  /\ machine.error # NoError <=> IsFailure(machine)

\* recent_ids and recent_id_set hold the same ids, at most Window of them, no id
\* twice, and exactly those accepted less than Window requests ago.
RecentIdsCoherent ==
  /\ recentIdSet = Range(recentIds)
  /\ Len(recentIds) <= Window
  /\ \A i \in DOMAIN recentIds : age[recentIds[i]] = Len(recentIds) - i
  /\ \A id \in RequestIds : age[id] < Window => id \in recentIdSet

\* An id is not executed again by the same process until Window other requests
\* were accepted after it (the replay protection process gives).
NoReplayWithinWindow ==
  [][\A id \in RequestIds :
       serving /\ serving' /\ age[id] < Window => age'[id] >= age[id]]_vars

\* A failure can always be left: a connect or a disconnect asked of a machine in
\* a failure phase is never refused as BUSY.
FailureIsNeverBusy ==
  [][Answered /\ IsFailure(machine) => reply'.code # "BUSY"]_vars

\* A machine is left in a transient phase only by a request that failed in the
\* vault or in the engines' disconnect ...
StrandedOnlyByFailedCall ==
  [][machine'.phase \in TransientPhases /\ machine' # machine =>
       Answered /\ reply'.code \in StoreErrors]_vars

\* ... and no request brings it out again: until the service restarts, every
\* connect and disconnect is refused.
StrandedUntilRestart ==
  [][serving /\ serving' /\ machine.phase \in TransientPhases =>
       /\ machine' = machine
       /\ tunnel' \in {tunnel, NoTunnel}]_vars
=============================================================================
