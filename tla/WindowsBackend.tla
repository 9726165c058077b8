--------------------------- MODULE WindowsBackend ---------------------------
(***************************************************************************)
(* WindowsVpnBackend of services/windows_vpn_service/src/windows_backend.rs*)
(* over its three engines (wireguard_engine.rs, amneziawg_engine.rs,       *)
(* xray_engine.rs), one operating-system call at a time.  WireGuard and    *)
(* AmneziaWG tunnels are Windows services of their own, which the service  *)
(* control manager keeps when the Kenai service dies; Xray is a child      *)
(* process, killed with the job object it is assigned to.  Every call can  *)
(* fail, and the Kenai service can die between any two.                    *)
(***************************************************************************)
EXTENDS Naturals, FiniteSets

ScmEngines == {"WireGuard", "AmneziaWg"}
Protocols  == ScmEngines \cup {"VlessReality"}
None       == "none"

VARIABLES svc,              \* the state of each engine's Windows service
          xray,             \* the xray.exe the running Kenai service spawned
          orphan,           \* an xray.exe outside any job that no engine knows
          held,             \* XrayWindowsBackend::process is Some
          overlooked,       \* history: engines last cleaned without being opened
          conf,             \* the plaintext runtime configuration exists
          temp,             \* its .new sibling exists
          active,           \* WindowsVpnBackend::active
          pc,               \* the next operating-system call
          call,             \* the operation that was asked for
          failed            \* an error was met (Err is or will be returned)

files  == <<conf, temp>>
engineVars == <<svc, xray, orphan, held, overlooked>>
vars == <<svc, xray, orphan, held, overlooked, conf, temp, active, pc, call, failed>>

SvcStates == {"absent", "stopped", "starting", "running", "stopping"}
Ops == {"start", "connect", "disconnect"}
BootSteps == {"bootWireGuard", "bootAmneziaWg", "bootXray"}
ClearSteps == {"clearWireGuard", "clearAmneziaWg", "clearXray"}
ConnectSteps == {"cleanup", "verify", "write", "rename", "create", "launch",
                 "wait", "validate", "spawn", "assign", "reap", "grace", "unlink",
                 "undo"}
Steps == {"dead", "idle"} \cup BootSteps \cup ClearSteps \cup ConnectSteps

TypeOK ==
  /\ svc \in [ScmEngines -> SvcStates]
  /\ xray \in {None, "loose", "jobbed"}
  /\ orphan \in BOOLEAN /\ held \in BOOLEAN /\ failed \in BOOLEAN
  /\ conf \in [Protocols -> BOOLEAN] /\ temp \in [Protocols -> BOOLEAN]
  /\ overlooked \subseteq ScmEngines
  /\ active \in Protocols \cup {None}
  /\ pc \in Steps
  /\ call \in [op : Ops, target : Protocols \cup {None}, killSwitch : BOOLEAN]

Init ==
  /\ svc = [k \in ScmEngines |-> "absent"]
  /\ xray = None /\ orphan = FALSE /\ held = FALSE /\ failed = FALSE
  /\ conf = [k \in Protocols |-> FALSE] /\ temp = [k \in Protocols |-> FALSE]
  /\ active = None /\ overlooked = {}
  /\ pc = "dead"
  /\ call = [op |-> "start", target |-> None, killSwitch |-> FALSE]

Goto(step) == pc' = step /\ UNCHANGED <<call, failed, active>>

Return(ok) == /\ pc' = "idle"
              /\ failed' = ~ok
              /\ active' = IF ok /\ call.op = "connect" THEN call.target ELSE active
              /\ UNCHANGED call

-----------------------------------------------------------------------------
(* Cleanup *)

\* cleanup_stale of a service engine: how far it got.  It returns at the first
\* error: before anything (service manager, query, stop), after the stop was
\* sent but not confirmed within STOP_TIMEOUT, before the delete, or at one of
\* the two files.  An open_service that fails, for whatever reason, is taken for
\* the absence of the service.
CleanupResults(s, c, t) ==
  {[svc |-> s, conf |-> c, temp |-> t, ok |-> FALSE]}
  \cup {[svc |-> x, conf |-> c, temp |-> t, ok |-> FALSE] :
          x \in IF s = "running" THEN {"stopping", "stopped"}
                ELSE IF s = "stopped" THEN {"stopped"} ELSE {}}
  \cup {[svc |-> x, conf |-> f, temp |-> t, ok |-> FALSE] :
          x \in {s} \cup IF s \in {"running", "stopped"} THEN {"absent"} ELSE {},
          f \in {c, FALSE}}
  \cup {[svc |-> x, conf |-> FALSE, temp |-> FALSE, ok |-> TRUE] :
          x \in {s} \cup IF s \in {"running", "stopped"} THEN {"absent"} ELSE {}}

CleanScm(k, ok) ==
  /\ \E r \in CleanupResults(svc[k], conf[k], temp[k]) :
       /\ svc' = [svc EXCEPT ![k] = r.svc]
       /\ conf' = [conf EXCEPT ![k] = r.conf]
       /\ temp' = [temp EXCEPT ![k] = r.temp]
       /\ ok = r.ok
       /\ overlooked' = IF r.svc = "absent" THEN overlooked \ {k}
                        ELSE IF r.ok THEN overlooked \cup {k} ELSE overlooked
  /\ UNCHANGED <<xray, orphan, held>>

\* Mutant: the Xray cleanup forgets the .new file.
CleanXrayPartly(ok) ==
  /\ held' = FALSE
  /\ xray' = IF held THEN None ELSE xray
  /\ \E c \in {conf["VlessReality"], FALSE} :
       /\ conf' = [conf EXCEPT !["VlessReality"] = c]
       /\ ok => ~c
       /\ ~ok => c \/ held
  /\ UNCHANGED <<svc, orphan, overlooked, temp>>

\* XrayWindowsBackend::cleanup tries all three: stop the process (which is dead
\* in any case, the job handle being dropped), remove both files.
CleanXray(ok) ==
  /\ held' = FALSE
  /\ xray' = IF held THEN None ELSE xray
  /\ \E c \in {conf["VlessReality"], FALSE}, t \in {temp["VlessReality"], FALSE} :
       /\ conf' = [conf EXCEPT !["VlessReality"] = c]
       /\ temp' = [temp EXCEPT !["VlessReality"] = t]
       /\ ok => ~c /\ ~t
       /\ ~ok => c \/ t \/ held
  /\ UNCHANGED <<svc, orphan, overlooked>>

Clean(k, ok) == IF k \in ScmEngines THEN CleanScm(k, ok) ELSE CleanXray(ok)

-----------------------------------------------------------------------------
(* Start of the service: system_default of the backend and its engines *)

Boot ==
  /\ pc = "dead"
  /\ pc' = "bootWireGuard"
  /\ call' = [op |-> "start", target |-> None, killSwitch |-> FALSE]
  /\ failed' = FALSE
  /\ UNCHANGED <<engineVars, files, active>>

\* Mutant: let _ = cleanup_stale() in system_default.
BootScmRegardless(k, step, next) ==
  /\ pc = step
  /\ \E ok \in BOOLEAN : CleanScm(k, ok)
  /\ Goto(next)

\* An engine that cannot clean up stops the service from starting.
BootScm(k, step, next) ==
  /\ pc = step
  /\ \E ok \in BOOLEAN :
       /\ CleanScm(k, ok)
       /\ Goto(IF ok THEN next ELSE "dead")

\* The Xray engine removes its configuration, not the .new file.
BootXray ==
  /\ pc = "bootXray"
  /\ \/ /\ conf' = [conf EXCEPT !["VlessReality"] = FALSE]
        /\ Return(TRUE)
     \/ /\ Goto("dead")
        /\ UNCHANGED conf
  /\ UNCHANGED <<engineVars, temp>>

BootStep ==
  \/ BootScm("WireGuard", "bootWireGuard", "bootAmneziaWg")
  \/ BootScm("AmneziaWg", "bootAmneziaWg", "bootXray")
  \/ BootXray

-----------------------------------------------------------------------------
(* disconnect_all, the head of every operation *)

Connect(k, killSwitch) ==
  /\ pc = "idle"
  /\ pc' = "clearWireGuard"
  /\ call' = [op |-> "connect", target |-> k, killSwitch |-> killSwitch]
  /\ failed' = FALSE
  /\ UNCHANGED <<engineVars, files, active>>

Disconnect ==
  /\ pc = "idle"
  /\ pc' = "clearWireGuard"
  /\ call' = [op |-> "disconnect", target |-> None, killSwitch |-> FALSE]
  /\ failed' = FALSE
  /\ UNCHANGED <<engineVars, files, active>>

\* The three engines are cleaned whatever the others answered.
Clear(k, step, next) ==
  /\ pc = step
  /\ \E ok \in BOOLEAN :
       /\ Clean(k, ok)
       /\ failed' = (failed \/ ~ok)
  /\ pc' = next
  /\ UNCHANGED <<active, call>>

\* Mutant: let _ = self.disconnect_all() in connect.
ClearLastRegardless ==
  /\ pc = "clearXray"
  /\ \E ok \in BOOLEAN :
       /\ Clean("VlessReality", ok)
       /\ failed' = (call.op = "disconnect" /\ (failed \/ ~ok))
  /\ active' = None
  /\ pc' = IF call.op = "disconnect" THEN "idle" ELSE "cleanup"
  /\ UNCHANGED call

\* Mutant: active is not reset.
ClearLastKeepingActive ==
  /\ pc = "clearXray"
  /\ \E ok \in BOOLEAN :
       /\ Clean("VlessReality", ok)
       /\ failed' = (failed \/ ~ok \/ (call.op = "connect" /\ call.killSwitch))
  /\ pc' = IF failed' \/ call.op = "disconnect" THEN "idle" ELSE "cleanup"
  /\ UNCHANGED <<active, call>>

\* ... and active is forgotten even when one of them failed.
ClearLast ==
  /\ pc = "clearXray"
  /\ \E ok \in BOOLEAN :
       /\ Clean("VlessReality", ok)
       /\ failed' = (failed \/ ~ok \/ (call.op = "connect" /\ call.killSwitch))
  /\ active' = None
  /\ pc' = IF failed' \/ call.op = "disconnect" THEN "idle" ELSE "cleanup"
  /\ UNCHANGED call

ClearStep ==
  \/ Clear("WireGuard", "clearWireGuard", "clearAmneziaWg")
  \/ Clear("AmneziaWg", "clearAmneziaWg", "clearXray")
  \/ ClearLast

-----------------------------------------------------------------------------
(* connect, connect_amneziawg, connect_vless of the engine *)

Target == call.target

\* The engine cleans up once more for itself.
Cleanup ==
  /\ pc = "cleanup"
  /\ \E ok \in BOOLEAN :
       /\ Clean(Target, ok)
       /\ IF ok THEN Goto("verify") ELSE Return(FALSE)

\* verify_payloads: a missing or tampered binary.
Verify ==
  /\ pc = "verify"
  /\ Goto("write") \/ Return(FALSE)
  /\ UNCHANGED <<engineVars, files>>

\* write_config: the plaintext goes to the .new file; when writing it fails it
\* is removed, if that does not fail too.
Write ==
  /\ pc = "write"
  /\ \/ /\ temp' = [temp EXCEPT ![Target] = TRUE]
        /\ Goto("rename") \/ Return(FALSE)
     \/ UNCHANGED temp /\ Return(FALSE)
  /\ UNCHANGED <<engineVars, conf>>

\* A failed rename returns at once: nothing removes the .new file.
Rename ==
  /\ pc = "rename"
  /\ \/ /\ temp' = [temp EXCEPT ![Target] = FALSE]
        /\ conf' = [conf EXCEPT ![Target] = TRUE]
        /\ Goto(IF Target \in ScmEngines THEN "create" ELSE "validate")
     \/ Return(FALSE) /\ UNCHANGED files
  /\ UNCHANGED engineVars

\* create_and_start_service / start_service
Create ==
  /\ pc = "create"
  /\ \/ /\ svc[Target] = "absent"
        /\ svc' = [svc EXCEPT ![Target] = "stopped"]
        /\ Goto("launch")
     \/ UNCHANGED svc /\ Goto("undo")
  /\ UNCHANGED <<xray, orphan, held, overlooked, files>>

Launch ==
  /\ pc = "launch"
  /\ \/ svc' = [svc EXCEPT ![Target] = "starting"] /\ Goto("wait")
     \/ UNCHANGED svc /\ Goto("undo")
  /\ UNCHANGED <<xray, orphan, held, overlooked, files>>

\* wait_for_state(Running): seen, or given up after START_TIMEOUT in any state.
Wait ==
  /\ pc = "wait"
  /\ \/ svc[Target] = "running" /\ Goto("unlink")
     \/ Goto("undo")
  /\ UNCHANGED <<engineVars, files>>

\* xray.exe run -test
Validate ==
  /\ pc = "validate"
  /\ Goto("spawn") \/ Goto("undo")
  /\ UNCHANGED <<engineVars, files>>

\* The child runs before it is assigned to the job object ...
Spawn ==
  /\ pc = "spawn"
  /\ \/ xray' = "loose" /\ Goto("assign")
     \/ UNCHANGED xray /\ Goto("undo")
  /\ UNCHANGED <<svc, orphan, held, overlooked, files>>

\* Mutant: a child that cannot be assigned is left to itself.
AssignAbandoning ==
  /\ pc = "assign"
  /\ \/ xray' = (IF xray = "loose" THEN "jobbed" ELSE None) /\ Goto("grace")
     \/ UNCHANGED xray /\ Goto("undo")
  /\ UNCHANGED <<svc, orphan, held, overlooked, files>>

\* ... and is killed when it cannot be, if that does not fail too.
Assign ==
  /\ pc = "assign"
  /\ \/ xray' = (IF xray = "loose" THEN "jobbed" ELSE None) /\ Goto("grace")
     \/ xray' \in {None, xray} /\ Goto("reap")
  /\ UNCHANGED <<svc, orphan, held, overlooked, files>>

\* child.wait() returns when the child has ended, however long that takes; when
\* it fails the child is let go, and may have survived.
Reap ==
  /\ pc = "reap"
  /\ xray' = None
  /\ orphan' = (orphan \/ xray # None)
  /\ Goto("undo")
  /\ UNCHANGED <<svc, held, overlooked, files>>

\* START_GRACE: an early exit drops the job, which kills what it holds.
Grace ==
  /\ pc = "grace"
  /\ \/ xray = "jobbed" /\ held' = TRUE /\ UNCHANGED xray /\ Goto("unlink")
     \/ xray' = None /\ UNCHANGED held /\ Goto("undo")
  /\ UNCHANGED <<svc, orphan, overlooked, files>>

\* The plaintext goes away before the connection is reported.
Unlink ==
  /\ pc = "unlink"
  /\ \/ conf' = [conf EXCEPT ![Target] = FALSE] /\ Return(TRUE)
     \/ UNCHANGED conf /\ Goto("undo")
  /\ UNCHANGED <<engineVars, temp>>

\* let _ = cleanup(): its own failure is not looked at.
Undo ==
  /\ pc = "undo"
  /\ \E ok \in BOOLEAN : Clean(Target, ok)
  /\ Return(FALSE)

ConnectStep ==
  \/ Cleanup \/ Verify \/ Write \/ Rename \/ Create \/ Launch \/ Wait
  \/ Validate \/ Spawn \/ Assign \/ Reap \/ Grace \/ Unlink \/ Undo

-----------------------------------------------------------------------------
(* The operating system *)

\* A tunnel service moves by itself: it comes up, gives up, stops.
SvcMoves(k) ==
  /\ \/ svc[k] = "starting" /\ svc' = [svc EXCEPT ![k] = "running"]
     \/ svc[k] \in {"starting", "running", "stopping"}
          /\ svc' = [svc EXCEPT ![k] = "stopped"]
  /\ UNCHANGED <<xray, orphan, held, overlooked, files, active, pc, call, failed>>

XrayExits ==
  /\ \/ xray # None /\ xray' = None /\ UNCHANGED orphan
     \/ orphan /\ orphan' = FALSE /\ UNCHANGED xray
  /\ UNCHANGED <<svc, held, overlooked, files, active, pc, call, failed>>

\* Service stop between two requests: the processor is dropped, and with it the
\* Xray engine, whose Drop cleans up; the tunnel services are not touched.
Shutdown ==
  /\ pc = "idle"
  /\ \E ok \in BOOLEAN : CleanXray(ok)
  /\ pc' = "dead" /\ active' = None
  /\ UNCHANGED <<call, failed>>

\* The service process is killed: the kernel closes the job handle.
Crash ==
  /\ pc # "dead"
  /\ pc' = "dead" /\ active' = None /\ held' = FALSE
  /\ xray' = None
  /\ orphan' = (orphan \/ xray = "loose")
  /\ UNCHANGED <<svc, overlooked, files, call, failed>>

Next ==
  \/ Boot \/ BootStep
  \/ \E k \in Protocols, killSwitch \in BOOLEAN : Connect(k, killSwitch)
  \/ Disconnect
  \/ ClearStep
  \/ ConnectStep
  \/ \E k \in ScmEngines : SvcMoves(k)
  \/ XrayExits
  \/ Shutdown
  \/ Crash

Spec == Init /\ [][Next]_vars

-----------------------------------------------------------------------------
(* Properties *)

\* The engines that carry the traffic, may come to carry it, or still do, but
\* for those whose service the code has taken for absent and for an xray.exe it
\* has let go without a job (orphan).
Engaged ==
  {k \in ScmEngines \ overlooked : svc[k] \in {"starting", "running", "stopping"}}
    \cup (IF xray # None THEN {"VlessReality"} ELSE {})

\* No sequence of connects, failed cleanups, late starts, crashes and restarts
\* engages two engines the service manages at the same time
\* (docs/architecture/0012-xray-vless-reality-windows-engine.md: only one Kenai
\* tunnel can be active).  Two tunnels are excepted, that of a service whose
\* open_service failed and that of an xray.exe outside any job.
AtMostOneTunnel == Cardinality(Engaged) <= 1

BackendInv == TypeOK /\ AtMostOneTunnel

\* An engine that is not the active one never carries the traffic while the
\* backend has an active one: is_connected and statistics, which ask the active
\* engine only, speak about the tunnel that runs.
ActiveIsTheOnlyTunnel == active # None => Engaged \subseteq {active}

\* Between two calls, after one that succeeded, no plaintext configuration of
\* any engine is on disk, whatever earlier calls and crashes left there.
NoPlaintextAfterSuccess ==
  pc = "idle" /\ ~failed /\ call.op # "start" =>
    \A k \in Protocols : ~conf[k] /\ ~temp[k]

\* How a call of the backend looks to the command processor.
ContractCall ==
  CASE pc = "dead" -> "down"
    [] pc \in BootSteps -> "boot"
    [] pc = "idle" -> "rest"
    [] OTHER -> IF call.op = "connect" THEN call.target ELSE "disconnect"

ContractErred == pc = "idle" /\ failed

Contract == INSTANCE BackendContract
              WITH engaged <- Engaged, call <- ContractCall, erred <- ContractErred

\* The three engines taken together keep the contract the command processor
\* relies on, through every failure, late start, crash and restart: an engine
\* is engaged only from nothing and only by a connect for it, Ok from disconnect
\* means that nothing is, and a service that started found nothing.
KeepsContract == Contract!Spec

\* Whatever is killed, dropped, shut down or fails to clean up, and in whatever
\* order, an xray.exe that was assigned to its job never runs on without its
\* engine, let alone one that was reported connected
\* (0012-xray-vless-reality-windows-engine.md: a crash or shutdown closes the job
\* and Windows terminates Xray).  One that was not assigned can: the service dies
\* before that, or while it reaps the child it could not assign, or the results
\* of kill and wait that it ignores were both errors.
CrashTerminatesXray ==
  [][orphan' /\ ~orphan =>
       xray = "loose" /\ active = None /\ pc \in {"assign", "reap"}]_vars
=============================================================================
