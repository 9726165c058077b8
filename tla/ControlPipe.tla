---------------------------- MODULE ControlPipe ----------------------------
(***************************************************************************)
(* The named pipe between the desktop application and the Windows service: *)
(* serve and handle_one of services/windows_vpn_service/src/ipc.rs, the    *)
(* service lifecycle of main.rs around them, and the client side, exchange *)
(* of apps/desktop/.../windows_profile_provisioner.dart.                   *)
(*                                                                         *)
(* There is one pipe instance and one request per connection.  What a      *)
(* command does is in ServiceCore; here it is executed or not.  A member   *)
(* of Clients is the place of one exchange: the application makes several  *)
(* at once, and a place is used again when the service is done with it.    *)
(***************************************************************************)
EXTENDS Naturals, FiniteSets

CONSTANTS Clients,
          OsFaults          \* a system call of the accept loop can fail

ASSUME OsFaultsAssumption == OsFaults \in BOOLEAN

VARIABLES service,          \* where the service is
          stop,             \* the shutdown watch: Stop was asked
          client,           \* whose pipe the server end is connected to
          exchange,         \* the client end of each exchange
          outcome,          \* how the last exchange of each client ended
          executed          \* history: how often its command was executed

serverVars == <<service, stop, client>>
clientVars == <<exchange, outcome, executed>>
vars == <<service, stop, client, exchange, outcome, executed>>

Nobody == "nobody"

ASSUME ClientsAssumption == Nobody \notin Clients

\* "broken": serve returned an error.  run_service then returns without having
\* reported Stopped, and the dispatcher keeps the process.
Working == {"starting", "creating", "listening", "checking", "reading",
            "processing", "writing"}
ServiceStates == Working \cup {"offline", "returned", "stopped", "broken"}

\* closed, opened, a request or garbage was written, an answer waits.
ClientEnds == {"closed", "opened", "asked", "garbled", "answered", "refused"}
Outcomes == {"none", "answered", "refused", "unavailable", "timedOut", "cut"}

TypeOK ==
  /\ service \in ServiceStates
  /\ stop \in BOOLEAN
  /\ client \in Clients \cup {Nobody}
  /\ exchange \in [Clients -> ClientEnds]
  /\ outcome \in [Clients -> Outcomes]
  /\ executed \in [Clients -> 0..2]

Init ==
  /\ service = "offline"
  /\ stop = FALSE
  /\ client = Nobody
  /\ exchange = [c \in Clients |-> "closed"]
  /\ outcome = [c \in Clients |-> "none"]
  /\ executed = [c \in Clients |-> 0]

-----------------------------------------------------------------------------
(* The service *)

\* The service manager starts the process, at boot or after it died.
Launch ==
  /\ service = "offline"
  /\ service' = "starting"
  /\ stop' = FALSE
  /\ UNCHANGED <<client, clientVars>>

\* system_default of the vault and the engines: a cleanup that fails ends serve.
Prepare ==
  /\ service = "starting"
  /\ service' \in {"creating"} \cup IF OsFaults THEN {"broken"} ELSE {}
  /\ UNCHANGED <<stop, client, clientVars>>

\* The head of the loop: a stop seen there ends it, else the next pipe instance
\* is made.  There may be one only, and the last client may still hold its end.
CreateServer ==
  /\ service = "creating"
  /\ \/ stop /\ service' = "returned"
     \/ ~stop /\ service' = "listening"
     \/ /\ ~stop
        /\ OsFaults \/ \E c \in Clients : exchange[c] # "closed"
        /\ service' = "broken"
  /\ UNCHANGED <<stop, client, clientVars>>

\* Mutant: handle_one is awaited without a select!.
StopSeenListening ==
  /\ stop
  /\ service = "listening"
  /\ service' = "returned"
  /\ client' = Nobody
  /\ UNCHANGED <<stop, clientVars>>

\* Mutant: Stop is reported as soon as it is seen.
StopWhereSeen ==
  /\ stop
  /\ service \in {"listening", "reading", "writing"}
  /\ service' = "stopping"
  /\ client' = Nobody
  /\ UNCHANGED <<stop, clientVars>>

\* select!: the stop branch of either await drops the pipe.
StopSeen ==
  /\ stop
  /\ service \in {"listening", "reading", "writing"}
  /\ service' = "returned"
  /\ client' = Nobody
  /\ UNCHANGED <<stop, clientVars>>

\* caller_authorization: a client of another session is dropped; one that
\* cannot be identified, its process being gone, ends serve.
Authorize ==
  /\ service = "checking"
  /\ \/ service' = "reading" /\ UNCHANGED client
     \/ service' = "creating" /\ client' = Nobody
     \/ /\ OsFaults \/ exchange[client] = "closed"
        /\ service' = "broken" /\ client' = Nobody
  /\ UNCHANGED <<stop, clientVars>>

\* Mutant: the error of a read is not looked at.
ReadFrameAgain ==
  /\ service = "reading"
  /\ \/ exchange[client] = "garbled" /\ service' = "writing" /\ UNCHANGED client
     \/ exchange[client] = "asked" /\ service' = "processing" /\ UNCHANGED client
  /\ UNCHANGED <<stop, clientVars>>

\* Mutant: a frame of the right size is processed without being decoded.
ReadFrameUndecoded ==
  /\ service = "reading"
  /\ \/ exchange[client] = "closed" /\ service' = "creating" /\ client' = Nobody
     \/ /\ exchange[client] \in {"garbled", "asked"}
        /\ service' = "processing" /\ UNCHANGED client
  /\ UNCHANGED <<stop, clientVars>>

\* A frame that cannot be read drops the client, one that cannot be decoded is
\* answered, the others are processed.
ReadFrame ==
  /\ service = "reading"
  /\ \/ exchange[client] = "closed" /\ service' = "creating" /\ client' = Nobody
     \/ exchange[client] = "garbled" /\ service' = "writing" /\ UNCHANGED client
     \/ exchange[client] = "asked" /\ service' = "processing" /\ UNCHANGED client
  /\ UNCHANGED <<stop, clientVars>>

\* process does not await: neither a stop nor the client's closing is seen.
Process ==
  /\ service = "processing"
  /\ service' = "writing"
  /\ executed' = [executed EXCEPT ![client] = @ + 1]
  /\ UNCHANGED <<stop, client, exchange, outcome>>

\* write_response: the answer waits in the pipe; a client that has closed its
\* end makes the write fail, and the error ends serve.
WriteResponse ==
  /\ service = "writing"
  /\ client' = Nobody
  /\ \/ /\ exchange[client] # "closed"
        /\ exchange' = [exchange EXCEPT ![client] =
                          IF @ = "asked" THEN "answered" ELSE "refused"]
        /\ service' = "creating"
     \/ /\ exchange[client] = "closed"
        /\ service' = "broken"
        /\ UNCHANGED exchange
  /\ UNCHANGED <<stop, outcome, executed>>

\* run_service reports Stopped after serve returned Ok, and only then.
ReportStopped ==
  /\ service = "returned"
  /\ service' = "stopped"
  /\ UNCHANGED <<stop, client, clientVars>>

ServiceStep ==
  \/ Prepare \/ CreateServer \/ StopSeen \/ Authorize \/ ReadFrame \/ Process
  \/ WriteResponse \/ ReportStopped

-----------------------------------------------------------------------------
(* The service manager and the machine *)

\* The Stop control sets the watch, whatever the loop is doing.
AskStop ==
  /\ service \in Working \cup {"broken"}
  /\ ~stop
  /\ stop' = TRUE
  /\ UNCHANGED <<service, client, clientVars>>

\* The process is killed; or the service was stopped and is started again.
ProcessEnds ==
  /\ service \in Working \cup {"broken", "stopped"}
  /\ service' = "offline"
  /\ client' = Nobody
  /\ UNCHANGED <<stop, clientVars>>

-----------------------------------------------------------------------------
(* The client *)

Finish(c, how) ==
  /\ exchange' = [exchange EXCEPT ![c] = "closed"]
  /\ outcome' = [outcome EXCEPT ![c] = how]

\* An exchange begins by opening the one instance ...
Open(c) ==
  /\ exchange[c] = "closed" /\ service = "listening"
  /\ exchange' = [exchange EXCEPT ![c] = "opened"]
  /\ outcome' = [outcome EXCEPT ![c] = "none"]
  /\ executed' = [executed EXCEPT ![c] = 0]
  /\ client' = c
  /\ service' = "checking"
  /\ UNCHANGED stop

\* ... which fails at once when it is taken or missing.
OpenFails(c) ==
  /\ exchange[c] = "closed" /\ service # "listening" /\ client # c
  /\ outcome' = [outcome EXCEPT ![c] = "unavailable"]
  /\ executed' = [executed EXCEPT ![c] = 0]
  /\ UNCHANGED <<serverVars, exchange>>

Send(c) ==
  /\ exchange[c] = "opened" /\ client = c
  /\ \E frame \in {"asked", "garbled"} :
       exchange' = [exchange EXCEPT ![c] = frame]
  /\ UNCHANGED <<serverVars, outcome, executed>>

Receive(c) ==
  /\ exchange[c] \in {"answered", "refused"}
  /\ Finish(c, exchange[c])
  /\ UNCHANGED <<serverVars, executed>>

\* The other end was dropped without an answer.
Cut(c) ==
  /\ exchange[c] \in {"opened", "asked", "garbled"} /\ client # c
  /\ Finish(c, "cut")
  /\ UNCHANGED <<serverVars, executed>>

\* The timeout of any of the awaits, or the end of the application.
GiveUp(c) ==
  /\ exchange[c] # "closed"
  /\ Finish(c, "timedOut")
  /\ UNCHANGED <<serverVars, executed>>

ClientStep(c) ==
  Open(c) \/ OpenFails(c) \/ Send(c) \/ Receive(c) \/ Cut(c) \/ GiveUp(c)

Next ==
  \/ Launch
  \/ ServiceStep
  \/ AskStop
  \/ ProcessEnds
  \/ \E c \in Clients : ClientStep(c)

\* The loop runs, and the service manager restarts a process that ended
\* (installer/KenaiVPN.nsi, sc failure).  Nobody has to ask, to send or to stop.
Fairness == WF_vars(ServiceStep) /\ WF_vars(Launch)

Spec == Init /\ [][Next]_vars /\ Fairness

\* Every await of an exchange has a timeout, while its application runs.
ClientsTimeOut == \A c \in Clients : WF_vars(GiveUp(c))

-----------------------------------------------------------------------------
(* Properties *)

\* What an exchange ended with tells whether its command was executed: once when
\* it was answered, not at all when the pipe was unavailable or the frame was
\* refused, and never twice, whenever the client gave up.  Only a timeout and a
\* cut leave it open.
OutcomeTellsTheTruth ==
  \A c \in Clients :
    /\ outcome[c] = "answered" => executed[c] = 1
    /\ outcome[c] \in {"unavailable", "refused"} => executed[c] = 0
    /\ executed[c] <= 1

\* The server end is connected while a request is looked at, and only then.
ConnectedWhileServing ==
  client # Nobody <=> service \in {"checking", "reading", "processing", "writing"}

\* How far the service is with its client, and what the client may have seen.
ServiceKnowsItsClient ==
  client # Nobody =>
    /\ exchange[client] \in {"closed", "opened", "asked", "garbled"}
    /\ outcome[client] = IF exchange[client] = "closed" THEN "timedOut" ELSE "none"
    /\ service # "writing" => executed[client] = 0
    /\ service = "processing" => exchange[client] \in {"closed", "asked"}
    /\ service = "writing" =>
         /\ exchange[client] # "opened"
         /\ exchange[client] = "asked" => executed[client] = 1

\* A command is counted for an exchange that has been answered, or may be.
CountFollowsExchange ==
  \A c \in Clients :
    /\ exchange[c] # "closed" => outcome[c] = "none"
    /\ exchange[c] = "answered" => executed[c] = 1
    /\ exchange[c] \in {"opened", "garbled", "refused"} => executed[c] = 0

\* What the truth of the outcomes rests on.
PipeInv ==
  /\ TypeOK
  /\ OutcomeTellsTheTruth
  /\ ConnectedWhileServing
  /\ ServiceKnowsItsClient
  /\ CountFollowsExchange

\* A Stop control is answered by Stopped however silent the connected client is,
\* unless an error or the end of the process got in first.
StopIsAnswered ==
  stop /\ service \in Working ~> service \in {"stopped", "broken", "offline"}

\* A client that times out holds the pipe no longer than that: the service comes
\* back to a free instance, unless it is stopped or an error ended the loop.
PipeComesBack ==
  ClientsTimeOut =>
    (service \in Working ~> service \in {"listening", "broken", "offline"} \/ stop)

-----------------------------------------------------------------------------
(* What the documentation says and the code does not do *)

\* docs/architecture/0013-windows-installer.md: the service has bounded recovery
\* restarts.  They are for a process that ends; one whose loop ended with an
\* error has not reported Stopped, stays, and is never restarted.
RecoveryRestarts ==
  service = "broken" /\ ~stop ~> service = "starting" \/ stop
=============================================================================
