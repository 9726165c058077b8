-------------------------- MODULE BackendContract --------------------------
(***************************************************************************)
(* What the command processor relies on when it calls a VpnBackend (trait  *)
(* VpnBackend of crates/vpn_service_core/src/lib.rs): calls come one at a  *)
(* time, at most one engine is engaged, an engine becomes engaged only     *)
(* inside a connect for it and from nothing, Ok from disconnect leaves     *)
(* nothing engaged, Ok from connect nothing else, and a started service    *)
(* finds nothing engaged.  An engine may drop out at any time.             *)
(*                                                                         *)
(* Engaged means: running, starting, or not stopped yet.                   *)
(***************************************************************************)
CONSTANT Protocols

VARIABLES engaged,          \* the engines that hold or may get the traffic
          call,             \* the call in progress
          erred             \* the call that returned last returned an error

vars == <<engaged, call, erred>>

Rest == "rest"              \* between two calls
Down == "down"              \* the service process is not running
Boot == "boot"              \* the service process starts
Stop == "disconnect"

Calls == {Rest, Down, Boot, Stop} \cup Protocols

TypeOK == engaged \in SUBSET Protocols /\ call \in Calls /\ erred \in BOOLEAN

Init == engaged = {} /\ call = Down /\ erred = FALSE

Begin == /\ call = Rest
         /\ call' \in Protocols \cup {Stop}
         /\ erred' = FALSE
         /\ UNCHANGED engaged

Engage == /\ call \in Protocols
          /\ engaged = {}
          /\ engaged' = {call}
          /\ UNCHANGED <<call, erred>>

\* An engine stops, by itself or because a cleanup reached it.
DropOut == /\ engaged' \in SUBSET engaged
           /\ UNCHANGED <<call, erred>>

ReturnOk == /\ engaged' \in SUBSET engaged
            /\ \/ call = Stop /\ engaged' = {}
               \/ call \in Protocols /\ engaged' \subseteq {call}
            /\ call' = Rest /\ erred' = FALSE

\* An error promises nothing about what is left engaged.
ReturnErr == /\ call \in Protocols \cup {Stop}
             /\ call' = Rest /\ erred' = TRUE
             /\ engaged' \in SUBSET engaged

Die == /\ call # Down
       /\ call' = Down /\ erred' = FALSE
       /\ engaged' \in SUBSET engaged

Start == call = Down /\ call' = Boot /\ UNCHANGED <<engaged, erred>>

Started == call = Boot /\ engaged = {} /\ call' = Rest /\ UNCHANGED <<engaged, erred>>

Next == Begin \/ Engage \/ DropOut \/ ReturnOk \/ ReturnErr \/ Die \/ Start \/ Started

Spec == Init /\ [][Next]_vars
=============================================================================
