--------------------------- MODULE VaultContract ---------------------------
(***************************************************************************)
(* What the command processor relies on when it calls a ProfileVault       *)
(* (trait ProfileVault of crates/vpn_service_core/src/lib.rs): a profile   *)
(* is held from the answer that gives its handle to the request to delete  *)
(* it, through every end of the process and of the computer; the handle    *)
(* given is not one that is held already; and a held profile is loaded as  *)
(* it was stored.  Of a handle that is not held nothing is promised.       *)
(***************************************************************************)
CONSTANTS Protocols, Handles, Profiles,
          HandleProtocol,   \* what the prefix of a handle says
          ProfileProtocol,
          NoHandle, NoProfile

VARIABLES held,             \* the profile held for each handle
          asked,            \* the request in progress
          answer            \* the answer to the last one

contractVars == <<held, asked, answer>>

Nobody == [call |-> "none", handle |-> NoHandle, profile |-> NoProfile]

Requests ==
  [call : {"store"}, handle : {NoHandle}, profile : Profiles]
    \cup [call : Protocols \cup {"delete"}, handle : Handles, profile : {NoProfile}]

Errors == {"PROFILE_NOT_FOUND", "PROFILE_STORE_UNAVAILABLE", "INVALID_PROFILE"}

Answers == [code : {"NONE", "STORED", "LOADED", "DELETED"} \cup Errors,
            handle : Handles \cup {NoHandle}, profile : Profiles \cup {NoProfile}]

Said(code, h, p) == [code |-> code, handle |-> h, profile |-> p]

Silence == Said("NONE", NoHandle, NoProfile)

ContractInit ==
  /\ held = [h \in Handles |-> NoProfile]
  /\ asked = Nobody
  /\ answer = Silence

Asks ==
  /\ asked = Nobody
  /\ asked' \in Requests
  /\ answer' = Silence
  /\ UNCHANGED held

Returns == asked # Nobody /\ asked' = Nobody

StoreAnswered == \E h \in Handles :
  /\ Returns
  /\ asked.call = "store"
  /\ held[h] = NoProfile
  /\ held' = [held EXCEPT ![h] = asked.profile]
  /\ answer' = Said("STORED", h, NoProfile)

\* Loading with the function of the handle's protocol.
LoadAnswered ==
  /\ Returns
  /\ asked.call # "store"
  /\ asked.call = HandleProtocol[asked.handle]
  /\ held[asked.handle] # NoProfile
  /\ answer' = Said("LOADED", NoHandle, held[asked.handle])
  /\ UNCHANGED held

\* Nothing is promised of a handle that is not held.
StrayAnswered ==
  /\ Returns
  /\ asked.call # "store"
  /\ held[asked.handle] = NoProfile
  /\ answer' \in Answers
  /\ UNCHANGED held

\* A request to delete takes the profile away before it is answered ...
Dropped ==
  /\ asked.call = "delete"
  /\ held' = [held EXCEPT ![asked.handle] = NoProfile]
  /\ UNCHANGED <<asked, answer>>

\* ... and any request can fail, but a held profile is never "not found" by the
\* function of its protocol.
Failed == \E error \in Errors :
  /\ Returns
  /\ asked.handle # NoHandle =>
       \/ error = "PROFILE_STORE_UNAVAILABLE"
       \/ asked.call \notin {"delete", HandleProtocol[asked.handle]}
  /\ answer' = Said(error, NoHandle, NoProfile)
  /\ UNCHANGED held

\* The process or the computer goes down, with the request.
Lost ==
  /\ asked' = Nobody
  /\ answer' = Silence
  /\ UNCHANGED held

ContractNext ==
  \/ Asks \/ StoreAnswered \/ LoadAnswered \/ StrayAnswered
  \/ Dropped \/ Failed \/ Lost

ContractSpec == ContractInit /\ [][ContractNext]_contractVars
=============================================================================
