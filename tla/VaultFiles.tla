----------------------------- MODULE VaultFiles -----------------------------
(***************************************************************************)
(* DpapiProfileVault of services/windows_vpn_service/src/profile_vault.rs, *)
(* one call of the operating system per step.  The processor calls it for  *)
(* one request at a time.  The process can end between any two steps and   *)
(* keeps what a read finds (seen); when the power goes, what was not       *)
(* flushed since is anything between the old and the new (disk, seen).     *)
(***************************************************************************)
EXTENDS Naturals

CONSTANTS Protocols, Handles, Profiles, HandleProtocol, ProfileProtocol,
          NoHandle, NoProfile,
          Absent,           \* no file
          Partial,          \* an empty or cut file: nothing DPAPI accepts
          Attempts          \* draws of a handle for one store

VARIABLES seen,             \* the file of each handle, as a read finds it
          disk,             \* ... and as it would survive a power loss
          pc,               \* the next call of the request in progress
          target,           \* the handle drawn for the store in progress
          tries,            \* handles drawn for it
          held, asked, answer

Contract == INSTANCE VaultContract

vars == <<seen, disk, pc, target, tries, held, asked, answer>>
storeVars == <<target, tries>>

ASSUME MarksAssumption ==
  /\ NoHandle \notin Handles
  /\ {NoProfile, Absent, Partial} \cap Profiles = {}
  /\ Absent # Partial

ASSUME ProtocolsAssumption ==
  /\ HandleProtocol \in [Handles -> Protocols]
  /\ ProfileProtocol \in [Profiles -> Protocols]
  /\ "WireGuard" \in Protocols
  /\ {"store", "delete", "none"} \cap Protocols = {}

ASSUME AttemptsAssumption == Attempts \in Nat

Contents == Profiles \cup {Absent, Partial}

Writing == {"write", "sync", "remove", "give"}

TypeOK ==
  /\ seen \in [Handles -> Contents]
  /\ disk \in [Handles -> Contents]
  /\ pc \in {"down", "idle", "draw", "read", "unlink", "unlinked"} \cup Writing
  /\ target \in Handles \cup {NoHandle}
  /\ tries \in 0 .. Attempts
  /\ held \in [Handles -> Profiles \cup {NoProfile}]
  /\ asked \in Contract!Requests \cup {Contract!Nobody}
  /\ answer \in Contract!Answers

Init ==
  /\ seen = [h \in Handles |-> Absent]
  /\ disk = seen
  /\ pc = "down"
  /\ target = NoHandle
  /\ tries = 0
  /\ Contract!ContractInit

-----------------------------------------------------------------------------
(* Calls *)

\* A request reaches the vault; what it calls first depends on the request.
\* The profiles are this application's and have passed decode_request:
\* encode_*_profile accepts them (AcceptedIsStorable of ProfileTransfer).
Ask ==
  /\ pc = "idle"
  /\ Contract!Asks
  /\ pc' = IF asked'.call = "store" THEN "draw"
           ELSE IF asked'.call = "delete" THEN "unlink"
           ELSE "read"
  /\ target' = NoHandle
  /\ tries' = 0
  /\ UNCHANGED <<seen, disk>>

\* The request returns.
Return(code, h, p) ==
  /\ asked' = Contract!Nobody
  /\ answer' = Contract!Said(code, h, p)
  /\ pc' = "idle"

ReturnError(error) ==
  Return(error, NoHandle, NoProfile) /\ UNCHANGED <<held, storeVars>>

\* protect, random_handle or the open fails, with any error but AlreadyExists.
StoreFails ==
  /\ pc = "draw"
  /\ ReturnError("PROFILE_STORE_UNAVAILABLE")
  /\ UNCHANGED <<seen, disk>>

\* Mutant: create(true) where the code has create_new(true).
CreateOver(h) ==
  /\ pc = "draw"
  /\ tries < Attempts
  /\ HandleProtocol[h] = ProfileProtocol[asked.profile]
  /\ seen' = [seen EXCEPT ![h] = Partial]
  /\ target' = h
  /\ pc' = "write"
  /\ UNCHANGED <<disk, tries, held, asked, answer>>

\* random_handle draws h, and create_new makes its file.
Create(h) ==
  /\ pc = "draw"
  /\ tries < Attempts
  /\ HandleProtocol[h] = ProfileProtocol[asked.profile]
  /\ seen[h] = Absent
  /\ seen' = [seen EXCEPT ![h] = Partial]
  /\ target' = h
  /\ pc' = "write"
  /\ UNCHANGED <<disk, tries, held, asked, answer>>

\* AlreadyExists: another handle is drawn, Attempts times in all.
Collide(h) ==
  /\ pc = "draw"
  /\ tries < Attempts
  /\ HandleProtocol[h] = ProfileProtocol[asked.profile]
  /\ seen[h] # Absent
  /\ tries' = tries + 1
  /\ UNCHANGED <<seen, disk, pc, target, held, asked, answer>>

\* The loop ends without a file.
GiveUp ==
  /\ pc = "draw"
  /\ tries = Attempts
  /\ ReturnError("PROFILE_STORE_UNAVAILABLE")
  /\ UNCHANGED <<seen, disk>>

\* write_all: everything, or an error after any part of it.
Write ==
  /\ pc = "write"
  /\ \/ seen' = [seen EXCEPT ![target] = asked.profile] /\ pc' = "sync"
     \/ UNCHANGED seen /\ pc' = "remove"
  /\ UNCHANGED <<disk, storeVars, held, asked, answer>>

\* Mutant: file.flush() where the code has file.sync_all().
FlushOnly ==
  /\ pc = "sync"
  /\ pc' \in {"give", "remove"}
  /\ UNCHANGED <<seen, disk, storeVars, held, asked, answer>>

\* sync_all: the file is on the disk, or an error.
Sync ==
  /\ pc = "sync"
  /\ \/ disk' = [disk EXCEPT ![target] = seen[target]] /\ pc' = "give"
     \/ UNCHANGED disk /\ pc' = "remove"
  /\ UNCHANGED <<seen, storeVars, held, asked, answer>>

\* let _ = remove_file: the result is ignored, the error is that of the write.
Remove ==
  /\ pc = "remove"
  /\ seen' \in {seen, [seen EXCEPT ![target] = Absent]}
  /\ ReturnError("PROFILE_STORE_UNAVAILABLE")
  /\ UNCHANGED disk

\* Ok(profile_id).
Give ==
  /\ pc = "give"
  /\ held' = [held EXCEPT ![target] = asked.profile]
  /\ Return("STORED", target, NoProfile)
  /\ UNCHANGED <<seen, disk, storeVars>>

\* What a load returns when nothing fails.  Only load_wireguard reads the file
\* of another protocol, and its decoder refuses it.
LoadResult(protocol, h) ==
  IF protocol # "WireGuard" /\ HandleProtocol[h] # protocol THEN "PROFILE_NOT_FOUND"
  ELSE IF seen[h] = Absent THEN "PROFILE_NOT_FOUND"
  ELSE IF seen[h] = Partial THEN "PROFILE_STORE_UNAVAILABLE"
  ELSE IF ProfileProtocol[seen[h]] # protocol THEN "INVALID_PROFILE"
  ELSE "LOADED"

\* load_*: read, unprotect, decode.
Load ==
  /\ pc = "read"
  /\ LET result == LoadResult(asked.call, asked.handle)
     IN  Return(result, NoHandle,
                IF result = "LOADED" THEN seen[asked.handle] ELSE NoProfile)
  /\ UNCHANGED <<seen, disk, held, storeVars>>

\* The read or DPAPI fails.
LoadFails ==
  /\ pc = "read"
  /\ ReturnError("PROFILE_STORE_UNAVAILABLE")
  /\ UNCHANGED <<seen, disk>>

\* delete: remove_file.  From here on the caller no longer counts on the profile.
Unlink ==
  /\ pc = "unlink"
  /\ seen[asked.handle] # Absent
  /\ seen' = [seen EXCEPT ![asked.handle] = Absent]
  /\ held' = [held EXCEPT ![asked.handle] = NoProfile]
  /\ pc' = "unlinked"
  /\ UNCHANGED <<disk, storeVars, asked, answer>>

Deleted ==
  /\ pc = "unlinked"
  /\ Return("DELETED", NoHandle, NoProfile)
  /\ UNCHANGED <<seen, disk, held, storeVars>>

DeleteFails ==
  /\ pc = "unlink"
  /\ ReturnError(IF seen[asked.handle] = Absent THEN "PROFILE_NOT_FOUND"
                 ELSE "PROFILE_STORE_UNAVAILABLE")
  /\ UNCHANGED <<seen, disk>>

-----------------------------------------------------------------------------
(* The process, the disk and the power *)

GoesDown ==
  /\ pc' = "down"
  /\ asked' = Contract!Nobody
  /\ answer' = Contract!Silence
  /\ target' = NoHandle
  /\ tries' = 0
  /\ UNCHANGED held

\* The service is stopped or killed: nothing of what a read finds is lost.
Killed == pc # "down" /\ GoesDown /\ UNCHANGED <<seen, disk>>

\* What may be found of a file after a power loss.
Survivors(h) ==
  IF seen[h] = disk[h] THEN {seen[h]}
  ELSE IF seen[h] = Absent THEN {Absent, disk[h]}
  ELSE {Absent, Partial, disk[h], seen[h]}

PowerLoss ==
  /\ GoesDown
  /\ seen' \in [Handles -> Contents]
  /\ \A h \in Handles : seen'[h] \in Survivors(h)
  /\ disk' = seen'

\* The system writes a file out on its own.
Settle(h) ==
  /\ disk[h] # seen[h]
  /\ disk' = [disk EXCEPT ![h] = seen[h]]
  /\ UNCHANGED <<seen, pc, storeVars, held, asked, answer>>

\* new: the directory is there and has its ACL.
Start ==
  /\ pc = "down"
  /\ pc' = "idle"
  /\ UNCHANGED <<seen, disk, storeVars, held, asked, answer>>

Next ==
  \/ Ask \/ StoreFails \/ GiveUp \/ Write \/ Sync \/ Remove \/ Give
  \/ \E h \in Handles : Create(h) \/ Collide(h) \/ Settle(h)
  \/ Load \/ LoadFails \/ Unlink \/ Deleted \/ DeleteFails
  \/ Killed \/ PowerLoss \/ Start

Spec == Init /\ [][Next]_vars

-----------------------------------------------------------------------------
(* Properties *)

\* A handle that was given out and not asked to be deleted names a whole file
\* that no power loss can take.
HeldIsDurable ==
  \A h \in Handles :
    held[h] # NoProfile => seen[h] = held[h] /\ disk[h] = held[h]

\* No file has a content that its handle's prefix does not announce.
PrefixTellsTheProtocol ==
  \A h \in Handles, p \in Profiles :
    p \in {seen[h], disk[h]} => ProfileProtocol[p] = HandleProtocol[h]

\* Each call is made for a request it belongs to.
CallsFollowTheRequest ==
  /\ (pc = "draw" \/ pc \in Writing) => asked.call = "store"
  /\ pc = "read" => asked.call \in Protocols
  /\ pc \in {"unlink", "unlinked"} => asked.call = "delete"
  /\ pc \in {"down", "idle"} => asked = Contract!Nobody

\* The file being written is of a handle nobody holds, and is whole where the
\* code goes on as if it were.
WritingIsOwn ==
  /\ pc \in Writing =>
       /\ target \in Handles
       /\ held[target] = NoProfile
       /\ HandleProtocol[target] = ProfileProtocol[asked.profile]
  /\ pc \in {"sync", "give"} => seen[target] = asked.profile
  /\ pc = "give" => disk[target] = asked.profile

\* What store_*, load_* and delete have in common, however they are interrupted:
\* files written over, files cut by a power loss after their handle was given,
\* or files under the wrong prefix would break it.
VaultInv ==
  /\ TypeOK
  /\ HeldIsDurable
  /\ PrefixTellsTheProtocol
  /\ CallsFollowTheRequest
  /\ WritingIsOwn
  /\ pc = "unlinked" => held[asked.handle] = NoProfile

\* The vault is what the processor relies on: a profile it gave a handle for is
\* loaded as it was stored, after any failed call, crash or power loss, until its
\* deletion is asked for.
KeepsContract == Contract!ContractSpec
=============================================================================
