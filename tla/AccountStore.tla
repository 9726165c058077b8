---------------------------- MODULE AccountStore ----------------------------
(***************************************************************************)
(* SecureAccountRepository of packages/kenai_core/.../secure_account_      *)
(* repository.dart with a profile provisioner, one await at a time: the    *)
(* activation, its undoing and the sign-out move profiles between the      *)
(* service's vault and the application's secure storage, and no            *)
(* transaction covers both.  The account screen that starts them is made   *)
(* anew on every navigation (shell/app_shell.dart), while what an older    *)
(* screen started goes on.  Every await can fail, a reply of the service   *)
(* can be lost after the service acted, and the application can end.       *)
(*                                                                         *)
(* The raw credentials vpn.wireguard, vpn.amneziawg and vpn.vless are left *)
(* out: with a provisioner nothing writes them; a delete of one that fails *)
(* looks like a failure of the await after it.                             *)
(***************************************************************************)
EXTENDS Naturals, FiniteSets

CONSTANTS Tasks,            \* operations that can be under way together
          Handles,          \* opaque handles: random, never used twice
          ProtocolCount,    \* WireGuard, AmneziaWG, VLESS, in this order
          CredentialSets    \* the protocols an activation may bring

NoHandle  == "no-handle"
Protocols == 1..ProtocolCount

ASSUME CountAssumption == ProtocolCount \in Nat \ {0}
ASSUME CredentialsAssumption == CredentialSets \subseteq SUBSET Protocols
ASSUME HandleAssumption == NoHandle \notin Handles

VARIABLES vault,            \* the handles of the profiles the service stores
          key,              \* account.activation_key is stored
          session,          \* account.session is stored
          handle,           \* the three vpn.*profile_handle values
          task,             \* the operations under way
          shown,            \* the account screen shows an account
          lossy             \* history: a profile can have been lost sight of

storage == <<key, session, handle>>
vars == <<vault, key, session, handle, task, shown, lossy>>

HandleOrNone == Handles \cup {NoHandle}

NoTask == [kind |-> "none", pc |-> "idle", i |-> 1,
           got |-> [p \in Protocols |-> NoHandle], creds |-> {},
           hit |-> FALSE, mounted |-> FALSE, outcome |-> "none"]

\* got: the handles provisioned, or those a sign-out has read; mounted: the
\* screen that started it is still the one on display; history: hit, an await
\* failed, and outcome, how the last operation that touched anything ended:
\* "undone" is an activation that failed and was cleaned up to the end.
TaskStates ==
  [kind : {"none", "activate", "signOut"},
   pc : {"idle", "api", "key", "import", "keep", "session", "undo", "clear",
         "read", "delete"},
   i : 1..(ProtocolCount + 2), got : [Protocols -> HandleOrNone],
   creds : SUBSET Protocols, hit : BOOLEAN, mounted : BOOLEAN,
   outcome : {"none", "done", "undone", "failed"}]

TypeOK ==
  /\ vault \in SUBSET Handles
  /\ key \in BOOLEAN /\ session \in BOOLEAN /\ shown \in BOOLEAN
  /\ handle \in [Protocols -> HandleOrNone]
  /\ task \in [Tasks -> TaskStates]
  /\ lossy \in BOOLEAN

Init ==
  /\ vault = {}
  /\ key = FALSE /\ session = FALSE /\ shown = FALSE
  /\ handle = [p \in Protocols |-> NoHandle]
  /\ task = [t \in Tasks |-> NoTask]
  /\ lossy = FALSE

-----------------------------------------------------------------------------
(* Tasks *)

At(t, pc) == task[t].pc = pc

Goto(t, pc, i) == task' = [task EXCEPT ![t].pc = pc, ![t].i = i]

\* The exception of an await.
FailTo(t, pc) == task' = [task EXCEPT ![t].pc = pc, ![t].i = 1, ![t].hit = TRUE]

\* Over the protocols in order, then on.
NextProtocol(t, loop, next) ==
  IF task[t].i < ProtocolCount THEN Goto(t, loop, task[t].i + 1) ELSE Goto(t, next, 1)

Ended(t, outcome, hit) ==
  [NoTask EXCEPT !.kind = task[t].kind, !.outcome = outcome, !.hit = hit]

\* A screen that is gone does not take the result: if (!mounted) return.
Succeed(t, account) ==
  /\ task' = [task EXCEPT ![t] = Ended(t, "done", task[t].hit)]
  /\ shown' = IF task[t].mounted THEN account ELSE shown

\* The exception that reaches the screen.
Throw(t, outcome, hit) == task' = [task EXCEPT ![t] = Ended(t, outcome, hit)]

Unused == Handles \ (vault \cup {handle[p] : p \in Protocols}
                       \cup {task[t].got[p] : t \in Tasks, p \in Protocols})

-----------------------------------------------------------------------------
(* The account screen *)

\* _restore: a read that fails leaves the screen as without an account.
Restore == shown' \in {session, FALSE}

OpenScreen ==
  /\ Restore
  /\ task' = [t \in Tasks |-> [task[t] EXCEPT !.mounted = FALSE]]
  /\ UNCHANGED <<vault, storage, lossy>>

\* _activate: _submitting keeps one screen from starting two.  There may be an
\* account: one that could not be read, or that an older screen has activated
\* since this one was opened.
StartActivation(t) ==
  /\ At(t, "idle") /\ ~shown
  /\ \A u \in Tasks : At(u, "idle") \/ ~task[u].mounted
  /\ task' = [task EXCEPT ![t] =
                [NoTask EXCEPT !.kind = "activate", !.pc = "api", !.mounted = TRUE,
                               !.outcome = task[t].outcome]]
  /\ lossy' = (lossy \/ session)
  /\ UNCHANGED <<vault, storage, shown>>

\* _signOut, the tunnel being stopped.
StartSignOut(t) ==
  /\ At(t, "idle") /\ shown
  /\ task' = [task EXCEPT ![t] =
                [NoTask EXCEPT !.kind = "signOut", !.pc = "read", !.mounted = TRUE,
                               !.outcome = task[t].outcome]]
  /\ UNCHANGED <<vault, storage, shown, lossy>>

-----------------------------------------------------------------------------
(* activate *)

ApiAnswers(t) ==
  /\ At(t, "api")
  /\ \E creds \in CredentialSets :
       task' = [task EXCEPT ![t].pc = "key", ![t].creds = creds]
  /\ UNCHANGED <<vault, storage, shown, lossy>>

ApiFails(t) ==
  /\ At(t, "api")
  /\ Throw(t, task[t].outcome, TRUE)
  /\ UNCHANGED <<vault, storage, shown, lossy>>

WriteKey(t) ==
  /\ At(t, "key")
  /\ key' = TRUE
  /\ Goto(t, "import", 1)
  /\ UNCHANGED <<vault, session, handle, shown, lossy>>

Import(t) ==
  /\ At(t, "import") /\ task[t].i \in task[t].creds
  /\ \E h \in Unused :
       /\ vault' = vault \cup {h}
       /\ task' = [task EXCEPT ![t].pc = "keep", ![t].got[task[t].i] = h]
  /\ UNCHANGED <<storage, shown, lossy>>

\* The service stored the profile; the reply does not arrive.
ImportLost(t) ==
  /\ At(t, "import") /\ task[t].i \in task[t].creds
  /\ \E h \in Unused : vault' = vault \cup {h}
  /\ lossy' = TRUE
  /\ FailTo(t, "undo")
  /\ UNCHANGED <<storage, shown>>

KeepHandle(t) ==
  /\ At(t, "keep")
  /\ handle' = [handle EXCEPT ![task[t].i] = task[t].got[task[t].i]]
  /\ NextProtocol(t, "import", "session")
  /\ UNCHANGED <<vault, key, session, shown, lossy>>

\* A protocol without a credential.
DropHandle(t) ==
  /\ At(t, "import") /\ task[t].i \notin task[t].creds
  /\ handle' = [handle EXCEPT ![task[t].i] = NoHandle]
  /\ NextProtocol(t, "import", "session")
  /\ UNCHANGED <<vault, key, session, shown, lossy>>

\* Mutant: the session is stored without waiting for the profiles.
WriteSessionEarly(t) ==
  /\ At(t, "session") \/ At(t, "import")
  /\ session' = TRUE
  /\ Succeed(t, TRUE)
  /\ UNCHANGED <<vault, key, handle, lossy>>

\* The session comes last and makes the activation count.
WriteSession(t) ==
  /\ At(t, "session")
  /\ session' = TRUE
  /\ Succeed(t, TRUE)
  /\ UNCHANGED <<vault, key, handle, lossy>>

\* Mutant: a failure is rethrown without undoing anything.
ActivationRethrows(t) ==
  /\ task[t].pc \in {"key", "import", "keep", "session"}
  /\ Throw(t, "undone", TRUE)
  /\ UNCHANGED <<vault, storage, shown, lossy>>

\* Mutant: the undoing ends before _clearAccountData.
ActivationFailsUncleared(t) ==
  /\ task[t].pc \in {"key", "import", "keep", "session"}
  /\ vault' = vault \ {task[t].got[p] : p \in Protocols}
  /\ Throw(t, "undone", TRUE)
  /\ UNCHANGED <<storage, shown, lossy>>

\* Any await of the try block throws.
ActivationFails(t) ==
  /\ task[t].pc \in {"key", "import", "keep", "session"}
  /\ FailTo(t, "undo")
  /\ UNCHANGED <<vault, storage, shown, lossy>>

\* deleteProfile of what was provisioned; whether it worked is not looked at.
Undo(t) ==
  /\ At(t, "undo")
  /\ LET h == task[t].got[task[t].i]
     IN  \/ vault' = vault \ {h} /\ UNCHANGED lossy
         \/ h \in vault /\ UNCHANGED vault /\ lossy' = TRUE
  /\ NextProtocol(t, "undo", "clear")
  /\ UNCHANGED <<storage, shown>>

-----------------------------------------------------------------------------
(* signOut *)

ReadHandle(t) ==
  /\ At(t, "read")
  /\ LET h == handle[task[t].i]
     IN  IF h = NoHandle THEN NextProtocol(t, "read", "clear")
         ELSE task' = [task EXCEPT ![t].pc = "delete", ![t].got[task[t].i] = h]
  /\ UNCHANGED <<vault, storage, shown, lossy>>

\* Mutant: PROFILE_NOT_FOUND is an error like the others.
DeleteFoundProfile(t) ==
  /\ At(t, "delete")
  /\ LET h == task[t].got[task[t].i]
     IN  IF h \in vault
         THEN /\ vault' = vault \ {h}
              /\ NextProtocol(t, "read", "clear")
         ELSE /\ Throw(t, "failed", task[t].hit)
              /\ UNCHANGED vault
  /\ UNCHANGED <<storage, shown, lossy>>

\* deleteProfile takes PROFILE_NOT_FOUND for done.
DeleteProfile(t) ==
  /\ At(t, "delete")
  /\ vault' = vault \ {task[t].got[task[t].i]}
  /\ NextProtocol(t, "read", "clear")
  /\ UNCHANGED <<storage, shown, lossy>>

\* Mutant: the sign-out goes on to clear after a delete that failed.
SignOutFailsOn(t) ==
  /\ task[t].pc \in {"read", "delete"}
  /\ FailTo(t, "clear")
  /\ UNCHANGED <<vault, storage, shown, lossy>>

\* A read or a delete throws: nothing has been cleared yet.
SignOutFails(t) ==
  /\ task[t].pc \in {"read", "delete"}
  /\ Throw(t, "failed", TRUE)
  /\ UNCHANGED <<vault, storage, shown, lossy>>

\* The reply to a delete that was done is lost.
DeleteLost(t) ==
  /\ At(t, "delete")
  /\ vault' = vault \ {task[t].got[task[t].i]}
  /\ Throw(t, "failed", TRUE)
  /\ UNCHANGED <<storage, shown, lossy>>

-----------------------------------------------------------------------------
(* _clearAccountData, the end of a sign-out and of a failed activation *)

ClearKey(t) ==
  /\ At(t, "clear") /\ task[t].i = 1
  /\ key' = FALSE
  /\ Goto(t, "clear", 2)
  /\ UNCHANGED <<vault, session, handle, shown, lossy>>

ClearSession(t) ==
  /\ At(t, "clear") /\ task[t].i = 2
  /\ session' = FALSE
  /\ Goto(t, "clear", 3)
  /\ UNCHANGED <<vault, key, handle, shown, lossy>>

\* Mutant: one key too many.
ClearHandlePast(t) ==
  /\ At(t, "clear") /\ task[t].i > 2
  /\ handle' = [handle EXCEPT ![task[t].i - 2] = NoHandle]
  /\ IF task[t].i <= ProtocolCount + 2
     THEN Goto(t, "clear", task[t].i + 1) /\ UNCHANGED shown
     ELSE Succeed(t, FALSE)
  /\ UNCHANGED <<vault, key, session, lossy>>

ClearHandle(t) ==
  /\ At(t, "clear") /\ task[t].i > 2
  /\ handle' = [handle EXCEPT ![task[t].i - 2] = NoHandle]
  /\ IF task[t].i < ProtocolCount + 2
     THEN Goto(t, "clear", task[t].i + 1) /\ UNCHANGED shown
     ELSE IF task[t].kind = "signOut" THEN Succeed(t, FALSE)
     ELSE Throw(t, "undone", task[t].hit) /\ UNCHANGED shown
  /\ UNCHANGED <<vault, key, session, lossy>>

\* A delete throws: the keys after it stay.
ClearFails(t) ==
  /\ At(t, "clear")
  /\ Throw(t, "failed", TRUE)
  /\ UNCHANGED <<vault, storage, shown, lossy>>

-----------------------------------------------------------------------------

\* The application ends anywhere and is opened again.
AppRestarts ==
  /\ \E t \in Tasks : ~At(t, "idle")
  /\ task' = [t \in Tasks |-> Ended(t, "failed", TRUE)]
  /\ lossy' = TRUE
  /\ Restore
  /\ UNCHANGED <<vault, storage>>

Activate(t) ==
  \/ ApiAnswers(t) \/ ApiFails(t) \/ WriteKey(t) \/ Import(t) \/ ImportLost(t)
  \/ KeepHandle(t) \/ DropHandle(t) \/ WriteSession(t) \/ ActivationFails(t)
  \/ Undo(t)

SignOut(t) == ReadHandle(t) \/ DeleteProfile(t) \/ SignOutFails(t) \/ DeleteLost(t)

Clear(t) == ClearKey(t) \/ ClearSession(t) \/ ClearHandle(t) \/ ClearFails(t)

Next ==
  \/ OpenScreen
  \/ \E t \in Tasks : \/ StartActivation(t) \/ StartSignOut(t)
                      \/ Activate(t) \/ SignOut(t) \/ Clear(t)
  \/ AppRestarts

Spec == Init /\ [][Next]_vars

-----------------------------------------------------------------------------
(* Properties *)

Idle == \A t \in Tasks : At(t, "idle")

Activating == {"api", "key", "import", "keep", "session", "undo"}

Referenced == {handle[p] : p \in Protocols} \ {NoHandle}

ActivationReturns(t) ==
  /\ task[t].kind = "activate" /\ task[t].pc \notin {"idle", "api"}
  /\ task'[t].pc = "idle" /\ task'[t].outcome = "done"

\* An activation that returned an account has stored all of it: the key, the
\* session, and for each protocol it brought the handle of a profile that the
\* vault holds, and no other (docs/architecture/0004-account-activation.md:
\* after the activation the key, the session and each profile are stored).
ActivationIsComplete ==
  [][\A t \in Tasks :
       ActivationReturns(t) =>
         /\ key' /\ session'
         /\ \A p \in Protocols :
              IF p \in task[t].creds THEN handle'[p] \in vault'
              ELSE handle'[p] = NoHandle]_vars

\* While nothing is under way, an account that is stored can connect, each of
\* its handles being in the vault, unless a sign-out was left half done.  An
\* activation that fails, over another account even, leaves none.
SessionIsUsable ==
  Idle /\ session /\ (\A t \in Tasks : task[t].outcome # "failed") =>
    Referenced \subseteq vault

\* A profile the vault still holds is never lost sight of by a sign-out: its
\* handle stays stored until the service has deleted it, through failed deletes,
\* lost replies and retries (0009-wireguard-profile-provisioning.md: a failed
\* logout preserves the handle so cleanup can be retried).
SignOutNeverOrphans ==
  [][\A p \in Protocols :
       /\ \E t \in Tasks : task[t].kind = "signOut" /\ ~At(t, "idle")
       /\ handle[p] \in vault
       => handle'[p] = handle[p] \/ handle[p] \notin vault']_vars

\* An operation fails only by a failure of its own: whatever an earlier one left
\* half done, the retry the user is asked for can work.
FailsOnlyByItself ==
  \A t \in Tasks :
    At(t, "idle") /\ task[t].outcome \in {"undone", "failed"} => task[t].hit

\* Profiles without a handle in the storage come only from lost replies, deletes
\* that failed, the end of the application, and an activation over an account
\* the screen does not show; one that merely fails takes back what it provisioned.
FailureLeavesNoProfile == Idle /\ ~lossy => vault \subseteq Referenced

\* Where an operation is tells what it is, and over what it counts.
StepsFollowTheKind ==
  \A t \in Tasks :
    /\ task[t].pc \in Activating => task[t].kind = "activate"
    /\ task[t].pc \in {"read", "delete"} => task[t].kind = "signOut"
    /\ At(t, "clear") => task[t].kind \in {"activate", "signOut"}
    /\ ~At(t, "clear") => task[t].i \in Protocols

\* Only an await that failed leads to the undoing.
UndoingWasHit ==
  \A t \in Tasks :
    task[t].kind = "activate" /\ task[t].pc \in {"undo", "clear"} => task[t].hit

\* Of the protocols an activation has gone over, those it brought have the
\* handle of a stored profile, and the others none.
ActivatedSoFar ==
  \A t \in Tasks, p \in Protocols :
    LET a == task[t]
        passed == a.pc = "session" \/ p < a.i
    IN  /\ a.pc \in {"api", "key"} => a.got[p] = NoHandle
        /\ a.pc \in {"import", "keep", "session"} =>
             /\ key
             /\ passed => handle[p] = a.got[p]
             /\ passed /\ p \in a.creds => a.got[p] \in vault
             /\ passed /\ p \notin a.creds => a.got[p] = NoHandle
             /\ ~passed => IF a.pc = "keep" /\ p = a.i
                           THEN p \in a.creds /\ a.got[p] \in vault
                           ELSE a.got[p] = NoHandle

\* Of the protocols a sign-out has gone over, none is in the vault.
SignedOutSoFar ==
  \A t \in Tasks :
    /\ task[t].pc \in {"read", "delete"} =>
         \A p \in Protocols : p < task[t].i => handle[p] \notin vault
    /\ At(t, "delete") => task[t].got[task[t].i] = handle[task[t].i]
    /\ At(t, "clear") /\ task[t].kind = "signOut" =>
         \A p \in Protocols : handle[p] \notin vault

\* The session is cleared before the handles, and what is stored when nothing
\* has been touched yet is usable.
SessionGoesFirst ==
  \A t \in Tasks :
    /\ At(t, "clear") /\ task[t].i > 2 => ~session
    /\ At(t, "api") /\ session /\ task[t].outcome # "failed" => Referenced \subseteq vault

\* Unless something was lost, each profile in the vault is known: to the storage,
\* or to the activation that has provisioned it and would undo it.
ProfilesAreKnown ==
  ~lossy => \A t \in Tasks :
    LET a == task[t]
    IN  /\ a.pc \in {"idle", "read", "delete"} =>
             vault \subseteq Referenced /\ (session \/ vault = {})
        /\ a.pc \in {"api", "key", "clear"} => vault = {}
        /\ a.pc \in {"import", "keep", "session"} =>
             vault \subseteq {a.got[p] : p \in Protocols}
        /\ a.pc = "undo" => vault \subseteq {a.got[p] : p \in a.i .. ProtocolCount}

\* With an operation at a time, what the properties of the activation and of the
\* sign-out rest on.
AccountInv ==
  /\ TypeOK /\ StepsFollowTheKind /\ UndoingWasHit
  /\ ActivatedSoFar /\ SignedOutSoFar
  /\ SessionGoesFirst /\ SessionIsUsable /\ ProfilesAreKnown
=============================================================================
