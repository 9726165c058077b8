------------------------- MODULE AccountStoreProofs -------------------------
(* Theorems of AccountStore for one operation at a time, every number of     *)
(* protocols and every set of handles.                                       *)
EXTENDS AccountStore, TLAPS

Pcs == {"idle", "api", "key", "import", "keep", "session", "undo", "clear",
        "read", "delete"}

Counts == 1 .. (ProtocolCount + 2)

\* The number of protocols, and what is not a handle.
LEMMA Constants ==
  /\ ProtocolCount \in Nat \ {0}
  /\ Protocols = 1 .. ProtocolCount
  /\ Protocols \subseteq Counts /\ 1 \in Protocols /\ 2 \in Counts /\ 3 \in Counts
  /\ NoHandle \notin Handles
  /\ CredentialSets \subseteq SUBSET Protocols
BY CountAssumption, CredentialsAssumption, HandleAssumption DEF Protocols, Counts

\* What Goto leaves alone.
LEMMA GotoEffect ==
  ASSUME task \in [Tasks -> TaskStates], NEW t \in Tasks,
         NEW pc \in Pcs, NEW i \in Counts, Goto(t, pc, i)
  PROVE  /\ task' \in [Tasks -> TaskStates]
         /\ task'[t].pc = pc /\ task'[t].i = i
         /\ task'[t].kind = task[t].kind /\ task'[t].got = task[t].got
         /\ task'[t].creds = task[t].creds /\ task'[t].hit = task[t].hit
         /\ task'[t].outcome = task[t].outcome
<1> DEFINE moved == [task[t] EXCEPT !.pc = pc, !.i = i]
<1>1. task' = [task EXCEPT ![t] = moved]
  BY DEF Goto
<1>2. task[t] \in TaskStates
  OBVIOUS
<1>3. /\ moved \in TaskStates /\ moved.pc = pc /\ moved.i = i
      /\ moved.kind = task[t].kind /\ moved.got = task[t].got
      /\ moved.creds = task[t].creds /\ moved.hit = task[t].hit
      /\ moved.outcome = task[t].outcome
  BY <1>2 DEF TaskStates, Pcs, Counts
<1> HIDE DEF moved
<1> QED
  BY <1>1, <1>3

\* What FailTo leaves alone.
LEMMA FailToEffect ==
  ASSUME task \in [Tasks -> TaskStates], NEW t \in Tasks, NEW pc \in Pcs, FailTo(t, pc)
  PROVE  /\ task' \in [Tasks -> TaskStates]
         /\ task'[t].pc = pc /\ task'[t].i = 1 /\ task'[t].hit
         /\ task'[t].kind = task[t].kind /\ task'[t].got = task[t].got
         /\ task'[t].creds = task[t].creds /\ task'[t].outcome = task[t].outcome
<1>1. PICK hit \in BOOLEAN : hit = TRUE
  OBVIOUS
<1> DEFINE failed == [task[t] EXCEPT !.pc = pc, !.i = 1, !.hit = hit]
<1>2. task' = [task EXCEPT ![t] = failed]
  BY <1>1 DEF FailTo
<1>3. 1 \in Counts /\ task[t] \in TaskStates
  BY Constants
<1>4. /\ failed \in TaskStates
      /\ failed.pc = pc /\ failed.i = 1 /\ failed.hit = hit
      /\ failed.kind = task[t].kind /\ failed.got = task[t].got
      /\ failed.creds = task[t].creds /\ failed.outcome = task[t].outcome
  BY <1>3 DEF TaskStates, Pcs, Counts
<1> HIDE DEF failed
<1> QED
  BY <1>1, <1>2, <1>4

\* A task that has ended.
LEMMA EndedEffect ==
  ASSUME task \in [Tasks -> TaskStates], NEW t \in Tasks, NEW hit \in BOOLEAN,
         NEW outcome \in {"none", "done", "undone", "failed"},
         task' = [task EXCEPT ![t] = Ended(t, outcome, hit)]
  PROVE  /\ task' \in [Tasks -> TaskStates]
         /\ task'[t].pc = "idle" /\ task'[t].i = 1 /\ (hit => task'[t].hit)
         /\ task'[t].kind = task[t].kind /\ task'[t].outcome = outcome
         /\ \A p \in Protocols : task'[t].got[p] = NoHandle
<1>1. NoTask \in TaskStates
  BY Constants DEF NoTask, TaskStates, HandleOrNone
<1>2. /\ NoTask.pc = "idle" /\ NoTask.i = 1
      /\ \A p \in Protocols : NoTask.got[p] = NoHandle
  BY DEF NoTask
<1>3. /\ Ended(t, outcome, hit) \in TaskStates
      /\ Ended(t, outcome, hit).pc = NoTask.pc /\ Ended(t, outcome, hit).i = NoTask.i
      /\ Ended(t, outcome, hit).got = NoTask.got /\ Ended(t, outcome, hit).hit = hit
      /\ Ended(t, outcome, hit).kind = task[t].kind
      /\ Ended(t, outcome, hit).outcome = outcome
  BY <1>1 DEF Ended, TaskStates
<1> QED
  BY <1>2, <1>3

\* Where the loop over the protocols goes on.
LEMMA NextProtocolEffect ==
  ASSUME task \in [Tasks -> TaskStates], NEW t \in Tasks, task[t].i \in Protocols,
         NEW loop \in Pcs, NEW next \in Pcs, NextProtocol(t, loop, next)
  PROVE  /\ task' \in [Tasks -> TaskStates]
         /\ IF task[t].i < ProtocolCount
            THEN task'[t].pc = loop /\ task'[t].i = task[t].i + 1
            ELSE task'[t].pc = next /\ task'[t].i = 1
         /\ task'[t].kind = task[t].kind /\ task'[t].got = task[t].got
         /\ task'[t].creds = task[t].creds /\ task'[t].hit = task[t].hit
         /\ task'[t].outcome = task[t].outcome
<1>1. CASE task[t].i < ProtocolCount
  <2>1. task[t].i + 1 \in Counts /\ Goto(t, loop, task[t].i + 1)
    BY <1>1, Constants DEF NextProtocol
  <2> QED
    BY <1>1, <2>1, GotoEffect
<1>2. CASE ~(task[t].i < ProtocolCount)
  <2>1. 1 \in Counts /\ Goto(t, next, 1)
    BY <1>2, Constants DEF NextProtocol
  <2> QED
    BY <1>2, <2>1, GotoEffect
<1> QED
  BY <1>1, <1>2

\* A handle provisioned or read.
LEMMA GotEffect ==
  ASSUME task \in [Tasks -> TaskStates], NEW t \in Tasks, task[t].i \in Protocols,
         NEW pc \in Pcs, NEW h \in HandleOrNone,
         task' = [task EXCEPT ![t].pc = pc, ![t].got[task[t].i] = h]
  PROVE  /\ task' \in [Tasks -> TaskStates]
         /\ task'[t].pc = pc /\ task'[t].i = task[t].i
         /\ task'[t].kind = task[t].kind /\ task'[t].creds = task[t].creds
         /\ task'[t].got = [task[t].got EXCEPT ![task[t].i] = h]
         /\ task'[t].hit = task[t].hit /\ task'[t].outcome = task[t].outcome
<1> DEFINE got == [task[t].got EXCEPT ![task[t].i] = h]
           moved == [task[t] EXCEPT !.pc = pc, !.got = got]
<1>1. task' = [task EXCEPT ![t] = moved]
  OBVIOUS
<1>2. task[t] \in TaskStates /\ got \in [Protocols -> HandleOrNone]
  BY DEF TaskStates
<1> HIDE DEF got
<1>3. /\ moved \in TaskStates /\ moved.pc = pc /\ moved.i = task[t].i
      /\ moved.kind = task[t].kind /\ moved.creds = task[t].creds
      /\ moved.got = got
      /\ moved.hit = task[t].hit /\ moved.outcome = task[t].outcome
  BY <1>2 DEF TaskStates, Pcs
<1> HIDE DEF moved
<1>4. /\ task' \in [Tasks -> TaskStates] /\ task'[t] = moved
  BY <1>1, <1>3
<1> QED
  BY <1>4

\* Where a task is that has gone on, failed or ended.
LEMMA Whereabouts ==
  ASSUME task \in [Tasks -> TaskStates], NEW t \in Tasks
  PROVE  /\ \A pc, i : Goto(t, pc, i) => task'[t].pc = pc
         /\ \A pc : FailTo(t, pc) => task'[t].pc = pc
         /\ \A outcome, hit : Throw(t, outcome, hit) => task'[t].outcome = outcome
<1>1. ASSUME NEW pc, NEW i, Goto(t, pc, i) PROVE task'[t].pc = pc
  BY <1>1 DEF Goto
<1>2. ASSUME NEW pc, FailTo(t, pc) PROVE task'[t].pc = pc
  BY <1>2 DEF FailTo
<1>3. ASSUME NEW outcome, NEW hit, Throw(t, outcome, hit)
      PROVE  task'[t].outcome = outcome
  BY <1>3 DEF Throw, Ended
<1> QED
  BY <1>1, <1>2, <1>3

-----------------------------------------------------------------------------

\* The fields of the one task there is.
LEMMA TaskFields ==
  ASSUME TypeOK, NEW T, Tasks = {T}
  PROVE  /\ task \in [Tasks -> TaskStates] /\ T \in Tasks
         /\ task[T] \in TaskStates
         /\ task[T].pc \in Pcs /\ task[T].i \in Counts
         /\ task[T].kind \in {"none", "activate", "signOut"}
         /\ task[T].got \in [Protocols -> HandleOrNone]
         /\ task[T].creds \in SUBSET Protocols
         /\ task[T].hit \in BOOLEAN
         /\ task[T].outcome \in {"none", "done", "undone", "failed"}
BY DEF TypeOK, TaskStates, Pcs, Counts

\* Every step of an activation keeps the invariant.
LEMMA ActivateKeepsInv ==
  ASSUME NEW T, Tasks = {T}, AccountInv, FailsOnlyByItself, Activate(T)
  PROVE  AccountInv' /\ FailsOnlyByItself'
<1>a. /\ TypeOK /\ task \in [Tasks -> TaskStates] /\ T \in Tasks
      /\ task[T] \in TaskStates
      /\ task[T].pc \in Pcs /\ task[T].i \in Counts
      /\ task[T].kind \in {"none", "activate", "signOut"}
      /\ task[T].got \in [Protocols -> HandleOrNone]
      /\ task[T].creds \in SUBSET Protocols
      /\ task[T].hit \in BOOLEAN
      /\ task[T].outcome \in {"none", "done", "undone", "failed"}
  BY TaskFields DEF AccountInv
<1>b. /\ task[T].pc # "clear" => task[T].i \in Protocols
      /\ ProtocolCount \in Nat \ {0} /\ Protocols = 1 .. ProtocolCount
      /\ NoHandle \notin Handles /\ 1 \in Protocols
  BY Constants DEF AccountInv, StepsFollowTheKind, At
<1> USE DEF AccountInv, At, storage
<1>1. CASE ApiAnswers(T)
  <2>1. /\ task' \in [Tasks -> TaskStates]
        /\ task'[T].pc = "key" /\ task'[T].i = task[T].i
        /\ task'[T].kind = task[T].kind /\ task'[T].got = task[T].got
        /\ task'[T].hit = task[T].hit /\ task'[T].outcome = task[T].outcome
    <3>1. PICK creds \in SUBSET Protocols :
         task' = [task EXCEPT ![T].pc = "key", ![T].creds = creds]
      BY <1>1, Constants DEF ApiAnswers
    <3> QED
      BY <1>a, <3>1 DEF TaskStates
  <2>2. TypeOK'
    BY <1>1, <2>1 DEF ApiAnswers, TypeOK
  <2>3. StepsFollowTheKind'
    BY <1>1, <2>1 DEF ApiAnswers, StepsFollowTheKind, Activating
  <2>4. UndoingWasHit'
    BY <2>1 DEF UndoingWasHit
  <2>5. ActivatedSoFar'
    BY <1>1, <2>1 DEF ApiAnswers, ActivatedSoFar
  <2>6. SignedOutSoFar'
    BY <2>1 DEF SignedOutSoFar
  <2>7. SessionGoesFirst'
    BY <2>1 DEF SessionGoesFirst
  <2>8. SessionIsUsable'
    BY <2>1 DEF SessionIsUsable, Idle
  <2>9. ProfilesAreKnown'
    BY <1>1 DEF ApiAnswers, ProfilesAreKnown
  <2>10. FailsOnlyByItself'
    BY <2>1 DEF FailsOnlyByItself
  <2> QED
    BY <2>2, <2>3, <2>4, <2>5, <2>6, <2>7, <2>8, <2>9, <2>10
<1>2. CASE ApiFails(T)
  <2>1. /\ task' \in [Tasks -> TaskStates]
        /\ task'[T].pc = "idle" /\ task'[T].i = 1 /\ task'[T].hit
        /\ task'[T].kind = task[T].kind /\ task'[T].outcome = task[T].outcome
    BY <1>a, <1>2, EndedEffect DEF ApiFails, Throw
  <2>2. handle' = handle /\ Referenced' = Referenced
    BY <1>2 DEF ApiFails, Referenced
  <2>3. TypeOK'
    BY <1>2, <2>1 DEF ApiFails, TypeOK
  <2>4. StepsFollowTheKind'
    BY <1>b, <2>1 DEF StepsFollowTheKind, Activating
  <2>5. UndoingWasHit'
    BY <2>1 DEF UndoingWasHit
  <2>6. ActivatedSoFar'
    BY <2>1 DEF ActivatedSoFar
  <2>7. SignedOutSoFar'
    BY <2>1 DEF SignedOutSoFar
  <2>8. SessionGoesFirst'
    BY <2>1 DEF SessionGoesFirst
  <2>9. SessionIsUsable'
    BY <1>2, <2>1, <2>2 DEF ApiFails, SessionGoesFirst, SessionIsUsable
  <2>10. ProfilesAreKnown'
    BY <1>2 DEF ApiFails, ProfilesAreKnown
  <2>11. FailsOnlyByItself'
    BY <2>1 DEF FailsOnlyByItself
  <2> QED
    BY <2>3, <2>4, <2>5, <2>6, <2>7, <2>8, <2>9, <2>10, <2>11
<1>3. CASE WriteKey(T)
  <2>1. /\ task' \in [Tasks -> TaskStates]
        /\ task'[T].pc = "import" /\ task'[T].i = 1
        /\ task'[T].kind = task[T].kind /\ task'[T].got = task[T].got
        /\ task'[T].creds = task[T].creds /\ task'[T].hit = task[T].hit
        /\ task'[T].outcome = task[T].outcome
    BY <1>a, <1>3, Constants, GotoEffect DEF WriteKey, Pcs
  <2>2. TypeOK'
    BY <1>3, <2>1 DEF WriteKey, TypeOK
  <2>3. StepsFollowTheKind'
    BY <1>b, <1>3, <2>1 DEF WriteKey, StepsFollowTheKind, Activating
  <2>4. UndoingWasHit'
    BY <2>1 DEF UndoingWasHit
  <2>5. ActivatedSoFar'
    BY <1>b, <1>3, <2>1 DEF WriteKey, ActivatedSoFar
  <2>6. SignedOutSoFar'
    BY <2>1 DEF SignedOutSoFar
  <2>7. SessionGoesFirst'
    BY <2>1 DEF SessionGoesFirst
  <2>8. SessionIsUsable'
    BY <2>1 DEF SessionIsUsable, Idle
  <2>9. ProfilesAreKnown'
    BY <1>3 DEF WriteKey, ProfilesAreKnown
  <2>10. FailsOnlyByItself'
    BY <2>1 DEF FailsOnlyByItself
  <2> QED
    BY <2>2, <2>3, <2>4, <2>5, <2>6, <2>7, <2>8, <2>9, <2>10
<1>4. CASE Import(T)
  <2>1. PICK h \in Unused :
       /\ vault' = vault \cup {h}
       /\ task' = [task EXCEPT ![T].pc = "keep", ![T].got[task[T].i] = h]
    BY <1>4 DEF Import
  <2>2. /\ task' \in [Tasks -> TaskStates]
        /\ task'[T].pc = "keep" /\ task'[T].i = task[T].i
        /\ task'[T].kind = task[T].kind /\ task'[T].creds = task[T].creds
        /\ task'[T].got = [task[T].got EXCEPT ![task[T].i] = h]
        /\ task'[T].hit = task[T].hit /\ task'[T].outcome = task[T].outcome
    <3>1. task[T].i \in Protocols
      BY <1>b, <1>4 DEF Import
    <3>2. h \in HandleOrNone /\ "keep" \in Pcs
      BY DEF Unused, HandleOrNone, Pcs
    <3> QED
      BY <1>a, <2>1, <3>1, <3>2, GotEffect
  <2>3. TypeOK'
    BY <1>4, <2>2 DEF Import, Unused, TypeOK
  <2>4. StepsFollowTheKind'
    BY <1>4, <2>2 DEF Import, StepsFollowTheKind, Activating
  <2>5. UndoingWasHit'
    BY <2>2 DEF UndoingWasHit
  <2>6. ActivatedSoFar'
    BY <1>a, <1>b, <1>4 DEF Import, ActivatedSoFar
  <2>7. SignedOutSoFar'
    BY <2>2 DEF SignedOutSoFar
  <2>8. SessionGoesFirst'
    BY <2>2 DEF SessionGoesFirst
  <2>9. SessionIsUsable'
    BY <2>2 DEF SessionIsUsable, Idle
  <2>10. ProfilesAreKnown'
    <3>1. task[T].i \in Protocols /\ task[T].got[task[T].i] = NoHandle /\ NoHandle \notin vault
      BY <1>b, <1>4 DEF Import, ActivatedSoFar, TypeOK
    <3>2. ~lossy => vault \subseteq {task[T].got[p] : p \in Protocols}
      BY <1>4 DEF Import, ProfilesAreKnown
    <3>3. vault' = vault \cup {h} /\ (~lossy' => ~lossy)
      BY <2>1, <1>4 DEF Import
    <3>4. ~lossy' => vault' \subseteq {task'[T].got[p] : p \in Protocols}
      BY <1>a, <2>2, <3>1, <3>2, <3>3
    <3> QED
      BY <1>a, <2>2, <3>4 DEF ProfilesAreKnown
  <2>11. FailsOnlyByItself'
    BY <2>2 DEF FailsOnlyByItself
  <2> QED
    BY <2>3, <2>4, <2>5, <2>6, <2>7, <2>8, <2>9, <2>10, <2>11
<1>5. CASE ImportLost(T)
  <2>1. /\ task' \in [Tasks -> TaskStates]
        /\ task'[T].pc = "undo" /\ task'[T].i = 1 /\ task'[T].hit
        /\ task'[T].kind = task[T].kind /\ task'[T].got = task[T].got
        /\ task'[T].creds = task[T].creds /\ task'[T].outcome = task[T].outcome
    BY <1>a, <1>5, FailToEffect DEF ImportLost, Pcs
  <2>2. TypeOK'
    BY <1>5, <2>1 DEF ImportLost, Unused, TypeOK
  <2>3. StepsFollowTheKind'
    BY <1>b, <1>5, <2>1 DEF ImportLost, StepsFollowTheKind, Activating
  <2>4. UndoingWasHit'
    BY <2>1 DEF UndoingWasHit
  <2>5. ActivatedSoFar'
    BY <2>1 DEF ActivatedSoFar
  <2>6. SignedOutSoFar'
    BY <2>1 DEF SignedOutSoFar
  <2>7. SessionGoesFirst'
    BY <2>1 DEF SessionGoesFirst
  <2>8. SessionIsUsable'
    BY <2>1 DEF SessionIsUsable, Idle
  <2>9. ProfilesAreKnown'
    BY <1>5 DEF ImportLost, ProfilesAreKnown
  <2>10. FailsOnlyByItself'
    BY <2>1 DEF FailsOnlyByItself
  <2> QED
    BY <2>2, <2>3, <2>4, <2>5, <2>6, <2>7, <2>8, <2>9, <2>10
<1>6. CASE KeepHandle(T)
  <2>1. /\ task' \in [Tasks -> TaskStates]
        /\ IF task[T].i < ProtocolCount
           THEN task'[T].pc = "import" /\ task'[T].i = task[T].i + 1
           ELSE task'[T].pc = "session" /\ task'[T].i = 1
        /\ task'[T].kind = task[T].kind /\ task'[T].got = task[T].got
        /\ task'[T].creds = task[T].creds /\ task'[T].hit = task[T].hit
        /\ task'[T].outcome = task[T].outcome
    BY <1>a, <1>b, <1>6, NextProtocolEffect DEF KeepHandle, Pcs
  <2>2. TypeOK'
    BY <1>a, <1>6, <2>1 DEF KeepHandle, TypeOK
  <2>3. StepsFollowTheKind'
    BY <1>b, <1>6, <2>1 DEF KeepHandle, StepsFollowTheKind, Activating
  <2>4. UndoingWasHit'
    BY <2>1 DEF UndoingWasHit
  <2>5. ActivatedSoFar'
    <3>1. /\ task[T].i \in Protocols /\ handle \in [Protocols -> HandleOrNone]
          /\ vault' = vault /\ key' = key
      BY <1>b, <1>6 DEF KeepHandle, TypeOK
    <3>2. ASSUME NEW p \in Protocols
          PROVE  /\ task'[T].pc \in {"import", "session"}
                 /\ key'
                 /\ p <= task[T].i =>
                      /\ handle'[p] = task[T].got[p]
                      /\ p \in task[T].creds => task[T].got[p] \in vault
                      /\ p \notin task[T].creds => task[T].got[p] = NoHandle
                 /\ ~(p <= task[T].i) => task[T].got[p] = NoHandle
      BY <1>b, <1>6, <2>1, <3>1 DEF KeepHandle, ActivatedSoFar
    <3> QED
      BY <1>a, <1>b, <2>1, <3>1, <3>2 DEF ActivatedSoFar
  <2>6. SignedOutSoFar'
    BY <2>1 DEF SignedOutSoFar
  <2>7. SessionGoesFirst'
    BY <2>1 DEF SessionGoesFirst
  <2>8. SessionIsUsable'
    BY <2>1 DEF SessionIsUsable, Idle
  <2>9. ProfilesAreKnown'
    BY <1>6, <2>1 DEF KeepHandle, ProfilesAreKnown
  <2>10. FailsOnlyByItself'
    BY <2>1 DEF FailsOnlyByItself
  <2> QED
    BY <2>2, <2>3, <2>4, <2>5, <2>6, <2>7, <2>8, <2>9, <2>10
<1>7. CASE DropHandle(T)
  <2>1. /\ task' \in [Tasks -> TaskStates]
        /\ IF task[T].i < ProtocolCount
           THEN task'[T].pc = "import" /\ task'[T].i = task[T].i + 1
           ELSE task'[T].pc = "session" /\ task'[T].i = 1
        /\ task'[T].kind = task[T].kind /\ task'[T].got = task[T].got
        /\ task'[T].creds = task[T].creds /\ task'[T].hit = task[T].hit
        /\ task'[T].outcome = task[T].outcome
    BY <1>a, <1>b, <1>7, NextProtocolEffect DEF DropHandle, Pcs
  <2>2. TypeOK'
    BY <1>7, <2>1 DEF DropHandle, TypeOK, HandleOrNone
  <2>3. StepsFollowTheKind'
    BY <1>b, <1>7, <2>1 DEF DropHandle, StepsFollowTheKind, Activating
  <2>4. UndoingWasHit'
    BY <2>1 DEF UndoingWasHit
  <2>5. ActivatedSoFar'
    <3>1. /\ task[T].i \in Protocols /\ handle \in [Protocols -> HandleOrNone]
          /\ vault' = vault /\ key' = key
      BY <1>b, <1>7 DEF DropHandle, TypeOK
    <3>2. ASSUME NEW p \in Protocols
          PROVE  /\ task'[T].pc \in {"import", "session"}
                 /\ key'
                 /\ p <= task[T].i =>
                      /\ handle'[p] = task[T].got[p]
                      /\ p \in task[T].creds => task[T].got[p] \in vault
                      /\ p \notin task[T].creds => task[T].got[p] = NoHandle
                 /\ ~(p <= task[T].i) => task[T].got[p] = NoHandle
      BY <1>b, <1>7, <2>1, <3>1 DEF DropHandle, ActivatedSoFar
    <3> QED
      BY <1>a, <1>b, <2>1, <3>1, <3>2 DEF ActivatedSoFar
  <2>6. SignedOutSoFar'
    BY <2>1 DEF SignedOutSoFar
  <2>7. SessionGoesFirst'
    BY <2>1 DEF SessionGoesFirst
  <2>8. SessionIsUsable'
    BY <2>1 DEF SessionIsUsable, Idle
  <2>9. ProfilesAreKnown'
    BY <1>7, <2>1 DEF DropHandle, ProfilesAreKnown
  <2>10. FailsOnlyByItself'
    BY <2>1 DEF FailsOnlyByItself
  <2> QED
    BY <2>2, <2>3, <2>4, <2>5, <2>6, <2>7, <2>8, <2>9, <2>10
<1>8. CASE WriteSession(T)
  <2>1. /\ task' \in [Tasks -> TaskStates]
        /\ task'[T].pc = "idle" /\ task'[T].i = 1 /\ TRUE
        /\ task'[T].kind = task[T].kind /\ task'[T].outcome = "done"
    BY <1>a, <1>8, EndedEffect DEF WriteSession, Succeed
  <2>2. handle' = handle /\ Referenced' = Referenced
    BY <1>8 DEF WriteSession, Referenced
  <2>3. TypeOK'
    BY <1>8, <2>1 DEF WriteSession, Succeed, TypeOK
  <2>4. StepsFollowTheKind'
    BY <1>b, <2>1 DEF StepsFollowTheKind, Activating
  <2>5. UndoingWasHit'
    BY <2>1 DEF UndoingWasHit
  <2>6. ActivatedSoFar'
    BY <2>1 DEF ActivatedSoFar
  <2>7. SignedOutSoFar'
    BY <2>1 DEF SignedOutSoFar
  <2>8. SessionGoesFirst'
    BY <2>1 DEF SessionGoesFirst
  <2>9. SessionIsUsable'
    BY <1>8 DEF WriteSession, ActivatedSoFar, SessionIsUsable, Referenced
  <2>10. ProfilesAreKnown'
    <3>1. ~lossy => vault \subseteq {task[T].got[p] : p \in Protocols}
      BY <1>8 DEF WriteSession, ProfilesAreKnown
    <3>2. \A p \in Protocols : handle[p] = task[T].got[p]
      BY <1>8 DEF WriteSession, ActivatedSoFar
    <3>3. ~lossy => vault \subseteq Referenced
      BY <1>b, <3>1, <3>2 DEF Referenced, TypeOK
    <3> QED
      BY <1>a, <1>8, <2>1, <2>2, <3>3 DEF WriteSession, Succeed, ProfilesAreKnown
  <2>11. FailsOnlyByItself'
    BY <2>1 DEF FailsOnlyByItself
  <2> QED
    BY <2>3, <2>4, <2>5, <2>6, <2>7, <2>8, <2>9, <2>10, <2>11
<1>9. CASE ActivationFails(T)
  <2>1. /\ task' \in [Tasks -> TaskStates]
        /\ task'[T].pc = "undo" /\ task'[T].i = 1 /\ task'[T].hit
        /\ task'[T].kind = task[T].kind /\ task'[T].got = task[T].got
        /\ task'[T].creds = task[T].creds /\ task'[T].outcome = task[T].outcome
    BY <1>a, <1>9, FailToEffect DEF ActivationFails, Pcs
  <2>2. TypeOK'
    BY <1>9, <2>1 DEF ActivationFails, TypeOK
  <2>3. StepsFollowTheKind'
    BY <1>b, <1>9, <2>1 DEF ActivationFails, StepsFollowTheKind, Activating
  <2>4. UndoingWasHit'
    BY <2>1 DEF UndoingWasHit
  <2>5. ActivatedSoFar'
    BY <2>1 DEF ActivatedSoFar
  <2>6. SignedOutSoFar'
    BY <2>1 DEF SignedOutSoFar
  <2>7. SessionGoesFirst'
    BY <2>1 DEF SessionGoesFirst
  <2>8. SessionIsUsable'
    BY <2>1 DEF SessionIsUsable, Idle
  <2>9. ProfilesAreKnown'
    BY <1>b, <1>9, <2>1 DEF ActivationFails, ProfilesAreKnown
  <2>10. FailsOnlyByItself'
    BY <2>1 DEF FailsOnlyByItself
  <2> QED
    BY <2>2, <2>3, <2>4, <2>5, <2>6, <2>7, <2>8, <2>9, <2>10
<1>10. CASE Undo(T)
  <2>1. /\ task' \in [Tasks -> TaskStates]
        /\ IF task[T].i < ProtocolCount
           THEN task'[T].pc = "undo" /\ task'[T].i = task[T].i + 1
           ELSE task'[T].pc = "clear" /\ task'[T].i = 1
        /\ task'[T].kind = task[T].kind /\ task'[T].got = task[T].got
        /\ task'[T].creds = task[T].creds /\ task'[T].hit = task[T].hit
        /\ task'[T].outcome = task[T].outcome
    BY <1>a, <1>b, <1>10, NextProtocolEffect DEF Undo, Pcs
  <2>2. TypeOK'
    BY <1>10, <2>1 DEF Undo, TypeOK
  <2>3. StepsFollowTheKind'
    BY <1>b, <1>10, <2>1 DEF Undo, StepsFollowTheKind, Activating
  <2>4. UndoingWasHit'
    BY <1>10, <2>1 DEF Undo, UndoingWasHit
  <2>5. ActivatedSoFar'
    BY <2>1 DEF ActivatedSoFar
  <2>6. SignedOutSoFar'
    BY <1>10, <2>1 DEF Undo, SignedOutSoFar, StepsFollowTheKind, Activating
  <2>7. SessionGoesFirst'
    BY <2>1 DEF SessionGoesFirst
  <2>8. SessionIsUsable'
    BY <2>1 DEF SessionIsUsable, Idle
  <2>9. ProfilesAreKnown'
    BY <1>b, <1>10, <2>1 DEF Undo, ProfilesAreKnown
  <2>10. FailsOnlyByItself'
    BY <2>1 DEF FailsOnlyByItself
  <2> QED
    BY <2>2, <2>3, <2>4, <2>5, <2>6, <2>7, <2>8, <2>9, <2>10
<1> QED
  BY <1>1, <1>2, <1>3, <1>4, <1>5, <1>6, <1>7, <1>8, <1>9, <1>10 DEF Activate

\* Every step of a sign-out keeps the invariant.
LEMMA SignOutKeepsInv ==
  ASSUME NEW T, Tasks = {T}, AccountInv, FailsOnlyByItself, SignOut(T)
  PROVE  AccountInv' /\ FailsOnlyByItself'
<1>a. /\ TypeOK /\ task \in [Tasks -> TaskStates] /\ T \in Tasks
      /\ task[T] \in TaskStates
      /\ task[T].pc \in Pcs /\ task[T].i \in Counts
      /\ task[T].kind \in {"none", "activate", "signOut"}
      /\ task[T].got \in [Protocols -> HandleOrNone]
      /\ task[T].creds \in SUBSET Protocols
      /\ task[T].hit \in BOOLEAN
      /\ task[T].outcome \in {"none", "done", "undone", "failed"}
  BY TaskFields DEF AccountInv
<1>b. /\ task[T].pc # "clear" => task[T].i \in Protocols
      /\ ProtocolCount \in Nat \ {0} /\ Protocols = 1 .. ProtocolCount
      /\ NoHandle \notin Handles /\ 1 \in Protocols
  BY Constants DEF AccountInv, StepsFollowTheKind, At
<1> USE DEF AccountInv, At, storage
<1>1. CASE ReadHandle(T)
  <2>1. task[T].pc = "read" /\ UNCHANGED <<vault, storage, shown, lossy>>
    BY <1>1 DEF ReadHandle
  <2>2. /\ task' \in [Tasks -> TaskStates]
        /\ task'[T].kind = task[T].kind /\ task'[T].creds = task[T].creds
        /\ task'[T].hit = task[T].hit /\ task'[T].outcome = task[T].outcome
        /\ \/ /\ handle[task[T].i] = NoHandle /\ task'[T].got = task[T].got
              /\ IF task[T].i < ProtocolCount
                 THEN task'[T].pc = "read" /\ task'[T].i = task[T].i + 1
                 ELSE task'[T].pc = "clear" /\ task'[T].i = 1
           \/ /\ task'[T].pc = "delete" /\ task'[T].i = task[T].i
              /\ task'[T].got = [task[T].got EXCEPT ![task[T].i] = handle[task[T].i]]
    <3>1. task[T].i \in Protocols /\ handle[task[T].i] \in HandleOrNone
          /\ "read" \in Pcs /\ "clear" \in Pcs /\ "delete" \in Pcs
      BY <1>b, <1>1 DEF ReadHandle, TypeOK, Pcs
    <3>2. CASE handle[task[T].i] = NoHandle
      <4>1. NextProtocol(T, "read", "clear")
        BY <1>1, <3>2 DEF ReadHandle
      <4> QED
        BY <1>a, <3>1, <3>2, <4>1, NextProtocolEffect
    <3>3. CASE handle[task[T].i] # NoHandle
      <4>1. PICK h \in HandleOrNone : h = handle[task[T].i]
        BY <3>1
      <4>2. task' = [task EXCEPT ![T].pc = "delete", ![T].got[task[T].i] = h]
        BY <1>1, <3>3, <4>1 DEF ReadHandle
      <4>3. /\ task' \in [Tasks -> TaskStates]
            /\ task'[T].pc = "delete" /\ task'[T].i = task[T].i
            /\ task'[T].kind = task[T].kind /\ task'[T].creds = task[T].creds
            /\ task'[T].got = [task[T].got EXCEPT ![task[T].i] = h]
            /\ task'[T].hit = task[T].hit /\ task'[T].outcome = task[T].outcome
        BY <1>a, <3>1, <4>2, GotEffect
      <4> QED
        BY <4>1, <4>3
    <3> QED
      BY <3>2, <3>3
  <2>3. handle' = handle /\ Referenced' = Referenced
    BY <1>1 DEF ReadHandle, Referenced
  <2>4. TypeOK'
    BY <2>2, <2>1 DEF TypeOK
  <2>5. StepsFollowTheKind'
    BY <1>b, <2>2, <2>1 DEF StepsFollowTheKind, Activating
  <2>6. UndoingWasHit'
    BY <2>2, <2>1 DEF UndoingWasHit, StepsFollowTheKind
  <2>7. ActivatedSoFar'
    BY <2>2 DEF ActivatedSoFar
  <2>8. SignedOutSoFar'
    <3>1. ASSUME NEW p \in Protocols, p < task[T].i PROVE handle[p] \notin vault
      BY <2>1, <3>1 DEF SignedOutSoFar
    <3>2. NoHandle \notin vault
      BY <1>b DEF TypeOK
    <3> QED
      BY <1>a, <1>b, <2>1, <2>2, <2>3, <3>1, <3>2 DEF SignedOutSoFar
  <2>9. SessionGoesFirst'
    BY <2>2 DEF SessionGoesFirst
  <2>10. SessionIsUsable'
    BY <2>2 DEF SessionIsUsable, Idle
  <2>11. ProfilesAreKnown'
    <3>1. ~lossy => vault \subseteq Referenced /\ (session \/ vault = {})
      BY <2>1 DEF ProfilesAreKnown
    <3>2. task'[T].pc = "clear" => \A p \in Protocols : handle'[p] \notin vault'
      BY <2>1, <2>2, <2>8 DEF SignedOutSoFar, StepsFollowTheKind
    <3> QED
      BY <1>a, <2>1, <2>2, <2>3, <3>1, <3>2 DEF ProfilesAreKnown, Referenced
  <2>12. FailsOnlyByItself'
    BY <2>2 DEF FailsOnlyByItself
  <2> QED
    BY <2>4, <2>5, <2>6, <2>7, <2>8, <2>9, <2>10, <2>11, <2>12
<1>2. CASE DeleteProfile(T)
  <2>1. /\ task' \in [Tasks -> TaskStates]
        /\ IF task[T].i < ProtocolCount
           THEN task'[T].pc = "read" /\ task'[T].i = task[T].i + 1
           ELSE task'[T].pc = "clear" /\ task'[T].i = 1
        /\ task'[T].kind = task[T].kind /\ task'[T].got = task[T].got
        /\ task'[T].creds = task[T].creds /\ task'[T].hit = task[T].hit
        /\ task'[T].outcome = task[T].outcome
    BY <1>a, <1>b, <1>2, NextProtocolEffect DEF DeleteProfile, Pcs
  <2>2. handle' = handle /\ Referenced' = Referenced
    BY <1>2 DEF DeleteProfile, Referenced
  <2>3. TypeOK'
    BY <1>2, <2>1 DEF DeleteProfile, TypeOK
  <2>4. StepsFollowTheKind'
    BY <1>b, <1>2, <2>1 DEF DeleteProfile, StepsFollowTheKind, Activating
  <2>5. UndoingWasHit'
    BY <1>2, <2>1 DEF DeleteProfile, StepsFollowTheKind, UndoingWasHit
  <2>6. ActivatedSoFar'
    BY <2>1 DEF ActivatedSoFar
  <2>7. SignedOutSoFar'
    BY <1>b, <1>2, <2>1 DEF DeleteProfile, SignedOutSoFar
  <2>8. SessionGoesFirst'
    BY <2>1 DEF SessionGoesFirst
  <2>9. SessionIsUsable'
    BY <2>1 DEF SessionIsUsable, Idle
  <2>10. ProfilesAreKnown'
    <3>1. ~lossy => vault' \subseteq Referenced' /\ (session' \/ vault' = {})
      BY <1>2, <2>2 DEF DeleteProfile, ProfilesAreKnown
    <3>2. task'[T].pc = "clear" => \A p \in Protocols : handle'[p] \notin vault'
      BY <1>2, <2>1, <2>7 DEF SignedOutSoFar, StepsFollowTheKind, DeleteProfile
    <3> QED
      BY <1>a, <1>2, <2>1, <3>1, <3>2 DEF DeleteProfile, ProfilesAreKnown, Referenced
  <2>11. FailsOnlyByItself'
    BY <2>1 DEF FailsOnlyByItself
  <2> QED
    BY <2>3, <2>4, <2>5, <2>6, <2>7, <2>8, <2>9, <2>10, <2>11
<1>3. CASE SignOutFails(T)
  <2>1. /\ task' \in [Tasks -> TaskStates]
        /\ task'[T].pc = "idle" /\ task'[T].i = 1 /\ task'[T].hit
        /\ task'[T].kind = task[T].kind /\ task'[T].outcome = "failed"
    BY <1>a, <1>3, EndedEffect DEF SignOutFails, Throw
  <2>2. handle' = handle /\ Referenced' = Referenced
    BY <1>3 DEF SignOutFails, Referenced
  <2>3. TypeOK'
    BY <1>3, <2>1 DEF SignOutFails, TypeOK
  <2>4. StepsFollowTheKind'
    BY <1>b, <2>1 DEF StepsFollowTheKind, Activating
  <2>5. UndoingWasHit'
    BY <2>1 DEF UndoingWasHit
  <2>6. ActivatedSoFar'
    BY <2>1 DEF ActivatedSoFar
  <2>7. SignedOutSoFar'
    BY <2>1 DEF SignedOutSoFar
  <2>8. SessionGoesFirst'
    BY <2>1 DEF SessionGoesFirst
  <2>9. SessionIsUsable'
    BY <2>1 DEF SessionIsUsable
  <2>10. ProfilesAreKnown'
    BY <1>3, <2>1, <2>2 DEF SignOutFails, ProfilesAreKnown
  <2>11. FailsOnlyByItself'
    BY <2>1 DEF FailsOnlyByItself
  <2> QED
    BY <2>3, <2>4, <2>5, <2>6, <2>7, <2>8, <2>9, <2>10, <2>11
<1>4. CASE DeleteLost(T)
  <2>1. /\ task' \in [Tasks -> TaskStates]
        /\ task'[T].pc = "idle" /\ task'[T].i = 1 /\ task'[T].hit
        /\ task'[T].kind = task[T].kind /\ task'[T].outcome = "failed"
    BY <1>a, <1>4, EndedEffect DEF DeleteLost, Throw
  <2>2. handle' = handle /\ Referenced' = Referenced
    BY <1>4 DEF DeleteLost, Referenced
  <2>3. TypeOK'
    BY <1>4, <2>1 DEF DeleteLost, TypeOK
  <2>4. StepsFollowTheKind'
    BY <1>b, <2>1 DEF StepsFollowTheKind, Activating
  <2>5. UndoingWasHit'
    BY <2>1 DEF UndoingWasHit
  <2>6. ActivatedSoFar'
    BY <2>1 DEF ActivatedSoFar
  <2>7. SignedOutSoFar'
    BY <2>1 DEF SignedOutSoFar
  <2>8. SessionGoesFirst'
    BY <2>1 DEF SessionGoesFirst
  <2>9. SessionIsUsable'
    BY <2>1 DEF SessionIsUsable
  <2>10. ProfilesAreKnown'
    BY <1>4, <2>1, <2>2 DEF DeleteLost, ProfilesAreKnown
  <2>11. FailsOnlyByItself'
    BY <2>1 DEF FailsOnlyByItself
  <2> QED
    BY <2>3, <2>4, <2>5, <2>6, <2>7, <2>8, <2>9, <2>10, <2>11
<1> QED
  BY <1>1, <1>2, <1>3, <1>4 DEF SignOut

\* Every step of the clearing keeps the invariant.
LEMMA ClearKeepsInv ==
  ASSUME NEW T, Tasks = {T}, AccountInv, FailsOnlyByItself, Clear(T)
  PROVE  AccountInv' /\ FailsOnlyByItself'
<1>a. /\ TypeOK /\ task \in [Tasks -> TaskStates] /\ T \in Tasks
      /\ task[T] \in TaskStates
      /\ task[T].pc \in Pcs /\ task[T].i \in Counts
      /\ task[T].kind \in {"none", "activate", "signOut"}
      /\ task[T].got \in [Protocols -> HandleOrNone]
      /\ task[T].creds \in SUBSET Protocols
      /\ task[T].hit \in BOOLEAN
      /\ task[T].outcome \in {"none", "done", "undone", "failed"}
  BY TaskFields DEF AccountInv
<1>b. /\ task[T].pc # "clear" => task[T].i \in Protocols
      /\ ProtocolCount \in Nat \ {0} /\ Protocols = 1 .. ProtocolCount
      /\ NoHandle \notin Handles /\ 1 \in Protocols
  BY Constants DEF AccountInv, StepsFollowTheKind, At
<1> USE DEF AccountInv, At, storage
<1>1. CASE ClearKey(T)
  <2>1. /\ task' \in [Tasks -> TaskStates]
        /\ task'[T].pc = "clear" /\ task'[T].i = 2
        /\ task'[T].kind = task[T].kind /\ task'[T].got = task[T].got
        /\ task'[T].creds = task[T].creds /\ task'[T].hit = task[T].hit
        /\ task'[T].outcome = task[T].outcome
    BY <1>a, <1>1, Constants, GotoEffect DEF ClearKey
  <2>2. TypeOK'
    BY <1>1, <2>1 DEF ClearKey, TypeOK
  <2>3. StepsFollowTheKind'
    BY <1>1, <2>1 DEF ClearKey, StepsFollowTheKind
  <2>4. UndoingWasHit'
    BY <1>1, <2>1 DEF ClearKey, UndoingWasHit
  <2>5. ActivatedSoFar'
    BY <2>1 DEF ActivatedSoFar
  <2>6. SignedOutSoFar'
    BY <1>1, <2>1 DEF ClearKey, SignedOutSoFar
  <2>7. SessionGoesFirst'
    BY <2>1 DEF SessionGoesFirst
  <2>8. SessionIsUsable'
    BY <2>1 DEF SessionIsUsable, Idle
  <2>9. ProfilesAreKnown'
    BY <1>1 DEF ClearKey, ProfilesAreKnown
  <2>10. FailsOnlyByItself'
    BY <2>1 DEF FailsOnlyByItself
  <2> QED
    BY <2>2, <2>3, <2>4, <2>5, <2>6, <2>7, <2>8, <2>9, <2>10
<1>2. CASE ClearSession(T)
  <2>1. /\ task' \in [Tasks -> TaskStates]
        /\ task'[T].pc = "clear" /\ task'[T].i = 3
        /\ task'[T].kind = task[T].kind /\ task'[T].got = task[T].got
        /\ task'[T].creds = task[T].creds /\ task'[T].hit = task[T].hit
        /\ task'[T].outcome = task[T].outcome
    BY <1>a, <1>2, Constants, GotoEffect DEF ClearSession
  <2>2. TypeOK'
    BY <1>2, <2>1 DEF ClearSession, TypeOK
  <2>3. StepsFollowTheKind'
    BY <1>2, <2>1 DEF ClearSession, StepsFollowTheKind
  <2>4. UndoingWasHit'
    BY <1>2, <2>1 DEF ClearSession, UndoingWasHit
  <2>5. ActivatedSoFar'
    BY <2>1 DEF ActivatedSoFar
  <2>6. SignedOutSoFar'
    BY <1>2, <2>1 DEF ClearSession, SignedOutSoFar
  <2>7. SessionGoesFirst'
    BY <1>2 DEF ClearSession, SessionGoesFirst
  <2>8. SessionIsUsable'
    BY <2>1 DEF SessionIsUsable, Idle
  <2>9. ProfilesAreKnown'
    BY <1>2 DEF ClearSession, ProfilesAreKnown
  <2>10. FailsOnlyByItself'
    BY <2>1 DEF FailsOnlyByItself
  <2> QED
    BY <2>2, <2>3, <2>4, <2>5, <2>6, <2>7, <2>8, <2>9, <2>10
<1>3. CASE ClearHandle(T)
  <2>1. /\ task[T].pc = "clear" /\ task[T].i > 2 /\ shown' \in {shown, FALSE}
        /\ handle' = [handle EXCEPT ![task[T].i - 2] = NoHandle]
        /\ UNCHANGED <<vault, key, session, lossy>>
    BY <1>3 DEF ClearHandle, Succeed
  <2>2. /\ task' \in [Tasks -> TaskStates]
        /\ task'[T].kind = task[T].kind
        /\ task[T].hit => task'[T].hit
        /\ \/ /\ task[T].i < ProtocolCount + 2
              /\ task'[T].pc = "clear" /\ task'[T].i = task[T].i + 1
           \/ /\ task'[T].pc = "idle" /\ task'[T].i = 1
              /\ task'[T].outcome \in {"done", "undone"}
    <3>1. CASE task[T].i < ProtocolCount + 2
      <4>1. Goto(T, "clear", task[T].i + 1) /\ task[T].i + 1 \in Counts /\ "clear" \in Pcs
        BY <1>a, <1>b, <1>3, <3>1 DEF ClearHandle, Counts
      <4> QED
        BY <1>a, <3>1, <4>1, GotoEffect
    <3>2. CASE ~(task[T].i < ProtocolCount + 2)
      <4>1. PICK outcome \in {"done", "undone"} :
              task' = [task EXCEPT ![T] = Ended(T, outcome, task[T].hit)]
        BY <1>3, <3>2 DEF ClearHandle, Succeed, Throw
      <4> QED
        BY <1>a, <4>1, EndedEffect
    <3> QED
      BY <3>1, <3>2
  <2>3. TypeOK'
    BY <2>2, <2>1 DEF TypeOK, HandleOrNone
  <2>4. StepsFollowTheKind'
    BY <1>b, <2>2, <2>1 DEF StepsFollowTheKind, Activating
  <2>5. UndoingWasHit'
    BY <2>2, <2>1 DEF UndoingWasHit
  <2>6. ActivatedSoFar'
    BY <2>2 DEF ActivatedSoFar
  <2>7. SignedOutSoFar'
    <3>1. task[T].kind = "signOut" => \A p \in Protocols : handle[p] \notin vault
      BY <2>1 DEF SignedOutSoFar
    <3>2. NoHandle \notin vault /\ \A p \in Protocols : handle'[p] \in {handle[p], NoHandle}
      BY <1>b, <2>1 DEF TypeOK
    <3> QED
      BY <1>a, <2>1, <2>2, <3>1, <3>2 DEF SignedOutSoFar
  <2>8. SessionGoesFirst'
    BY <2>1 DEF SessionGoesFirst
  <2>9. SessionIsUsable'
    BY <2>1 DEF SessionIsUsable, SessionGoesFirst
  <2>10. ProfilesAreKnown'
    BY <2>1 DEF ProfilesAreKnown
  <2>11. FailsOnlyByItself'
    <3>1. task[T].kind = "signOut" /\ task'[T].pc = "idle" => task'[T].outcome = "done"
      <4>1. CASE task[T].i < ProtocolCount + 2
        BY <1>a, <1>3, <4>1, Whereabouts DEF ClearHandle
      <4>2. CASE ~(task[T].i < ProtocolCount + 2)
        BY <1>a, <1>3, Whereabouts DEF ClearHandle, Succeed, Throw
      <4> QED
        BY <4>1, <4>2
    <3>2. task[T].kind = "activate" => task'[T].hit
      BY <2>1, <2>2 DEF UndoingWasHit
    <3> QED
      BY <1>a, <2>1, <2>2, <3>1, <3>2 DEF FailsOnlyByItself, StepsFollowTheKind
  <2> QED
    BY <2>3, <2>4, <2>5, <2>6, <2>7, <2>8, <2>9, <2>10, <2>11
<1>4. CASE ClearFails(T)
  <2>1. /\ task' \in [Tasks -> TaskStates]
        /\ task'[T].pc = "idle" /\ task'[T].i = 1 /\ task'[T].hit
        /\ task'[T].kind = task[T].kind /\ task'[T].outcome = "failed"
    BY <1>a, <1>4, EndedEffect DEF ClearFails, Throw
  <2>2. TypeOK'
    BY <1>4, <2>1 DEF ClearFails, TypeOK
  <2>3. StepsFollowTheKind'
    BY <1>b, <2>1 DEF StepsFollowTheKind, Activating
  <2>4. UndoingWasHit'
    BY <2>1 DEF UndoingWasHit
  <2>5. ActivatedSoFar'
    BY <2>1 DEF ActivatedSoFar
  <2>6. SignedOutSoFar'
    BY <2>1 DEF SignedOutSoFar
  <2>7. SessionGoesFirst'
    BY <2>1 DEF SessionGoesFirst
  <2>8. SessionIsUsable'
    BY <2>1 DEF SessionIsUsable
  <2>9. ProfilesAreKnown'
    BY <1>4 DEF ClearFails, ProfilesAreKnown
  <2>10. FailsOnlyByItself'
    BY <2>1 DEF FailsOnlyByItself
  <2> QED
    BY <2>2, <2>3, <2>4, <2>5, <2>6, <2>7, <2>8, <2>9, <2>10
<1> QED
  BY <1>1, <1>2, <1>3, <1>4 DEF Clear

\* The screen is made anew, an operation starts, or the application ends: nothing
\* that is stored changes.
LEMMA ScreenKeepsInv ==
  ASSUME NEW T, Tasks = {T}, AccountInv, FailsOnlyByItself,
         OpenScreen \/ StartActivation(T) \/ StartSignOut(T) \/ AppRestarts
  PROVE  AccountInv' /\ FailsOnlyByItself'
<1>a. /\ TypeOK /\ task \in [Tasks -> TaskStates] /\ T \in Tasks
      /\ task[T] \in TaskStates
      /\ task[T].pc \in Pcs /\ task[T].i \in Counts
      /\ task[T].kind \in {"none", "activate", "signOut"}
      /\ task[T].got \in [Protocols -> HandleOrNone]
      /\ task[T].creds \in SUBSET Protocols
      /\ task[T].hit \in BOOLEAN
      /\ task[T].outcome \in {"none", "done", "undone", "failed"}
  BY TaskFields DEF AccountInv
<1>b. 1 \in Protocols /\ ProtocolCount \in Nat \ {0} /\ Protocols = 1 .. ProtocolCount
  BY Constants
<1>c. /\ UNCHANGED <<vault, storage>>
      /\ shown' \in BOOLEAN /\ lossy' \in BOOLEAN /\ (lossy => lossy')
  BY <1>a DEF TypeOK, OpenScreen, StartActivation, StartSignOut, AppRestarts, Restore
<1>d. Referenced' = Referenced
  BY <1>c DEF Referenced, storage
<1>e. NoTask \in TaskStates
  BY Constants DEF NoTask, TaskStates, HandleOrNone
<1> USE DEF AccountInv, At, storage
<1>1. CASE OpenScreen
  <2>1. /\ task' \in [Tasks -> TaskStates] /\ lossy' = lossy
        /\ task'[T].pc = task[T].pc /\ task'[T].i = task[T].i
        /\ task'[T].kind = task[T].kind /\ task'[T].got = task[T].got
        /\ task'[T].creds = task[T].creds /\ task'[T].outcome = task[T].outcome
        /\ task[T].hit => task'[T].hit
    BY <1>1, <1>a DEF OpenScreen, TaskStates
  <2>2. TypeOK'
    BY <1>c, <2>1 DEF TypeOK
  <2>3. StepsFollowTheKind' /\ UndoingWasHit'
    BY <2>1 DEF StepsFollowTheKind, UndoingWasHit
  <2>4. ActivatedSoFar' /\ SignedOutSoFar'
    BY <1>c, <2>1 DEF ActivatedSoFar, SignedOutSoFar
  <2>5. SessionGoesFirst' /\ SessionIsUsable'
    BY <1>c, <1>d, <2>1 DEF SessionGoesFirst, SessionIsUsable, Idle
  <2>6. ProfilesAreKnown'
    BY <1>c, <1>d, <2>1 DEF ProfilesAreKnown
  <2>7. FailsOnlyByItself'
    BY <2>1 DEF FailsOnlyByItself
  <2> QED
    BY <2>2, <2>3, <2>4, <2>5, <2>6, <2>7
<1>2. CASE StartActivation(T)
  <2>1. /\ task' \in [Tasks -> TaskStates]
        /\ task[T].pc = "idle"
        /\ task'[T].pc = "api" /\ task'[T].i = 1 /\ task'[T].kind = "activate"
        /\ \A p \in Protocols : task'[T].got[p] = NoHandle
        /\ task'[T].outcome = task[T].outcome
    BY <1>2, <1>a, <1>e DEF StartActivation, NoTask, TaskStates
  <2>2. TypeOK'
    BY <1>c, <2>1 DEF TypeOK
  <2>3. StepsFollowTheKind' /\ UndoingWasHit'
    BY <1>b, <2>1 DEF StepsFollowTheKind, UndoingWasHit
  <2>4. ActivatedSoFar' /\ SignedOutSoFar'
    BY <2>1 DEF ActivatedSoFar, SignedOutSoFar
  <2>5. SessionGoesFirst' /\ SessionIsUsable'
    BY <1>c, <1>d, <2>1 DEF SessionGoesFirst, SessionIsUsable, Idle
  <2>6. ~lossy' => ~lossy /\ ~session
    BY <1>2 DEF StartActivation
  <2>7. ProfilesAreKnown'
    BY <1>c, <2>1, <2>6 DEF ProfilesAreKnown
  <2>8. FailsOnlyByItself'
    BY <2>1 DEF FailsOnlyByItself
  <2> QED
    BY <2>2, <2>3, <2>4, <2>5, <2>7, <2>8
<1>3. CASE StartSignOut(T)
  <2>1. /\ task' \in [Tasks -> TaskStates] /\ (lossy' = lossy)
        /\ task[T].pc = "idle"
        /\ task'[T].pc = "read" /\ task'[T].i = 1 /\ task'[T].kind = "signOut"
        /\ task'[T].outcome = task[T].outcome
    BY <1>3, <1>a, <1>e DEF StartSignOut, NoTask, TaskStates
  <2>2. TypeOK'
    BY <1>c, <2>1 DEF TypeOK
  <2>3. StepsFollowTheKind' /\ UndoingWasHit'
    BY <1>b, <2>1 DEF StepsFollowTheKind, UndoingWasHit, Activating
  <2>4. ActivatedSoFar' /\ SignedOutSoFar'
    BY <1>b, <2>1 DEF ActivatedSoFar, SignedOutSoFar
  <2>5. SessionGoesFirst' /\ SessionIsUsable'
    BY <2>1 DEF SessionGoesFirst, SessionIsUsable, Idle
  <2>6. ProfilesAreKnown'
    BY <1>c, <1>d, <2>1 DEF ProfilesAreKnown
  <2>7. FailsOnlyByItself'
    BY <2>1 DEF FailsOnlyByItself
  <2> QED
    BY <2>2, <2>3, <2>4, <2>5, <2>6, <2>7
<1>4. CASE AppRestarts
  <2>1. task' = [task EXCEPT ![T] = Ended(T, "failed", TRUE)] /\ lossy'
    BY <1>4, <1>a DEF AppRestarts
  <2>2. /\ task' \in [Tasks -> TaskStates]
        /\ task'[T].pc = "idle" /\ task'[T].i = 1 /\ task'[T].outcome = "failed"
        /\ task'[T].hit
    BY <1>a, <2>1, EndedEffect
  <2>3. TypeOK'
    BY <1>c, <2>2 DEF TypeOK
  <2>4. StepsFollowTheKind' /\ UndoingWasHit'
    BY <1>b, <2>2 DEF StepsFollowTheKind, UndoingWasHit, Activating
  <2>5. ActivatedSoFar' /\ SignedOutSoFar'
    BY <2>2 DEF ActivatedSoFar, SignedOutSoFar
  <2>6. SessionGoesFirst' /\ SessionIsUsable'
    BY <2>2 DEF SessionGoesFirst, SessionIsUsable
  <2>7. ProfilesAreKnown'
    BY <2>1 DEF ProfilesAreKnown
  <2>8. FailsOnlyByItself'
    BY <2>2 DEF FailsOnlyByItself
  <2> QED
    BY <2>3, <2>4, <2>5, <2>6, <2>7, <2>8
<1> QED
  BY <1>1, <1>2, <1>3, <1>4

\* Nothing is stored at first.
LEMMA InitInv ==
  ASSUME NEW T, Tasks = {T}, Init
  PROVE  AccountInv /\ FailsOnlyByItself
<1>1. NoTask \in TaskStates
  BY Constants DEF NoTask, TaskStates, HandleOrNone
<1>2. /\ task[T].pc = "idle" /\ task[T].i = 1 /\ task[T].kind = "none"
      /\ ~session /\ vault = {}
  BY DEF Init, NoTask
<1>3. TypeOK
  BY <1>1 DEF Init, TypeOK, HandleOrNone
<1>4. StepsFollowTheKind /\ UndoingWasHit
  BY <1>2, Constants DEF StepsFollowTheKind, UndoingWasHit, Activating, At
<1>5. ActivatedSoFar /\ SignedOutSoFar
  BY <1>2 DEF ActivatedSoFar, SignedOutSoFar, At
<1>6. SessionGoesFirst /\ SessionIsUsable /\ ProfilesAreKnown
  BY <1>2 DEF SessionGoesFirst, SessionIsUsable, ProfilesAreKnown
<1>7. FailsOnlyByItself
  BY DEF Init, NoTask, FailsOnlyByItself
<1> QED
  BY <1>3, <1>4, <1>5, <1>6, <1>7 DEF AccountInv

\* Every step, and none.
LEMMA NextKeepsInv ==
  ASSUME NEW T, Tasks = {T}, AccountInv, FailsOnlyByItself, [Next]_vars
  PROVE  AccountInv' /\ FailsOnlyByItself'
<1>1. CASE Activate(T)
  BY <1>1, ActivateKeepsInv
<1>2. CASE SignOut(T)
  BY <1>2, SignOutKeepsInv
<1>3. CASE Clear(T)
  BY <1>3, ClearKeepsInv
<1>4. CASE OpenScreen \/ StartActivation(T) \/ StartSignOut(T) \/ AppRestarts
  BY <1>4, ScreenKeepsInv
<1>5. CASE UNCHANGED vars
  BY <1>5 DEF vars, storage, AccountInv, TypeOK, StepsFollowTheKind, UndoingWasHit,
    ActivatedSoFar, SignedOutSoFar, SessionGoesFirst, SessionIsUsable,
    ProfilesAreKnown, At, Idle, Referenced, FailsOnlyByItself
<1> QED
  BY <1>1, <1>2, <1>3, <1>4, <1>5 DEF Next

\* With one operation at a time.
LEMMA InvHolds ==
  ASSUME NEW CONSTANT T, Tasks = {T}
  PROVE  Spec => [](AccountInv /\ FailsOnlyByItself)
<1>1. Init => AccountInv /\ FailsOnlyByItself
  BY InitInv
<1>2. AccountInv /\ FailsOnlyByItself /\ [Next]_vars => AccountInv' /\ FailsOnlyByItself'
  BY NextKeepsInv
<1> QED
  BY <1>1, <1>2, PTL DEF Spec

\* With one operation at a time, whatever the number of protocols: each await finds
\* what those before it have left, and what is stored when all have ended is usable.
THEOREM AccountIsSafe ==
  ASSUME NEW CONSTANT T, Tasks = {T}
  PROVE  Spec => []AccountInv
BY InvHolds, PTL

\* No activation or sign-out fails over what an earlier one left: _clearAccountData and
\* deleteProfile take what is not there for done.
THEOREM RetriesWork ==
  ASSUME NEW CONSTANT T, Tasks = {T}
  PROVE  Spec => []FailsOnlyByItself
BY InvHolds, PTL

\* An activation that merely fails takes back every profile it provisioned.
THEOREM FailedActivationIsUndone ==
  ASSUME NEW CONSTANT T, Tasks = {T}
  PROVE  Spec => []FailureLeavesNoProfile
<1>1. AccountInv => FailureLeavesNoProfile
  BY DEF AccountInv, ProfilesAreKnown, FailureLeavesNoProfile, Idle, At
<1> QED
  BY <1>1, AccountIsSafe, PTL

\* Nothing else returns an account from an activation than the writing of the session.
LEMMA OnlyWriteSessionReturns ==
  ASSUME NEW T, Tasks = {T}, AccountInv, [Next]_vars, ActivationReturns(T)
  PROVE  WriteSession(T)
<1>1. /\ task \in [Tasks -> TaskStates] /\ T \in Tasks
      /\ task[T].kind = "activate" /\ task[T].pc \notin {"idle", "api", "read", "delete"}
      /\ task'[T].pc = "idle" /\ task'[T].outcome = "done"
  BY DEF ActivationReturns, AccountInv, TypeOK, StepsFollowTheKind
<1>2. CASE Activate(T)
  <2>1. \/ WriteSession(T)
        \/ Import(T)
        \/ WriteKey(T) \/ KeepHandle(T) \/ DropHandle(T) \/ Undo(T)
        \/ ImportLost(T) \/ ActivationFails(T)
    BY <1>1, <1>2 DEF Activate, ApiAnswers, ApiFails, At
  <2>2. ~(WriteKey(T) \/ KeepHandle(T) \/ DropHandle(T) \/ Undo(T))
    BY <1>1, Whereabouts DEF WriteKey, KeepHandle, DropHandle, Undo, NextProtocol
  <2>3. ~(ImportLost(T) \/ ActivationFails(T))
    BY <1>1, Whereabouts DEF ImportLost, ActivationFails
  <2>4. ~Import(T)
    BY <1>1 DEF Import, TaskStates
  <2> QED
    BY <2>1, <2>2, <2>3, <2>4
<1>3. ~SignOut(T)
  BY <1>1 DEF SignOut, ReadHandle, DeleteProfile, SignOutFails, DeleteLost, At
<1>4. ~Clear(T)
  <2>1. ~(ClearKey(T) \/ ClearSession(T))
    BY <1>1, Whereabouts DEF ClearKey, ClearSession
  <2>2. ~ClearFails(T)
    BY <1>1, Whereabouts DEF ClearFails
  <2>3. ~ClearHandle(T)
    BY <1>1, Whereabouts DEF ClearHandle
  <2> QED
    BY <2>1, <2>2, <2>3 DEF Clear
<1>5. ~(OpenScreen \/ StartActivation(T) \/ StartSignOut(T) \/ AppRestarts \/ UNCHANGED vars)
  <2>1. ~(StartActivation(T) \/ StartSignOut(T) \/ UNCHANGED vars)
    BY <1>1 DEF StartActivation, StartSignOut, At, vars
  <2>2. ~OpenScreen
    BY <1>1 DEF OpenScreen, TaskStates
  <2>3. ~AppRestarts
    BY <1>1 DEF AppRestarts, Ended, NoTask
  <2> QED
    BY <2>1, <2>2, <2>3
<1> QED
  BY <1>2, <1>3, <1>4, <1>5 DEF Next

\* The activation writes the session last, when all the rest is stored.
THEOREM ActivationStoresAll ==
  ASSUME NEW CONSTANT T, Tasks = {T}
  PROVE  Spec => ActivationIsComplete
<1> DEFINE Complete ==
      \A t \in Tasks :
        ActivationReturns(t) =>
          /\ key' /\ session'
          /\ \A p \in Protocols : IF p \in task[t].creds THEN handle'[p] \in vault'
                                 ELSE handle'[p] = NoHandle
<1>1. AccountInv /\ [Next]_vars => Complete
  <2>1. ASSUME AccountInv, [Next]_vars, ActivationReturns(T)
        PROVE  WriteSession(T)
    BY <2>1, OnlyWriteSessionReturns
  <2>2. ASSUME AccountInv, WriteSession(T)
        PROVE  /\ key' /\ session'
               /\ \A p \in Protocols : IF p \in task[T].creds THEN handle'[p] \in vault'
                                      ELSE handle'[p] = NoHandle
    <3>1. task[T].pc = "session" /\ session' /\ UNCHANGED <<vault, key, handle>>
      BY <2>2 DEF WriteSession, At
    <3>2. /\ key
          /\ \A p \in Protocols : IF p \in task[T].creds THEN handle[p] \in vault
                                 ELSE handle[p] = NoHandle
      BY <2>2, <3>1, Constants DEF AccountInv, ActivatedSoFar
    <3> QED
      BY <3>1, <3>2
  <2> QED
    BY <2>1, <2>2
<1>2. AccountInv /\ [Next]_vars => [Complete]_vars
  BY <1>1
<1> QED
  BY <1>2, AccountIsSafe, PTL DEF Spec, ActivationIsComplete

\* A sign-out clears the handles when the vault holds none of their profiles.
THEOREM SignOutKeepsHandles ==
  ASSUME NEW CONSTANT T, Tasks = {T}
  PROVE  Spec => SignOutNeverOrphans
<1> DEFINE Kept ==
      \A p \in Protocols :
        /\ \E t \in Tasks : task[t].kind = "signOut" /\ ~At(t, "idle")
        /\ handle[p] \in vault
        => handle'[p] = handle[p] \/ handle[p] \notin vault'
<1>1. AccountInv /\ [Next]_vars => Kept
  <2> SUFFICES ASSUME AccountInv, [Next]_vars, NEW p \in Protocols,
                      task[T].kind = "signOut", task[T].pc # "idle", handle[p] \in vault
               PROVE  handle'[p] = handle[p]
    BY DEF At
  <2>1. handle' = handle \/ Clear(T)
    BY DEF Next, AccountInv, StepsFollowTheKind, Activating, Activate, ApiAnswers, ApiFails,
      WriteKey, Import, ImportLost, KeepHandle, DropHandle, WriteSession, ActivationFails,
      Undo, SignOut, ReadHandle, DeleteProfile, SignOutFails, DeleteLost, OpenScreen,
      StartActivation, StartSignOut, AppRestarts, storage, vars, At
  <2>2. ~At(T, "clear")
    BY DEF AccountInv, SignedOutSoFar
  <2> QED
    BY <2>1, <2>2 DEF Clear, ClearKey, ClearSession, ClearHandle, ClearFails
<1>2. AccountInv /\ [Next]_vars => [Kept]_vars
  BY <1>1
<1> QED
  BY <1>2, AccountIsSafe, PTL DEF Spec, SignOutNeverOrphans
=============================================================================
