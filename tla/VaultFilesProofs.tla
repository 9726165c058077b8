-------------------------- MODULE VaultFilesProofs --------------------------
(***************************************************************************)
(* Theorems about VaultFiles, for every set of handles and profiles, every *)
(* assignment of protocols and every number of draws.                      *)
(***************************************************************************)
EXTENDS VaultFiles, TLAPS

\* The fields that a request of each kind carries.
LEMMA RequestFields ==
  ASSUME NEW r \in Contract!Requests
  PROVE  /\ r # Contract!Nobody
         /\ r.call = "store" => r.handle = NoHandle /\ r.profile \in Profiles
         /\ r.call # "store" => /\ r.call \in Protocols \cup {"delete"}
                                /\ r.handle \in Handles
                                /\ r.profile = NoProfile
  BY ProtocolsAssumption DEF Contract!Requests, Contract!Nobody

\* Nobody is distinguished by its call.
LEMMA NobodyCalls ==
  /\ Contract!Nobody.call = "none"
  /\ Contract!Nobody \notin Contract!Requests
  BY RequestFields DEF Contract!Nobody

\* What is said is an answer.
LEMMA SaidIsAnswer ==
  ASSUME NEW code \in {"NONE", "STORED", "LOADED", "DELETED"} \cup Contract!Errors,
         NEW h \in Handles \cup {NoHandle}, NEW p \in Profiles \cup {NoProfile}
  PROVE  Contract!Said(code, h, p) \in Contract!Answers
  BY DEF Contract!Said, Contract!Answers

\* Saying nothing is an answer, too.
LEMMA SilenceIsAnswer == Contract!Silence \in Contract!Answers
  BY DEF Contract!Silence, Contract!Said, Contract!Answers

\* Nothing runs before the first start, and nothing is stored.
LEMMA InitInv == Init => VaultInv
<1> SUFFICES ASSUME Init PROVE VaultInv
  OBVIOUS
<1> USE DEF Init, Contract!ContractInit
<1>1. TypeOK
  BY AttemptsAssumption, SilenceIsAnswer DEF TypeOK, Contents, Writing
<1>2. HeldIsDurable /\ CallsFollowTheRequest /\ WritingIsOwn
  BY DEF HeldIsDurable, CallsFollowTheRequest, WritingIsOwn, Writing
<1>3. PrefixTellsTheProtocol
  BY MarksAssumption DEF PrefixTellsTheProtocol
<1>4. QED
  BY <1>1, <1>2, <1>3 DEF VaultInv

\* What a return of the request in progress leaves of the invariant.
LEMMA ReturnKeepsInv ==
  ASSUME VaultInv,
         NEW code \in {"NONE", "STORED", "LOADED", "DELETED"} \cup Contract!Errors,
         NEW h \in Handles \cup {NoHandle}, NEW p \in Profiles \cup {NoProfile},
         Return(code, h, p),
         UNCHANGED <<storeVars, held>>,
         seen' \in [Handles -> Contents], UNCHANGED disk,
         \A g \in Handles : seen'[g] \in {seen[g], Absent},
         \A g \in Handles : held[g] # NoProfile => seen'[g] = seen[g]
  PROVE  VaultInv'
<1> USE DEF VaultInv, Return
<1>1. TypeOK'
  BY SaidIsAnswer DEF TypeOK, storeVars
<1>2. HeldIsDurable'
  BY DEF HeldIsDurable, TypeOK
<1>3. PrefixTellsTheProtocol'
  BY MarksAssumption DEF PrefixTellsTheProtocol
<1>4. CallsFollowTheRequest' /\ WritingIsOwn'
  BY DEF CallsFollowTheRequest, WritingIsOwn, Writing
<1>5. QED
  BY <1>1, <1>2, <1>3, <1>4

\* The invariant is inductive.
LEMMA NextInv == VaultInv /\ [Next]_vars => VaultInv'
<1> SUFFICES ASSUME VaultInv, [Next]_vars PROVE VaultInv'
  OBVIOUS
<1> TypeOK
  BY DEF VaultInv
<1>1. CASE Ask
  <2> USE <1>1 DEF Ask, Contract!Asks
  <2>1. asked' \in Contract!Requests
    OBVIOUS
  <2>2. TypeOK'
    BY <2>1, SilenceIsAnswer, AttemptsAssumption DEF TypeOK
  <2>3. HeldIsDurable' /\ PrefixTellsTheProtocol'
    BY DEF VaultInv, HeldIsDurable, PrefixTellsTheProtocol
  <2>4. CallsFollowTheRequest' /\ WritingIsOwn'
    BY <2>1, RequestFields, ProtocolsAssumption
    DEF CallsFollowTheRequest, WritingIsOwn, Writing
  <2>5. QED
    BY <2>2, <2>3, <2>4 DEF VaultInv
<1>2. ASSUME StoreFails \/ GiveUp \/ LoadFails \/ DeleteFails PROVE VaultInv'
  <2>1. PICK error \in Contract!Errors : ReturnError(error) /\ UNCHANGED <<seen, disk>>
    BY <1>2 DEF StoreFails, GiveUp, LoadFails, DeleteFails, Contract!Errors
  <2>2. QED
    BY <2>1, ReturnKeepsInv DEF ReturnError, storeVars, TypeOK
<1>3. ASSUME NEW h \in Handles, Create(h) PROVE VaultInv'
  <2> USE <1>3 DEF Create
  <2>1. TypeOK'
    BY DEF TypeOK, Contents, Writing
  <2>2. held[h] = NoProfile
    BY MarksAssumption DEF VaultInv, HeldIsDurable, TypeOK
  <2>3. HeldIsDurable'
    BY <2>2 DEF VaultInv, HeldIsDurable, TypeOK
  <2>4. PrefixTellsTheProtocol'
    BY MarksAssumption DEF VaultInv, PrefixTellsTheProtocol, TypeOK
  <2>5. CallsFollowTheRequest' /\ WritingIsOwn'
    BY <2>2 DEF VaultInv, CallsFollowTheRequest, WritingIsOwn, Writing, TypeOK
  <2>6. QED
    BY <2>1, <2>3, <2>4, <2>5 DEF VaultInv
<1>4. ASSUME NEW h \in Handles, Collide(h) PROVE VaultInv'
  <2> USE <1>4 DEF Collide
  <2>1. TypeOK'
    BY AttemptsAssumption DEF TypeOK
  <2>2. QED
    BY <2>1 DEF VaultInv, HeldIsDurable, PrefixTellsTheProtocol,
      CallsFollowTheRequest, WritingIsOwn, Writing
<1>5. CASE Write
  <2> USE <1>5 DEF Write
  <2>1. /\ target \in Handles /\ held[target] = NoProfile
        /\ HandleProtocol[target] = ProfileProtocol[asked.profile]
        /\ asked.call = "store"
    BY DEF VaultInv, WritingIsOwn, CallsFollowTheRequest, Writing
  <2>2. asked.profile \in Profiles
    BY <2>1, RequestFields, NobodyCalls DEF TypeOK
  <2>3. TypeOK'
    BY <2>1, <2>2 DEF TypeOK, Contents, Writing, storeVars
  <2>4. HeldIsDurable'
    BY <2>1 DEF VaultInv, HeldIsDurable, TypeOK
  <2>5. PrefixTellsTheProtocol'
    BY <2>1 DEF VaultInv, PrefixTellsTheProtocol, TypeOK
  <2>6. CallsFollowTheRequest' /\ WritingIsOwn'
    BY <2>1 DEF CallsFollowTheRequest, WritingIsOwn, Writing, TypeOK, storeVars
  <2>7. QED
    BY <2>3, <2>4, <2>5, <2>6 DEF VaultInv, storeVars
<1>6. CASE Sync
  <2> USE <1>6 DEF Sync
  <2>1. /\ target \in Handles /\ held[target] = NoProfile
        /\ seen[target] = asked.profile
    BY DEF VaultInv, WritingIsOwn, Writing
  <2>2. TypeOK'
    BY <2>1 DEF TypeOK, Writing, storeVars
  <2>3. HeldIsDurable'
    BY <2>1 DEF VaultInv, HeldIsDurable, TypeOK
  <2>4. PrefixTellsTheProtocol'
    BY <2>1 DEF VaultInv, PrefixTellsTheProtocol, TypeOK
  <2>5. CallsFollowTheRequest' /\ WritingIsOwn'
    BY <2>1 DEF VaultInv, CallsFollowTheRequest, WritingIsOwn, Writing, TypeOK, storeVars
  <2>6. QED
    BY <2>2, <2>3, <2>4, <2>5 DEF VaultInv, storeVars
<1>7. CASE Remove
  <2> USE <1>7 DEF Remove
  <2>1. target \in Handles /\ held[target] = NoProfile
    BY DEF VaultInv, WritingIsOwn, Writing
  <2>2. /\ seen' \in [Handles -> Contents]
        /\ \A g \in Handles : seen'[g] \in {seen[g], Absent}
        /\ \A g \in Handles : held[g] # NoProfile => seen'[g] = seen[g]
    BY <2>1 DEF TypeOK, Contents
  <2>3. QED
    BY <2>2, ReturnKeepsInv DEF ReturnError, Contract!Errors, storeVars
<1>8. CASE Give
  <2> USE <1>8 DEF Give, Return
  <2>1. /\ target \in Handles /\ asked.call = "store"
        /\ seen[target] = asked.profile /\ disk[target] = asked.profile
    BY DEF VaultInv, WritingIsOwn, CallsFollowTheRequest, Writing
  <2>2. asked.profile \in Profiles
    BY <2>1, RequestFields, NobodyCalls DEF TypeOK
  <2>3. TypeOK'
    BY <2>1, <2>2, SaidIsAnswer DEF TypeOK, storeVars
  <2>4. HeldIsDurable'
    BY <2>1 DEF VaultInv, HeldIsDurable, TypeOK
  <2>5. PrefixTellsTheProtocol' /\ CallsFollowTheRequest' /\ WritingIsOwn'
    BY DEF VaultInv, PrefixTellsTheProtocol, CallsFollowTheRequest, WritingIsOwn, Writing
  <2>6. QED
    BY <2>3, <2>4, <2>5 DEF VaultInv
<1>9. CASE Load
  <2> DEFINE result == LoadResult(asked.call, asked.handle)
             p == IF result = "LOADED" THEN seen[asked.handle] ELSE NoProfile
  <2>1. asked.handle \in Handles
    BY <1>9, RequestFields, NobodyCalls, ProtocolsAssumption
    DEF Load, VaultInv, CallsFollowTheRequest, TypeOK
  <2>2. result \in {"LOADED"} \cup Contract!Errors
    BY DEF LoadResult, Contract!Errors
  <2>3. p \in Profiles \cup {NoProfile}
    BY <2>1 DEF LoadResult, TypeOK, Contents
  <2>4. Return(result, NoHandle, p) /\ UNCHANGED <<seen, disk, held, storeVars>>
    BY <1>9 DEF Load
  <2> HIDE DEF result, p
  <2>5. QED
    BY <2>2, <2>3, <2>4, ReturnKeepsInv DEF TypeOK, storeVars
<1>10. CASE Unlink
  <2> USE <1>10 DEF Unlink
  <2>1. asked.handle \in Handles /\ asked.call = "delete"
    BY RequestFields, NobodyCalls DEF VaultInv, CallsFollowTheRequest, TypeOK
  <2>2. TypeOK'
    BY <2>1 DEF TypeOK, Contents, storeVars
  <2>3. HeldIsDurable'
    BY <2>1 DEF VaultInv, HeldIsDurable, TypeOK
  <2>4. PrefixTellsTheProtocol'
    BY <2>1, MarksAssumption DEF VaultInv, PrefixTellsTheProtocol, TypeOK
  <2>5. CallsFollowTheRequest' /\ WritingIsOwn'
    BY <2>1 DEF CallsFollowTheRequest, WritingIsOwn, Writing
  <2>6. held'[asked'.handle] = NoProfile
    BY <2>1 DEF TypeOK
  <2>7. QED
    BY <2>2, <2>3, <2>4, <2>5, <2>6 DEF VaultInv
<1>11. CASE Deleted
  BY <1>11, ReturnKeepsInv DEF Deleted, TypeOK, storeVars
<1>12. ASSUME GoesDown, seen' \in [Handles -> Contents], disk' \in [Handles -> Contents],
              HeldIsDurable', PrefixTellsTheProtocol'
       PROVE  VaultInv'
  <2> USE <1>12 DEF GoesDown
  <2>1. TypeOK'
    BY SilenceIsAnswer, AttemptsAssumption DEF TypeOK
  <2>2. CallsFollowTheRequest' /\ WritingIsOwn'
    BY DEF CallsFollowTheRequest, WritingIsOwn, Writing
  <2>3. QED
    BY <2>1, <2>2 DEF VaultInv
<1>13. CASE Killed
  <2>1. HeldIsDurable' /\ PrefixTellsTheProtocol'
    BY <1>13 DEF Killed, GoesDown, VaultInv, HeldIsDurable, PrefixTellsTheProtocol
  <2>2. QED
    BY <1>12, <1>13, <2>1 DEF Killed, TypeOK
<1>14. CASE PowerLoss
  <2> USE <1>14 DEF PowerLoss
  <2>1. \A h \in Handles : seen'[h] \in {Absent, Partial, disk[h], seen[h]}
    BY DEF Survivors
  <2>2. HeldIsDurable'
    BY DEF GoesDown, VaultInv, HeldIsDurable, Survivors
  <2>3. PrefixTellsTheProtocol'
    BY <2>1, MarksAssumption DEF VaultInv, PrefixTellsTheProtocol
  <2>4. QED
    BY <1>12, <2>2, <2>3
<1>15. ASSUME NEW h \in Handles, Settle(h) PROVE VaultInv'
  <2> USE <1>15 DEF Settle
  <2>1. TypeOK'
    BY DEF TypeOK, storeVars
  <2>2. HeldIsDurable' /\ PrefixTellsTheProtocol'
    BY DEF VaultInv, HeldIsDurable, PrefixTellsTheProtocol, TypeOK
  <2>3. CallsFollowTheRequest' /\ WritingIsOwn'
    BY DEF VaultInv, CallsFollowTheRequest, WritingIsOwn, Writing, TypeOK, storeVars
  <2>4. QED
    BY <2>1, <2>2, <2>3 DEF VaultInv
<1>16. CASE Start
  <2> USE <1>16 DEF Start
  <2>1. TypeOK' /\ HeldIsDurable' /\ PrefixTellsTheProtocol'
    BY DEF VaultInv, TypeOK, HeldIsDurable, PrefixTellsTheProtocol, storeVars
  <2>2. CallsFollowTheRequest' /\ WritingIsOwn'
    BY DEF VaultInv, CallsFollowTheRequest, WritingIsOwn, Writing
  <2>3. QED
    BY <2>1, <2>2 DEF VaultInv
<1>17. CASE UNCHANGED vars
  BY <1>17 DEF vars, storeVars, VaultInv, TypeOK, HeldIsDurable, PrefixTellsTheProtocol,
    CallsFollowTheRequest, WritingIsOwn
<1>18. QED
  BY <1>1, <1>2, <1>3, <1>4, <1>5, <1>6, <1>7, <1>8, <1>9, <1>10, <1>11, <1>13,
    <1>14, <1>15, <1>16, <1>17 DEF Next

\* The files of the handles that were given out are whole, durable and their own,
\* through every failed call, end of the process and power loss.
THEOREM VaultIsSafe == Spec => []VaultInv
<1>1. QED
  BY InitInv, NextInv, PTL DEF Spec

\* What a step of the vault is to the contract.
LEMMA StepsKeepContract ==
  ASSUME VaultInv, VaultInv', [Next]_vars
  PROVE  [Contract!ContractNext]_Contract!contractVars
<1> USE DEF Contract!ContractNext, Contract!contractVars
<1> TypeOK
  BY DEF VaultInv
<1>1. CASE Ask
  BY <1>1 DEF Ask
<1>2. ASSUME StoreFails \/ GiveUp \/ LoadFails \/ DeleteFails \/ Remove
      PROVE  Contract!Failed \/ Contract!StrayAnswered
  <2>1. PICK error \in Contract!Errors : ReturnError(error)
    BY <1>2 DEF StoreFails, GiveUp, LoadFails, DeleteFails, Remove, Contract!Errors
  <2>2. asked # Contract!Nobody
    BY <1>2, NobodyCalls, ProtocolsAssumption
    DEF StoreFails, GiveUp, LoadFails, DeleteFails, Remove, VaultInv,
      CallsFollowTheRequest, Writing
  <2>3. asked \in Contract!Requests
    BY <2>2 DEF TypeOK
  <2>4. CASE error = "PROFILE_STORE_UNAVAILABLE" \/ asked.call = "store"
    <3>1. asked.call = "store" => asked.handle = NoHandle
      BY <2>3, RequestFields
    <3>2. Contract!Failed
      BY <2>1, <2>2, <2>4, <3>1 DEF ReturnError, Return, Contract!Failed, Contract!Returns
    <3>3. QED
      BY <3>2
  <2>5. CASE error # "PROFILE_STORE_UNAVAILABLE" /\ asked.call # "store"
    <3>1. DeleteFails
      <4>1. error = "PROFILE_STORE_UNAVAILABLE" \/ DeleteFails
        BY <1>2, <2>1 DEF StoreFails, GiveUp, LoadFails, Remove, ReturnError,
          Return, Contract!Said
      <4>2. QED
        BY <2>5, <4>1
    <3>2. asked.handle \in Handles /\ seen[asked.handle] = Absent
      BY <2>1, <2>3, <2>5, <3>1, RequestFields
      DEF DeleteFails, ReturnError, Return, Contract!Said
    <3>3. held[asked.handle] = NoProfile
      BY <3>2, MarksAssumption DEF VaultInv, HeldIsDurable, TypeOK
    <3>4. answer' \in Contract!Answers
      BY DEF VaultInv, TypeOK
    <3>5. Contract!StrayAnswered
      BY <2>1, <2>2, <2>5, <3>3, <3>4
      DEF ReturnError, Return, Contract!StrayAnswered, Contract!Returns
    <3>6. QED
      BY <3>5
  <2>6. QED
    BY <2>4, <2>5
<1>3. CASE Give
  <2>1. /\ target \in Handles /\ held[target] = NoProfile
        /\ asked.call = "store" /\ asked # Contract!Nobody
    BY <1>3, NobodyCalls
    DEF Give, VaultInv, WritingIsOwn, CallsFollowTheRequest, Writing
  <2>2. Contract!StoreAnswered
    BY <1>3, <2>1 DEF Give, Return, Contract!StoreAnswered, Contract!Returns
  <2>3. QED
    BY <2>2
<1>4. CASE Load
  <2> DEFINE h == asked.handle
             result == LoadResult(asked.call, h)
  <2>1. /\ asked.call \in Protocols /\ asked.call # "store" /\ asked.call # "delete"
        /\ asked # Contract!Nobody
    BY <1>4, NobodyCalls, ProtocolsAssumption DEF Load, VaultInv, CallsFollowTheRequest
  <2>2. h \in Handles
    BY <2>1, RequestFields DEF TypeOK
  <2>3. CASE held[h] = NoProfile
    <3>1. answer' \in Contract!Answers
      BY DEF VaultInv, TypeOK
    <3>2. Contract!StrayAnswered
      BY <1>4, <2>1, <2>3, <3>1
      DEF Load, Return, Contract!StrayAnswered, Contract!Returns
    <3>3. QED
      BY <3>2
  <2>4. CASE held[h] # NoProfile /\ asked.call = HandleProtocol[h]
    <3>1. seen[h] = held[h] /\ seen[h] \in Profiles
      BY <2>2, <2>4 DEF VaultInv, HeldIsDurable, TypeOK
    <3>2. ProfileProtocol[seen[h]] = HandleProtocol[h]
      BY <2>2, <3>1 DEF VaultInv, PrefixTellsTheProtocol
    <3>3. result = "LOADED"
      BY <2>4, <3>1, <3>2, MarksAssumption DEF LoadResult
    <3>4. Contract!LoadAnswered
      BY <1>4, <2>1, <2>4, <3>1, <3>3
      DEF Load, Return, Contract!LoadAnswered, Contract!Returns
    <3>5. QED
      BY <3>4
  <2>5. CASE held[h] # NoProfile /\ asked.call # HandleProtocol[h]
    <3>1. seen[h] \in Profiles
      BY <2>2, <2>5 DEF VaultInv, HeldIsDurable, TypeOK
    <3>2. ProfileProtocol[seen[h]] = HandleProtocol[h]
      BY <2>2, <3>1 DEF VaultInv, PrefixTellsTheProtocol
    <3>3. result \in Contract!Errors
      BY <2>5, <3>1, <3>2, MarksAssumption DEF LoadResult, Contract!Errors
    <3>4. result # "LOADED"
      BY <3>3 DEF Contract!Errors
    <3>5. Contract!Failed
      BY <1>4, <2>1, <2>5, <3>3, <3>4 DEF Load, Return, Contract!Failed, Contract!Returns
    <3>6. QED
      BY <3>5
  <2>6. QED
    BY <2>3, <2>4, <2>5
<1>5. CASE Unlink
  <2>1. Contract!Dropped
    BY <1>5 DEF Unlink, Contract!Dropped, VaultInv, CallsFollowTheRequest
  <2>2. QED
    BY <2>1
<1>6. CASE Deleted
  <2>1. /\ asked.call = "delete" /\ asked # Contract!Nobody
        /\ held[asked.handle] = NoProfile
    BY <1>6, NobodyCalls DEF Deleted, VaultInv, CallsFollowTheRequest
  <2>2. answer' \in Contract!Answers
    BY DEF VaultInv, TypeOK
  <2>3. Contract!StrayAnswered
    BY <1>6, <2>1, <2>2 DEF Deleted, Return, Contract!StrayAnswered, Contract!Returns
  <2>4. QED
    BY <2>3
<1>7. CASE Killed \/ PowerLoss
  <2>1. Contract!Lost
    BY <1>7 DEF Killed, PowerLoss, GoesDown, Contract!Lost
  <2>2. QED
    BY <2>1
<1>8. ASSUME \/ Write \/ Sync \/ Start \/ UNCHANGED vars
             \/ \E h \in Handles : Create(h) \/ Collide(h) \/ Settle(h)
      PROVE  UNCHANGED Contract!contractVars
  BY <1>8 DEF Write, Sync, Start, vars, Create, Collide, Settle
<1>9. QED
  BY <1>1, <1>2, <1>3, <1>4, <1>5, <1>6, <1>7, <1>8 DEF Next

\* The vault implements what the processor relies on, under the mapping that keeps
\* the request, the answer and the profiles held.
THEOREM VaultImplementsContract == Spec => KeepsContract
<1>1. Init => Contract!ContractInit
  BY DEF Init
<1>2. VaultInv /\ VaultInv' /\ [Next]_vars => [Contract!ContractNext]_Contract!contractVars
  BY StepsKeepContract
<1>3. QED
  BY <1>1, <1>2, VaultIsSafe, PTL DEF Spec, KeepsContract, Contract!ContractSpec
=============================================================================
