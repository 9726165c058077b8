-------------------------- MODULE ServiceCoreProofs --------------------------
(***************************************************************************)
(* Proofs about ServiceCore for every set of request ids and of handles    *)
(* and every window: type correctness, what Disconnected and Connected     *)
(* promise about the running tunnel, the coherence of the reported state,  *)
(* the replay protection of the request-id window, and what the machine is *)
(* left in by a request that fails.                                        *)
(***************************************************************************)
EXTENDS ServiceCore, SequenceTheorems, TLAPS

-----------------------------------------------------------------------------
(* The connection machine *)

\* A machine after each method is a machine.
LEMMA MachineResults ==
  ASSUME NEW m \in Machines, NEW h \in Handles, NEW f \in BackendFailures
  PROVE  /\ Idle \in Machines
         /\ BeginConnect(h) \in Machines
         /\ MarkValidated(m) \in Machines
         /\ MarkConnected(m) \in Machines
         /\ BeginDisconnect(m) \in Machines
         /\ Fail(m, f) \in Machines
<1>1. FailureCode[f] \in FailureCodes
  BY DEF FailureCodes
<1>2. FailurePhase(f) \in Phases
  BY DEF FailurePhase, Phases, FailurePhases
<1>3. QED
  BY <1>1, <1>2 DEF Machines, Idle, BeginConnect, MarkValidated, MarkConnected,
     BeginDisconnect, Fail, Phases, FailurePhases, TransientPhases

\* What each method writes and what it keeps.
LEMMA MachineFields ==
  ASSUME NEW m \in Machines, NEW f \in BackendFailures
  PROVE  /\ MarkValidated(m).phase = "Connecting"
         /\ MarkValidated(m).profile = m.profile
         /\ MarkValidated(m).error = m.error
         /\ MarkConnected(m).phase = "Connected"
         /\ MarkConnected(m).profile = m.profile
         /\ MarkConnected(m).error = NoError
         /\ BeginDisconnect(m).phase = "Disconnecting"
         /\ BeginDisconnect(m).profile = m.profile
         /\ BeginDisconnect(m).error = m.error
         /\ Fail(m, f).phase = FailurePhase(f)
         /\ Fail(m, f).profile = m.profile
         /\ Fail(m, f).error = FailureCode[f]
  BY DEF Machines, MarkValidated, MarkConnected, BeginDisconnect, Fail

\* The machines a connect of profile h goes through.
LEMMA ConnectFields ==
  ASSUME NEW h \in Handles, NEW f \in BackendFailures
  PROVE  LET c == MarkValidated(BeginConnect(h))
         IN  /\ c \in Machines
             /\ c.phase = "Connecting" /\ c.profile = h /\ c.error = NoError
             /\ MarkConnected(c) \in Machines
             /\ MarkConnected(c).phase = "Connected"
             /\ MarkConnected(c).profile = h /\ MarkConnected(c).error = NoError
             /\ Fail(c, f) \in Machines
             /\ Fail(c, f).phase = FailurePhase(f)
             /\ Fail(c, f).profile = h /\ Fail(c, f).error = FailureCode[f]
<1> DEFINE b == BeginConnect(h)
           c == MarkValidated(b)
<1>1. b \in Machines /\ b.profile = h /\ b.error = NoError
  <2>1. Idle \in Machines
    BY DEF Machines, Idle, Phases
  <2>2. QED
    BY <2>1, MachineResults DEF BeginConnect
<1>2. c \in Machines /\ c.phase = "Connecting" /\ c.profile = h /\ c.error = NoError
  <2> HIDE DEF b
  <2> QED  BY <1>1, MachineResults, MachineFields
<1>3. MarkConnected(c) \in Machines /\ Fail(c, f) \in Machines
  <2> HIDE DEF c
  <2> QED  BY <1>2, MachineResults
<1>4. /\ MarkConnected(c).phase = "Connected" /\ MarkConnected(c).profile = h
      /\ MarkConnected(c).error = NoError
      /\ Fail(c, f).phase = FailurePhase(f) /\ Fail(c, f).profile = h
      /\ Fail(c, f).error = FailureCode[f]
  <2> HIDE DEF c
  <2> QED  BY <1>2, MachineFields
<1>5. QED
  BY <1>2, <1>3, <1>4

\* No allow-listed failure code is the absence of one, and a failure's phase is
\* a failure phase.
LEMMA FailureValues ==
  ASSUME NEW f \in BackendFailures
  PROVE  /\ FailureCode[f] # NoError
         /\ FailureCode[f] \in FailureCodes
         /\ FailurePhase(f) \in FailurePhases
  BY DEF BackendFailures, FailureCode, FailureCodes, NoError, FailurePhase,
     FailurePhases

\* No engine failure is reported as BUSY, and none leads to a transient phase.
LEMMA FailuresApart ==
  ASSUME NEW f \in BackendFailures
  PROVE  /\ FailureCode[f] # "BUSY"
         /\ FailurePhase(f) \notin TransientPhases
BY DEF BackendFailures, FailureCode, FailurePhase, TransientPhases

-----------------------------------------------------------------------------
(* Type correctness *)

\* Remembering an id keeps the deque, the set and the ages well typed.
LEMMA RememberType ==
  ASSUME TypeOK, NEW id \in RequestIds, Remember(id)
  PROVE  /\ recentIds' \in Seq(RequestIds)
         /\ recentIdSet' \in SUBSET RequestIds
         /\ age' \in [RequestIds -> 0..Never]
<1>1. Len(recentIds) = Window => recentIds # <<>>
  BY WindowAssumption DEF TypeOK
<1>2. recentIds' \in Seq(RequestIds)
  BY <1>1 DEF TypeOK, Remember
<1>3. age' \in [RequestIds -> 0..Never]
  BY WindowAssumption DEF TypeOK, Remember, Never
<1>4. QED
  BY <1>2, <1>3 DEF TypeOK, Remember

\* The reply frames are well typed, and so are their codes.
LEMMA CodesAreReplyCodes ==
  FailureCodes \subseteq ReplyCodes /\ StoreErrors \subseteq ReplyCodes
  BY DEF ReplyCodes

\* The service's state always has its declared types.
THEOREM TypeCorrect == Spec => []TypeOK
<1>1. Init => TypeOK
  BY WindowAssumption
     DEF Init, TypeOK, Machines, Idle, Phases, VaultStates, Replies, Commands,
         ReplyCodes, Never, NoTunnel
<1>2. TypeOK /\ [Next]_vars => TypeOK'
  <2> SUFFICES ASSUME TypeOK, [Next]_vars PROVE TypeOK'
    OBVIOUS
  <2> USE DEF TypeOK
  <2>a. \A m \in Machines : m.phase \in Phases
    BY DEF Machines
  <2>b. "Error" \in Phases
    BY DEF Phases, FailurePhases
  <2>1. ASSUME NEW id \in RequestIds, Request(id)
        PROVE  TypeOK'
    <3>1. ASSUME Accept(id), machine' \in Machines,
                 vault' \in [Handles -> VaultStates],
                 tunnel' \in Handles \cup {NoTunnel},
                 NEW command \in Commands, NEW code \in ReplyCodes,
                 Answer(command, code) \/ Refuse(command, code)
          PROVE  TypeOK'
      <4>1. reply' \in Replies
        BY <3>1, <2>a, <2>b DEF Answer, Refuse, Replies
      <4>2. QED
        BY <3>1, <4>1, RememberType DEF Accept
    <3>2. CASE \E command \in Commands \ {"None"} : RejectDuplicate(id, command)
      BY <3>2, <2>b DEF RejectDuplicate, Refuse, coreVars, Replies, ReplyCodes
    <3>3. CASE Diagnostics(id)
      BY <3>3, <3>1 DEF Diagnostics, Commands, ReplyCodes
    <3>4. CASE \E code \in {"OK"} \cup FailureCodes : Statistics(id, code)
      <4> PICK code \in {"OK"} \cup FailureCodes : Statistics(id, code)
        BY <3>4
      <4>1. code \in ReplyCodes /\ "Statistics" \in Commands
        BY DEF ReplyCodes, Commands
      <4> QED
        BY <4>1, <3>1 DEF Statistics
    <3>5. CASE StatusUnasked(id) \/ StatusTunnelUp(id) \/ StatusTunnelStopped(id)
      <4>1. {"OK", "TUNNEL_STOPPED"} \subseteq ReplyCodes /\ "Status" \in Commands
        BY DEF ReplyCodes, Commands
      <4>2. Idle \in Machines
        BY DEF Machines, Idle, Phases
      <4> QED
        BY <3>5, <4>1, <4>2, <3>1
           DEF StatusUnasked, StatusTunnelUp, StatusTunnelStopped
    <3>6. ASSUME NEW f \in BackendFailures, StatusFails(id, f)
          PROVE  TypeOK'
      <4>1. FailureCode[f] \in ReplyCodes /\ "Status" \in Commands
        BY FailureValues, CodesAreReplyCodes DEF Commands
      <4>2. Fail(machine, f) \in Machines
        <5>1. FailureCode[f] \in FailureCodes /\ FailurePhase(f) \in Phases
          BY FailureValues DEF Phases
        <5> QED
          BY <5>1 DEF Machines, Fail
      <4> QED
        BY <3>6, <4>1, <4>2, <3>1 DEF StatusFails
    <3>7. CASE ConnectBusy(id) \/ DisconnectBusy(id) \/ ImportFails(id)
      <4>1. {"BUSY", "PROFILE_STORE_UNAVAILABLE"} \subseteq ReplyCodes
        BY DEF ReplyCodes, StoreErrors
      <4>2. {"Connect", "Disconnect", "Import"} \subseteq Commands
        BY DEF Commands
      <4> QED
        BY <3>7, <4>1, <4>2, <3>1 DEF ConnectBusy, DisconnectBusy, ImportFails
    <3>8. ASSUME NEW h \in Handles, NEW protocol \in Protocols,
                 \/ \E e \in StoreErrors : ConnectLoadFails(id, h, protocol, e)
                 \/ ConnectSucceeds(id, h, protocol)
                 \/ \E f \in BackendFailures : ConnectFails(id, h, protocol, f)
          PROVE  TypeOK'
      <4>1. "CONNECTED" \in ReplyCodes /\ "Connect" \in Commands
        BY DEF ReplyCodes, Commands
      <4>2. CASE \E e \in StoreErrors : ConnectLoadFails(id, h, protocol, e)
        <5> PICK e \in StoreErrors : ConnectLoadFails(id, h, protocol, e)
          BY <4>2
        <5>1. "Internal" \in BackendFailures
          BY DEF BackendFailures
        <5>2. MarkValidated(BeginConnect(h)) \in Machines
          BY <5>1, ConnectFields
        <5> QED
          BY <4>1, <5>2, <3>1, CodesAreReplyCodes DEF ConnectLoadFails, ConnectingTo
      <4>3. CASE ConnectSucceeds(id, h, protocol)
        <5>1. "Internal" \in BackendFailures
          BY DEF BackendFailures
        <5>2. MarkConnected(MarkValidated(BeginConnect(h))) \in Machines
          BY <5>1, ConnectFields
        <5> QED
          BY <4>1, <4>3, <5>2, <3>1 DEF ConnectSucceeds, ConnectingTo
      <4>4. ASSUME NEW f \in BackendFailures, ConnectFails(id, h, protocol, f)
            PROVE  TypeOK'
        <5>1. FailureCode[f] \in ReplyCodes
          BY FailureValues, CodesAreReplyCodes
        <5>2. Fail(MarkValidated(BeginConnect(h)), f) \in Machines
          BY ConnectFields
        <5> QED
          BY <4>1, <4>4, <5>1, <5>2, <3>1 DEF ConnectFails, ConnectingTo, NoTunnel
      <4> QED
        BY <3>8, <4>2, <4>3, <4>4
    <3>9. CASE DisconnectSucceeds(id) \/ DisconnectFails(id)
      <4>1. /\ {"DISCONNECTED", "PROFILE_STORE_UNAVAILABLE"} \subseteq ReplyCodes
            /\ "Disconnect" \in Commands
        BY DEF ReplyCodes, StoreErrors, Commands
      <4>2. Idle \in Machines /\ BeginDisconnect(machine) \in Machines
        BY DEF Machines, Idle, BeginDisconnect, Phases, TransientPhases
      <4> QED
        BY <3>9, <4>1, <4>2, <3>1 DEF DisconnectSucceeds, DisconnectFails, NoTunnel
    <3>10. ASSUME NEW h \in Handles,
                  \/ \E protocol \in Protocols : Import(id, h, protocol)
                  \/ Delete(id, h)
                  \/ \E e \in StoreErrors : DeleteFails(id, h, e)
           PROVE  TypeOK'
      <4>1. /\ {"PROFILE_STORED", "PROFILE_DELETED"} \subseteq ReplyCodes
            /\ {"Import", "Delete"} \subseteq Commands
        BY DEF ReplyCodes, Commands
      <4>2. CASE \E protocol \in Protocols : Import(id, h, protocol)
        BY <4>2, <4>1, <3>1 DEF Import, VaultStates
      <4>3. CASE Delete(id, h)
        BY <4>3, <4>1, <3>1 DEF Delete, VaultStates
      <4>4. CASE \E e \in StoreErrors : DeleteFails(id, h, e)
        BY <4>4, <4>1, <3>1, CodesAreReplyCodes DEF DeleteFails
      <4> QED
        BY <3>10, <4>2, <4>3, <4>4
    <3> QED
      BY <2>1, <3>2, <3>3, <3>4, <3>5, <3>6, <3>7, <3>8, <3>9, <3>10 DEF Request
  <2>2. CASE RejectFrame
    BY <2>2, <2>b DEF RejectFrame, Refuse, coreVars, Replies, ReplyCodes,
       StoreErrors, Commands
  <2>3. CASE TunnelStops
    BY <2>3 DEF TunnelStops, coreVars
  <2>4. CASE ServiceDies
    BY <2>4 DEF ServiceDies, coreVars
  <2>5. CASE ServiceStarts
    BY <2>5, WindowAssumption DEF ServiceStarts, Machines, Idle, Phases, Never
  <2>6. CASE UNCHANGED vars
    BY <2>6 DEF vars
  <2> QED
    BY <2>1, <2>2, <2>3, <2>4, <2>5, <2>6 DEF Next
<1>3. QED
  BY <1>1, <1>2, PTL DEF Spec

-----------------------------------------------------------------------------
(* What the reported state promises *)

\* Every step does one of six things to the machine and the tunnel.
Kept == machine' = machine /\ tunnel' \in {tunnel, NoTunnel}

Cleared == machine' = Idle /\ tunnel' = NoTunnel

Stranded ==
  \/ \E h \in Handles :
       machine'.phase = "Connecting" /\ machine'.profile = h /\ machine'.error = NoError
  \/ /\ machine.phase \in {"Connected", "Reconnecting"}
     /\ machine'.phase = "Disconnecting"
     /\ machine'.profile = machine.profile /\ machine'.error = machine.error

Connected ==
  \E h \in Handles : /\ machine'.phase = "Connected" /\ machine'.profile = h
                     /\ machine'.error = NoError
                     /\ tunnel' = h

Failed ==
  \E f \in BackendFailures :
    /\ machine'.phase = FailurePhase(f) /\ machine'.error = FailureCode[f]
    /\ \/ machine'.profile \in Handles
       \/ /\ machine.phase \in {"Connected", "Reconnecting"}
          /\ machine'.profile = machine.profile

Died == serving' = FALSE /\ machine' = machine

\* Every step does one of the six.
LEMMA StepEffects ==
  ASSUME TypeOK, [Next]_vars
  PROVE  \/ serving' = serving /\ (Kept \/ Stranded \/ Connected \/ Failed)
         \/ Cleared
         \/ Died
<1>1. ASSUME NEW id \in RequestIds, Request(id)
      PROVE  \/ serving' = serving /\ (Kept \/ Stranded \/ Connected \/ Failed)
             \/ Cleared
  <2>1. CASE \E command \in Commands \ {"None"} : RejectDuplicate(id, command)
    BY <2>1 DEF RejectDuplicate, coreVars, Kept
  <2>2. CASE \/ Diagnostics(id) \/ StatusUnasked(id) \/ StatusTunnelUp(id)
             \/ ConnectBusy(id) \/ DisconnectBusy(id) \/ ImportFails(id)
             \/ \E code \in {"OK"} \cup FailureCodes : Statistics(id, code)
    BY <2>2 DEF Diagnostics, StatusUnasked, StatusTunnelUp, ConnectBusy,
       DisconnectBusy, ImportFails, Statistics, Accept, Kept
  <2>3. CASE StatusTunnelStopped(id) \/ DisconnectSucceeds(id)
    BY <2>3 DEF StatusTunnelStopped, DisconnectSucceeds, Cleared
  <2>4. ASSUME NEW f \in BackendFailures, StatusFails(id, f)
        PROVE  serving' = serving /\ Failed
    <3>1. machine' = Fail(machine, f) /\ serving' = serving /\ machine \in Machines
      BY <2>4 DEF StatusFails, Accept, TypeOK
    <3>2. /\ machine'.phase = FailurePhase(f) /\ machine'.error = FailureCode[f]
          /\ machine'.profile = machine.profile
      BY <3>1, MachineFields
    <3> QED
      BY <2>4, <3>1, <3>2 DEF StatusFails, CanBeginDisconnect, Failed
  <2>5. ASSUME NEW h \in Handles, NEW protocol \in Protocols,
               \/ \E e \in StoreErrors : ConnectLoadFails(id, h, protocol, e)
               \/ ConnectSucceeds(id, h, protocol)
        PROVE  serving' = serving /\ (Stranded \/ Connected)
    <3>1. "Internal" \in BackendFailures
      BY DEF BackendFailures
    <3> QED
      BY <2>5, <3>1, ConnectFields
         DEF ConnectLoadFails, ConnectSucceeds, ConnectingTo, Accept, Stranded, Connected
  <2>6. ASSUME NEW h \in Handles, NEW protocol \in Protocols,
               NEW f \in BackendFailures, ConnectFails(id, h, protocol, f)
        PROVE  serving' = serving /\ Failed
    BY <2>6, ConnectFields DEF ConnectFails, ConnectingTo, Accept, Failed
  <2>7. CASE DisconnectFails(id)
    <3>1. machine \in Machines
      BY DEF TypeOK
    <3> QED
      BY <2>7, <3>1 DEF DisconnectFails, Accept, Kept, Stranded, Machines,
         CanBeginDisconnect, BeginDisconnect
  <2>8. ASSUME NEW h \in Handles,
               \/ \E protocol \in Protocols : Import(id, h, protocol)
               \/ Delete(id, h)
               \/ \E e \in StoreErrors : DeleteFails(id, h, e)
        PROVE  serving' = serving /\ Kept
    BY <2>8 DEF Import, Delete, DeleteFails, Accept, Kept
  <2> QED
    BY <1>1, <2>1, <2>2, <2>3, <2>4, <2>5, <2>6, <2>7, <2>8 DEF Request
<1>2. CASE RejectFrame \/ TunnelStops \/ UNCHANGED vars
  BY <1>2 DEF RejectFrame, TunnelStops, vars, coreVars, Kept
<1>3. CASE ServiceDies
  BY <1>3 DEF ServiceDies, coreVars, Died
<1>4. CASE ServiceStarts
  BY <1>4 DEF ServiceStarts, Cleared
<1> QED
  BY <1>1, <1>2, <1>3, <1>4 DEF Next

\* The three promises hold together; none needs more than the types.
Promises ==
  /\ DisconnectedMeansNoTunnel
  /\ ConnectedIsTheReportedProfile
  /\ StateEventCoherent

\* In every reachable state the reported phase, profile and error agree with
\* each other and with the tunnel that runs.
THEOREM PromisesHold == Spec => []Promises
<1>1. Init => Promises
  BY DEF Init, Promises, DisconnectedMeansNoTunnel, ConnectedIsTheReportedProfile,
     StateEventCoherent, Idle, IsFailure, FailurePhases, NoHandle, NoError, NoTunnel
<1>2. TypeOK /\ Promises /\ [Next]_vars => Promises'
  <2> SUFFICES ASSUME TypeOK, Promises, [Next]_vars PROVE Promises'
    OBVIOUS
  <2> USE DEF Promises, DisconnectedMeansNoTunnel, ConnectedIsTheReportedProfile,
              StateEventCoherent, IsFailure, FailurePhases
  <2>1. NoTunnel = NoHandle
    BY DEF NoTunnel
  <2>2. CASE serving' = serving /\ Kept
    BY <2>2 DEF Kept
  <2>3. CASE Cleared
    BY <2>3, <2>1 DEF Cleared, Idle
  <2>4. CASE Stranded
    BY <2>4, HandlesAssumption DEF Stranded
  <2>5. CASE Connected
    BY <2>5, HandlesAssumption DEF Connected
  <2>6. CASE Failed
    <3> PICK f \in BackendFailures :
          /\ machine'.phase = FailurePhase(f) /\ machine'.error = FailureCode[f]
          /\ \/ machine'.profile \in Handles
             \/ /\ machine.phase \in {"Connected", "Reconnecting"}
                /\ machine'.profile = machine.profile
      BY <2>6 DEF Failed
    <3> QED
      BY FailureValues, HandlesAssumption
  <2>7. CASE Died
    BY <2>7 DEF Died
  <2> QED
    BY StepEffects, <2>2, <2>3, <2>4, <2>5, <2>6, <2>7
<1>3. QED
  BY <1>1, <1>2, TypeCorrect, PTL DEF Spec

\* Disconnected is never reported while a tunnel runs.
THEOREM DisconnectedIsSafe == Spec => []DisconnectedMeansNoTunnel
<1>1. Promises => DisconnectedMeansNoTunnel
  BY DEF Promises
<1> QED
  BY <1>1, PromisesHold, PTL

\* While Connected is reported, the traffic goes through the reported profile.
THEOREM ConnectedIsTruthful == Spec => []ConnectedIsTheReportedProfile
<1>1. Promises => ConnectedIsTheReportedProfile
  BY DEF Promises
<1> QED
  BY <1>1, PromisesHold, PTL

\* Phase, profile and error code of the reported state always agree.
THEOREM StateEventAgrees == Spec => []StateEventCoherent
<1>1. Promises => StateEventCoherent
  BY DEF Promises
<1> QED
  BY <1>1, PromisesHold, PTL

-----------------------------------------------------------------------------
(* The request-id window *)

\* Remembering an unknown id keeps the deque, the set and the ages in step: this
\* is where the oldest id must leave both the deque and the set.
LEMMA RememberCoherent ==
  ASSUME TypeOK, RecentIdsCoherent, NEW id \in RequestIds,
         id \notin recentIdSet, Remember(id)
  PROVE  RecentIdsCoherent'
<1> DEFINE n == Len(recentIds)
           full == n = Window
           kept == IF full THEN Tail(recentIds) ELSE recentIds
<1>. PICK shift \in {0, 1} : (full => shift = 1) /\ (~full => shift = 0)
  OBVIOUS
<1>0. shift \in Nat
  OBVIOUS
<1>1. /\ recentIds \in Seq(RequestIds) /\ n \in Nat /\ n <= Window /\ Window \in Nat
      /\ Window > 0 /\ age \in [RequestIds -> 0..Never] /\ Never = Window + 1
      /\ DOMAIN recentIds = 1..n
      /\ \A i \in 1..n : recentIds[i] \in RequestIds
  BY WindowAssumption DEF TypeOK, RecentIdsCoherent, Never
<1>2. /\ recentIdSet = {recentIds[i] : i \in 1..n}
      /\ \A i \in 1..n : age[recentIds[i]] = n - i
      /\ \A x \in RequestIds : age[x] < Window => x \in recentIdSet
  BY <1>1 DEF RecentIdsCoherent, Range
<1>3. \A i \in 1..n : recentIds[i] # id
  BY <1>2
<1>4. /\ kept \in Seq(RequestIds) /\ Len(kept) = n - shift
      /\ \A i \in 1..(n - shift) : kept[i] = recentIds[i + shift]
  <2>1. CASE full
    <3>1. recentIds # <<>>
      BY <2>1, <1>1
    <3> QED
      BY <3>1, <2>1, <1>1, HeadTailProperties
  <2>2. CASE ~full
    <3>1. kept = recentIds /\ shift = 0
      BY <2>2
    <3> HIDE DEF kept, n
    <3>2. n - shift = n /\ \A i \in 1..(n - shift) : i + shift = i
      <4>1. n \in Nat
        BY <1>1
      <4> QED
        BY <3>1, <4>1
    <3> QED
      BY <3>1, <3>2, <1>1
  <2> QED
    BY <2>1, <2>2
<1>5. /\ Len(recentIds') = n - shift + 1
      /\ DOMAIN recentIds' = 1..(n - shift + 1)
      /\ \A i \in 1..(n - shift) : recentIds'[i] = recentIds[i + shift]
      /\ recentIds'[n - shift + 1] = id
  <2>1. recentIds' = Append(kept, id)
    BY DEF Remember
  <2> HIDE DEF kept, n
  <2>2. /\ Len(Append(kept, id)) = Len(kept) + 1
        /\ DOMAIN Append(kept, id) = 1..(Len(kept) + 1)
        /\ \A i \in 1..Len(kept) : Append(kept, id)[i] = kept[i]
        /\ Append(kept, id)[Len(kept) + 1] = id
    BY <1>4
  <2>3. \A i \in 1..(n - shift) : recentIds'[i] = recentIds[i + shift]
    BY <2>1, <2>2, <1>4
  <2> QED
    BY <2>1, <2>2, <2>3, <1>4
<1> HIDE DEF n
<1>6. /\ age'[id] = 0
      /\ \A x \in RequestIds \ {id} :
           age'[x] = IF age[x] < Window THEN age[x] + 1 ELSE age[x]
  BY <1>1 DEF Remember
<1>7. Len(recentIds') <= Window
  BY <1>1, <1>5
<1>8. \A i \in DOMAIN recentIds' : age'[recentIds'[i]] = Len(recentIds') - i
  <2> SUFFICES ASSUME NEW i \in DOMAIN recentIds'
               PROVE  age'[recentIds'[i]] = Len(recentIds') - i
    OBVIOUS
  <2>0. i \in 1..(n - shift + 1)
    BY <1>5
  <2>1. CASE i = n - shift + 1
    <3>1. recentIds'[i] = id /\ Len(recentIds') = i
      BY <2>1, <1>5
    <3> QED
      BY <3>1, <2>0, <1>1, <1>6
  <2>2. CASE i \in 1..(n - shift)
    <3>1. /\ recentIds'[i] = recentIds[i + shift] /\ i + shift \in 1..n
          /\ recentIds[i + shift] \in RequestIds \ {id}
      <4>1. i + shift \in 1..n
        BY <2>2, <1>0, <1>1
      <4> QED
        BY <2>2, <4>1, <1>1, <1>3, <1>5
    <3>2. age[recentIds[i + shift]] = n - (i + shift) /\ n - (i + shift) < Window
      BY <3>1, <1>1, <1>2
    <3> QED
      <4>1. age'[recentIds'[i]] = n - (i + shift) + 1
        BY <3>1, <3>2, <1>1, <1>6
      <4>2. n - (i + shift) + 1 = Len(recentIds') - i
        BY <2>2, <1>0, <1>1, <1>5
      <4> QED
        BY <4>1, <4>2
  <2> QED
    BY <2>0, <2>1, <2>2, <1>1
<1>9. recentIdSet' = Range(recentIds')
  <2>1. Range(recentIds') = {recentIds[i] : i \in (1 + shift)..n} \cup {id}
    <3>1. ASSUME NEW x \in Range(recentIds')
          PROVE  x \in {recentIds[i] : i \in (1 + shift)..n} \cup {id}
      <4> PICK i \in 1..(n - shift + 1) : x = recentIds'[i]
        BY <3>1, <1>5 DEF Range
      <4>1. CASE i = n - shift + 1
        BY <4>1, <1>5
      <4>2. CASE i \in 1..(n - shift)
        <5>1. i + shift \in (1 + shift)..n
          BY <4>2, <1>1
        <5> QED
          BY <4>2, <5>1, <1>5
      <4> QED
        BY <4>1, <4>2, <1>1
    <3>2. ASSUME NEW i \in (1 + shift)..n
          PROVE  recentIds[i] \in Range(recentIds')
      <4>1. i - shift \in 1..(n - shift) /\ i - shift \in DOMAIN recentIds'
        BY <1>1, <1>5
      <4>2. recentIds'[i - shift] = recentIds[i]
        BY <4>1, <1>1, <1>5
      <4> QED
        BY <4>1, <4>2 DEF Range
    <3>3. id \in Range(recentIds')
      <4>1. n - shift + 1 \in DOMAIN recentIds'
        BY <1>1, <1>5
      <4> QED
        BY <4>1, <1>5 DEF Range
    <3> QED
      BY <3>1, <3>2, <3>3
  <2>2. CASE full
    <3>1. Head(recentIds) = recentIds[1] /\ 1 \in 1..n
      BY <2>2, <1>1
    <3>2. \A i \in 2..n : recentIds[i] # recentIds[1]
      BY <3>1, <1>1, <1>2
    <3>3. recentIdSet \ {recentIds[1]} = {recentIds[i] : i \in 2..n}
      BY <3>1, <3>2, <1>1, <1>2
    <3> QED
      BY <2>1, <2>2, <3>1, <3>3 DEF n, Remember
  <2>3. CASE ~full
    <3>1. recentIdSet' = recentIdSet \cup {id} /\ shift = 0
      BY <2>3 DEF n, Remember
    <3>2. (1 + shift)..n = 1..n
      BY <3>1
    <3> QED
      BY <2>1, <3>1, <3>2, <1>2
  <2> QED
    BY <2>2, <2>3
<1>10. \A x \in RequestIds : age'[x] < Window => x \in recentIdSet'
  <2> SUFFICES ASSUME NEW x \in RequestIds \ {id}, age'[x] < Window
               PROVE  x \in recentIdSet'
    BY DEF Remember
  <2>1. age[x] + 1 < Window /\ x \in recentIdSet
    BY <1>1, <1>2, <1>6
  <2>2. CASE full
    <3>1. 1 \in 1..n /\ Head(recentIds) = recentIds[1] /\ age[recentIds[1]] = Window - 1
      BY <2>2, <1>1, <1>2
    <3> QED
      BY <2>1, <2>2, <3>1, <1>1 DEF n, Remember
  <2>3. CASE ~full
    BY <2>1, <2>3 DEF n, Remember
  <2> QED
    BY <2>2, <2>3
<1> QED
  BY <1>7, <1>8, <1>9, <1>10 DEF RecentIdsCoherent

\* Only an accepted request and a restart touch the window.
LEMMA WindowSteps ==
  ASSUME [Next]_vars
  PROVE  \/ \E id \in RequestIds : Accept(id)
         \/ UNCHANGED <<recentIds, recentIdSet, age>>
         \/ ServiceStarts
<1>1. ASSUME NEW id \in RequestIds, Request(id)
      PROVE  Accept(id) \/ UNCHANGED <<recentIds, recentIdSet, age>>
  BY <1>1 DEF Request, Diagnostics, Statistics, StatusUnasked, StatusTunnelUp,
     StatusTunnelStopped, StatusFails, ConnectBusy, ConnectLoadFails,
     ConnectSucceeds, ConnectFails, ConnectingTo, Import, DisconnectBusy,
     DisconnectSucceeds, DisconnectFails, ImportFails, Delete, DeleteFails,
     RejectDuplicate, coreVars
<1> QED
  BY <1>1 DEF Next, RejectFrame, TunnelStops, ServiceDies, vars, coreVars

\* The deque, the set and the ages of the ids agree in every reachable state.
THEOREM RecentIdsAgree == Spec => []RecentIdsCoherent
<1>1. Init => RecentIdsCoherent
  BY WindowAssumption DEF Init, RecentIdsCoherent, Range, Never
<1>2. TypeOK /\ RecentIdsCoherent /\ [Next]_vars => RecentIdsCoherent'
  <2> SUFFICES ASSUME TypeOK, RecentIdsCoherent, [Next]_vars
               PROVE  RecentIdsCoherent'
    OBVIOUS
  <2>1. ASSUME NEW id \in RequestIds, Accept(id)
        PROVE  RecentIdsCoherent'
    BY <2>1, RememberCoherent DEF Accept
  <2>2. CASE UNCHANGED <<recentIds, recentIdSet, age>>
    BY <2>2 DEF RecentIdsCoherent
  <2>3. CASE ServiceStarts
    BY <2>3, WindowAssumption DEF ServiceStarts, RecentIdsCoherent, Range, Never
  <2> QED
    BY <2>1, <2>2, <2>3, WindowSteps
<1> QED
  BY <1>1, <1>2, TypeCorrect, PTL DEF Spec

\* No id is accepted twice within a window of accepted requests.
THEOREM NoReplay == Spec => NoReplayWithinWindow
<1>1. TypeOK /\ RecentIdsCoherent /\ [Next]_vars
        => [\A id \in RequestIds :
              serving /\ serving' /\ age[id] < Window => age'[id] >= age[id]]_vars
  <2> SUFFICES ASSUME TypeOK, RecentIdsCoherent, [Next]_vars,
                      NEW id \in RequestIds, serving, serving', age[id] < Window
               PROVE  age'[id] >= age[id]
    OBVIOUS
  <2>0. age[id] \in 0..Never /\ Window \in Nat /\ Never = Window + 1
    BY WindowAssumption DEF TypeOK, Never
  <2>1. ASSUME NEW new \in RequestIds, Accept(new)
        PROVE  age'[id] >= age[id]
    <3>1. id # new
      BY <2>1 DEF Accept, RecentIdsCoherent
    <3>2. age'[id] = age[id] + 1
      BY <2>1, <3>1 DEF Accept, Remember
    <3> QED
      BY <3>2, <2>0
  <2>2. CASE UNCHANGED <<recentIds, recentIdSet, age>>
    BY <2>2, <2>0
  <2>3. ~ServiceStarts
    BY DEF ServiceStarts
  <2> QED
    BY <2>1, <2>2, <2>3, WindowSteps
<1> QED
  BY <1>1, TypeCorrect, RecentIdsAgree, PTL DEF Spec, NoReplayWithinWindow

-----------------------------------------------------------------------------
(* Failures *)

\* A connect asked of a machine in a failure phase goes through reset_failure,
\* and a disconnect stops the engines again: neither is refused as BUSY.
THEOREM FailureCanBeLeft == Spec => FailureIsNeverBusy
<1>1. [Next]_vars => [Answered /\ IsFailure(machine) => reply'.code # "BUSY"]_vars
  <2> SUFFICES ASSUME [Next]_vars, Answered, IsFailure(machine)
               PROVE  reply'.code # "BUSY"
    OBVIOUS
  <2>1. ResetFailure(machine) = Idle /\ CanBeginConnect(Idle)
    BY DEF ResetFailure, CanBeginConnect, Idle
  <2>2. "BUSY" \notin {"OK"} \cup FailureCodes \cup StoreErrors
    BY FailuresApart DEF FailureCodes, StoreErrors
  <2>3. PICK id \in RequestIds : Request(id) /\ age' # age
    BY DEF Answered, Next, RejectFrame, TunnelStops, ServiceDies, ServiceStarts, vars
  <2>4. ~(\E command \in Commands \ {"None"} : RejectDuplicate(id, command))
    BY <2>3 DEF RejectDuplicate
  <2>5. CASE ConnectBusy(id) \/ DisconnectBusy(id)
    BY <2>1, <2>5 DEF ConnectBusy, DisconnectBusy
  <2>6. CASE \/ Diagnostics(id) \/ StatusUnasked(id) \/ StatusTunnelUp(id)
             \/ StatusTunnelStopped(id) \/ DisconnectSucceeds(id)
    BY <2>6 DEF Diagnostics, StatusUnasked, StatusTunnelUp, StatusTunnelStopped,
       DisconnectSucceeds, Answer
  <2>7. CASE DisconnectFails(id) \/ ImportFails(id)
    BY <2>7 DEF DisconnectFails, ImportFails, Refuse
  <2>8. ASSUME NEW code \in {"OK"} \cup FailureCodes, Statistics(id, code)
        PROVE  reply'.code # "BUSY"
    BY <2>2, <2>8 DEF Statistics, Answer
  <2>9. ASSUME NEW f \in BackendFailures,
               \/ StatusFails(id, f)
               \/ \E h \in Handles, protocol \in Protocols : ConnectFails(id, h, protocol, f)
        PROVE  reply'.code # "BUSY"
    BY <2>9, FailuresApart DEF StatusFails, ConnectFails, Answer
  <2>10. ASSUME NEW h \in Handles, NEW protocol \in Protocols,
                ConnectSucceeds(id, h, protocol) \/ Import(id, h, protocol)
         PROVE  reply'.code # "BUSY"
    BY <2>10 DEF ConnectSucceeds, Import, Answer
  <2>11. ASSUME NEW h \in Handles, NEW protocol \in Protocols, NEW error \in StoreErrors,
                ConnectLoadFails(id, h, protocol, error)
         PROVE  reply'.code # "BUSY"
    BY <2>2, <2>11 DEF ConnectLoadFails, Refuse
  <2>12. ASSUME NEW h \in Handles, Delete(id, h)
         PROVE  reply'.code # "BUSY"
    BY <2>12 DEF Delete, Answer
  <2>13. ASSUME NEW h \in Handles, NEW error \in StoreErrors, DeleteFails(id, h, error)
         PROVE  reply'.code # "BUSY"
    BY <2>2, <2>13 DEF DeleteFails, Refuse
  <2> QED
    BY <2>3, <2>4, <2>5, <2>6, <2>7, <2>8, <2>9, <2>10, <2>11, <2>12,
       <2>13 DEF Request
<1> QED
  BY <1>1, PTL DEF Spec, FailureIsNeverBusy

\* An accepted id was not one of the last Window ones, so its age changes.
LEMMA AcceptedIsAnswered ==
  ASSUME TypeOK, RecentIdsCoherent, NEW id \in RequestIds, Accept(id)
  PROVE  Answered
<1>1. ~(age[id] < Window) /\ age'[id] = 0 /\ Window > 0
  BY WindowAssumption DEF Accept, Remember, RecentIdsCoherent
<1> QED
  BY <1>1 DEF Accept, Answered

\* Only a load that failed or a disconnect of the engines that failed leaves the
\* machine in the phase its method had reached.
THEOREM StrandedByFailure == Spec => StrandedOnlyByFailedCall
<1>1. TypeOK /\ RecentIdsCoherent /\ [Next]_vars =>
        [machine'.phase \in TransientPhases /\ machine' # machine =>
           Answered /\ reply'.code \in StoreErrors]_vars
  <2> SUFFICES ASSUME TypeOK, RecentIdsCoherent, [Next]_vars,
                      machine'.phase \in TransientPhases, machine' # machine
               PROVE  Answered /\ reply'.code \in StoreErrors
    OBVIOUS
  <2>1. Idle.phase \notin TransientPhases /\ "Connected" \notin TransientPhases
    BY DEF Idle, TransientPhases
  <2>2. PICK id \in RequestIds : Request(id)
    BY <2>1 DEF Next, RejectFrame, TunnelStops, ServiceDies, ServiceStarts, vars, coreVars
  <2>3. machine' # Idle
    BY <2>1
  <2>4. ASSUME NEW h \in Handles, NEW protocol \in Protocols
        PROVE  ~ConnectSucceeds(id, h, protocol)
    <3>1. "Internal" \in BackendFailures
      BY DEF BackendFailures
    <3> QED
      BY <2>1, <3>1, ConnectFields DEF ConnectSucceeds
  <2>5. ASSUME NEW f \in BackendFailures
        PROVE  /\ ~StatusFails(id, f)
               /\ \A h \in Handles, protocol \in Protocols : ~ConnectFails(id, h, protocol, f)
    <3>1. ASSUME StatusFails(id, f) PROVE FALSE
      BY <3>1, MachineFields, FailuresApart DEF StatusFails, TypeOK
    <3>2. ASSUME NEW h \in Handles, NEW protocol \in Protocols,
                 ConnectFails(id, h, protocol, f)
          PROVE  FALSE
      BY <3>2, ConnectFields, FailuresApart DEF ConnectFails
    <3> QED
      BY <3>1, <3>2
  <2>6. \/ DisconnectFails(id)
        \/ \E h \in Handles, protocol \in Protocols, error \in StoreErrors :
             ConnectLoadFails(id, h, protocol, error)
    BY <2>2, <2>3, <2>4, <2>5 DEF Request, Diagnostics, Statistics, StatusUnasked,
       StatusTunnelUp, StatusTunnelStopped, ConnectBusy, Import, DisconnectBusy,
       DisconnectSucceeds, ImportFails, Delete, DeleteFails, RejectDuplicate, coreVars
  <2>7. Accept(id)
    BY <2>6 DEF DisconnectFails, ConnectLoadFails, ConnectingTo
  <2>8. "PROFILE_STORE_UNAVAILABLE" \in StoreErrors
    BY DEF StoreErrors
  <2>9. reply'.code \in StoreErrors
    BY <2>6, <2>8 DEF DisconnectFails, ConnectLoadFails, Refuse
  <2> QED
    BY <2>7, <2>9, AcceptedIsAnswered
<1> QED
  BY <1>1, TypeCorrect, RecentIdsAgree, PTL DEF Spec, StrandedOnlyByFailedCall

\* Neither begin_connect nor begin_disconnect is possible in a transient phase,
\* so no request brings the machine out of it.
THEOREM StrandedStays == Spec => StrandedUntilRestart
<1>1. [Next]_vars => [serving /\ serving' /\ machine.phase \in TransientPhases =>
                        machine' = machine /\ tunnel' \in {tunnel, NoTunnel}]_vars
  <2> SUFFICES ASSUME [Next]_vars, serving, serving', machine.phase \in TransientPhases
               PROVE  machine' = machine /\ tunnel' \in {tunnel, NoTunnel}
    OBVIOUS
  <2>1. /\ ~CanBeginConnect(ResetFailure(machine)) /\ ~CanBeginDisconnect(machine)
        /\ ~IsFailure(machine)
    BY DEF CanBeginConnect, ResetFailure, CanBeginDisconnect, IsFailure, FailurePhases,
       TransientPhases
  <2>2. ASSUME NEW id \in RequestIds, Request(id)
        PROVE  machine' = machine /\ tunnel' \in {tunnel, NoTunnel}
    BY <2>1, <2>2 DEF Request, Diagnostics, Statistics, StatusUnasked, StatusTunnelUp,
       StatusTunnelStopped, StatusFails, ConnectBusy, ConnectLoadFails, ConnectSucceeds,
       ConnectFails, ConnectingTo, Import, DisconnectBusy, DisconnectSucceeds,
       DisconnectFails, ImportFails, Delete, DeleteFails, RejectDuplicate, coreVars
  <2> QED
    BY <2>2 DEF Next, RejectFrame, TunnelStops, ServiceDies, ServiceStarts, vars, coreVars
<1> QED
  BY <1>1, PTL DEF Spec, StrandedUntilRestart
=============================================================================
