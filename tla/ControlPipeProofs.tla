------------------------- MODULE ControlPipeProofs -------------------------
(***************************************************************************)
(* The outcome of an exchange tells whether its command was executed, for  *)
(* every set of clients.  PipeInv is inductive; its parts about the client *)
(* being served say why a count is right already when the answer is given. *)
(***************************************************************************)
EXTENDS ControlPipe, TLAPS

\* What the service does with nobody connected leaves the exchanges alone.
LEMMA ServiceAlone ==
  ASSUME PipeInv, UNCHANGED <<clientVars, client>>,
         service' \in ServiceStates, stop' \in BOOLEAN,
         {service, service'} \cap {"checking", "reading", "processing", "writing"} = {}
  PROVE  PipeInv'
<1>1. client = Nobody
  BY DEF PipeInv, ConnectedWhileServing
<1>2. TypeOK'
  BY DEF PipeInv, TypeOK, clientVars
<1>3. OutcomeTellsTheTruth' /\ CountFollowsExchange'
  BY DEF PipeInv, OutcomeTellsTheTruth, CountFollowsExchange, clientVars
<1>4. ConnectedWhileServing' /\ ServiceKnowsItsClient'
  BY <1>1 DEF ConnectedWhileServing, ServiceKnowsItsClient
<1>5. QED BY <1>2, <1>3, <1>4 DEF PipeInv

\* Whatever ends a connection on the service's side leaves the exchanges alone.
LEMMA ClientDropped ==
  ASSUME PipeInv, UNCHANGED clientVars, client' = Nobody,
         service' \in ServiceStates, stop' \in BOOLEAN,
         service' \notin {"checking", "reading", "processing", "writing"}
  PROVE  PipeInv'
<1>1. TypeOK'
  BY DEF PipeInv, TypeOK, clientVars
<1>2. OutcomeTellsTheTruth' /\ CountFollowsExchange'
  BY DEF PipeInv, OutcomeTellsTheTruth, CountFollowsExchange, clientVars
<1>3. ConnectedWhileServing' /\ ServiceKnowsItsClient'
  BY DEF ConnectedWhileServing, ServiceKnowsItsClient
<1>4. QED BY <1>1, <1>2, <1>3 DEF PipeInv

\* Every step of the service keeps the invariant.
LEMMA ServiceKeepsInv == PipeInv /\ ServiceStep => PipeInv'
<1> SUFFICES ASSUME PipeInv, ServiceStep PROVE PipeInv'
  OBVIOUS
<1>1. CASE Prepare \/ CreateServer \/ ReportStopped
  BY <1>1, ServiceAlone DEF Prepare, CreateServer, ReportStopped, ServiceStates,
     Working, PipeInv, TypeOK
<1>2. CASE StopSeen
  BY <1>2, ClientDropped DEF StopSeen, ServiceStates, PipeInv, TypeOK
<1>3. CASE Authorize
  <2>1. CASE service' # "reading"
    BY <1>3, <2>1, ClientDropped DEF Authorize, ServiceStates, Working, PipeInv,
       TypeOK
  <2>2. CASE service' = "reading"
    <3>1. service = "checking" /\ UNCHANGED <<client, stop, clientVars>>
      BY <1>3, <2>2 DEF Authorize
    <3>2. TypeOK' /\ OutcomeTellsTheTruth' /\ CountFollowsExchange'
      BY <2>2, <3>1 DEF PipeInv, TypeOK, ServiceStates, Working, clientVars,
         OutcomeTellsTheTruth, CountFollowsExchange
    <3>3. ConnectedWhileServing' /\ ServiceKnowsItsClient'
      BY <2>2, <3>1 DEF PipeInv, clientVars, ConnectedWhileServing,
         ServiceKnowsItsClient
    <3>4. QED BY <3>2, <3>3 DEF PipeInv
  <2>3. QED BY <2>1, <2>2
<1>4. CASE ReadFrame
  <2>1. CASE service' = "creating"
    BY <1>4, <2>1, ClientDropped DEF ReadFrame, ServiceStates, Working, PipeInv,
       TypeOK
  <2>2. CASE service' # "creating"
    <3>1. /\ service = "reading" /\ UNCHANGED <<client, stop, clientVars>>
          /\ \/ service' = "writing" /\ exchange[client] = "garbled"
             \/ service' = "processing" /\ exchange[client] = "asked"
      BY <1>4, <2>2 DEF ReadFrame
    <3>2. TypeOK' /\ OutcomeTellsTheTruth' /\ CountFollowsExchange'
      BY <3>1 DEF PipeInv, TypeOK, ServiceStates, Working, clientVars,
         OutcomeTellsTheTruth, CountFollowsExchange
    <3>3. ConnectedWhileServing' /\ ServiceKnowsItsClient'
      BY <3>1 DEF PipeInv, clientVars, ConnectedWhileServing,
         ServiceKnowsItsClient
    <3>4. QED BY <3>2, <3>3 DEF PipeInv
  <2>3. QED BY <2>1, <2>2
<1>5. CASE Process
  <2>1. /\ client \in Clients /\ executed[client] = 0
        /\ exchange[client] \in {"closed", "asked"}
        /\ outcome[client] \in {"timedOut", "none"}
    BY <1>5 DEF Process, PipeInv, TypeOK, ConnectedWhileServing,
       ServiceKnowsItsClient
  <2>2. executed' = [executed EXCEPT ![client] = 1]
    BY <1>5, <2>1 DEF Process, PipeInv, TypeOK
  <2>3. TypeOK'
    BY <1>5, <2>1, <2>2 DEF Process, PipeInv, TypeOK, ServiceStates, Working
  <2>4. OutcomeTellsTheTruth' /\ CountFollowsExchange'
    BY <1>5, <2>1, <2>2 DEF Process, PipeInv, TypeOK, OutcomeTellsTheTruth,
       CountFollowsExchange
  <2>5. ConnectedWhileServing' /\ ServiceKnowsItsClient'
    BY <1>5, <2>1, <2>2 DEF Process, PipeInv, TypeOK, ConnectedWhileServing,
       ServiceKnowsItsClient
  <2>6. QED BY <2>3, <2>4, <2>5 DEF PipeInv
<1>6. CASE WriteResponse
  <2>1. CASE service' = "broken"
    BY <1>6, <2>1, ClientDropped DEF WriteResponse, clientVars, ServiceStates,
       PipeInv, TypeOK
  <2>2. CASE service' # "broken"
    <3>1. /\ client \in Clients /\ client' = Nobody /\ service' = "creating"
          /\ exchange[client] \in {"asked", "garbled"}
          /\ exchange[client] = "asked" => executed[client] = 1
          /\ exchange[client] = "garbled" => executed[client] = 0
          /\ outcome[client] = "none"
      BY <1>6, <2>2 DEF WriteResponse, PipeInv, TypeOK, ConnectedWhileServing,
         ServiceKnowsItsClient, CountFollowsExchange
    <3>2. /\ exchange' = [exchange EXCEPT ![client] =
                            IF exchange[client] = "asked" THEN "answered" ELSE "refused"]
          /\ UNCHANGED <<stop, outcome, executed>>
      BY <1>6, <2>2 DEF WriteResponse
    <3>3. TypeOK'
      BY <3>1, <3>2 DEF PipeInv, TypeOK, ServiceStates, Working, ClientEnds
    <3>4. OutcomeTellsTheTruth' /\ CountFollowsExchange'
      BY <3>1, <3>2 DEF PipeInv, TypeOK, OutcomeTellsTheTruth,
         CountFollowsExchange
    <3>5. ConnectedWhileServing' /\ ServiceKnowsItsClient'
      BY <3>1 DEF ConnectedWhileServing, ServiceKnowsItsClient
    <3>6. QED BY <3>3, <3>4, <3>5 DEF PipeInv
  <2>3. QED BY <2>1, <2>2
<1>7. QED BY <1>1, <1>2, <1>3, <1>4, <1>5, <1>6 DEF ServiceStep

\* Every step of a client keeps the invariant.
LEMMA ClientKeepsInv ==
  ASSUME NEW c \in Clients, PipeInv, ClientStep(c)
  PROVE  PipeInv'
<1>1. CASE Open(c)
  <2>1. TypeOK'
    BY <1>1 DEF Open, PipeInv, TypeOK, ServiceStates, Working, ClientEnds,
       Outcomes, serverVars
  <2>2. OutcomeTellsTheTruth'
    BY <1>1 DEF Open, PipeInv, TypeOK, OutcomeTellsTheTruth, CountFollowsExchange,
       ClientEnds, serverVars
  <2>3. CountFollowsExchange'
    BY <1>1 DEF Open, PipeInv, TypeOK, CountFollowsExchange, ClientEnds,
       serverVars
  <2>4. ConnectedWhileServing'
    BY <1>1, ClientsAssumption DEF Open, PipeInv, ConnectedWhileServing,
       serverVars
  <2>5. ServiceKnowsItsClient'
    BY <1>1, ClientsAssumption DEF Open, PipeInv, TypeOK, ConnectedWhileServing,
       ServiceKnowsItsClient, CountFollowsExchange, ClientEnds, serverVars
  <2>6. QED BY <2>1, <2>2, <2>3, <2>4, <2>5 DEF PipeInv
<1>2. CASE OpenFails(c)
  <2>1. TypeOK'
    BY <1>2 DEF OpenFails, PipeInv, TypeOK, ServiceStates, Working, ClientEnds,
       Outcomes, serverVars
  <2>2. OutcomeTellsTheTruth'
    BY <1>2 DEF OpenFails, PipeInv, TypeOK, OutcomeTellsTheTruth,
       CountFollowsExchange, ClientEnds, serverVars
  <2>3. CountFollowsExchange'
    BY <1>2 DEF OpenFails, PipeInv, TypeOK, CountFollowsExchange, ClientEnds,
       serverVars
  <2>4. ConnectedWhileServing'
    BY <1>2, ClientsAssumption DEF OpenFails, PipeInv, ConnectedWhileServing,
       serverVars
  <2>5. ServiceKnowsItsClient'
    BY <1>2, ClientsAssumption DEF OpenFails, PipeInv, TypeOK,
       ConnectedWhileServing, ServiceKnowsItsClient, CountFollowsExchange,
       ClientEnds, serverVars
  <2>6. QED BY <2>1, <2>2, <2>3, <2>4, <2>5 DEF PipeInv
<1>3. CASE Send(c)
  <2>1. TypeOK'
    BY <1>3 DEF Send, PipeInv, TypeOK, ServiceStates, Working, ClientEnds,
       Outcomes, serverVars
  <2>2. OutcomeTellsTheTruth'
    BY <1>3 DEF Send, PipeInv, TypeOK, OutcomeTellsTheTruth, CountFollowsExchange,
       ClientEnds, serverVars
  <2>3. CountFollowsExchange'
    BY <1>3 DEF Send, PipeInv, TypeOK, CountFollowsExchange, ClientEnds,
       serverVars
  <2>4. ConnectedWhileServing'
    BY <1>3, ClientsAssumption DEF Send, PipeInv, ConnectedWhileServing,
       serverVars
  <2>5. ServiceKnowsItsClient'
    BY <1>3, ClientsAssumption DEF Send, PipeInv, TypeOK, ConnectedWhileServing,
       ServiceKnowsItsClient, CountFollowsExchange, ClientEnds, serverVars
  <2>6. QED BY <2>1, <2>2, <2>3, <2>4, <2>5 DEF PipeInv
<1>4. CASE Receive(c)
  <2>1. TypeOK'
    BY <1>4 DEF Receive, Finish, PipeInv, TypeOK, ServiceStates, Working,
       ClientEnds, Outcomes, serverVars
  <2>2. OutcomeTellsTheTruth'
    BY <1>4 DEF Receive, Finish, PipeInv, TypeOK, OutcomeTellsTheTruth,
       CountFollowsExchange, ClientEnds, serverVars
  <2>3. CountFollowsExchange'
    BY <1>4 DEF Receive, Finish, PipeInv, TypeOK, CountFollowsExchange,
       ClientEnds, serverVars
  <2>4. ConnectedWhileServing'
    BY <1>4, ClientsAssumption DEF Receive, PipeInv, ConnectedWhileServing,
       serverVars
  <2>5. ServiceKnowsItsClient'
    BY <1>4, ClientsAssumption DEF Receive, Finish, PipeInv, TypeOK,
       ConnectedWhileServing, ServiceKnowsItsClient, CountFollowsExchange,
       ClientEnds, serverVars
  <2>6. QED BY <2>1, <2>2, <2>3, <2>4, <2>5 DEF PipeInv
<1>5. CASE Cut(c)
  <2>1. TypeOK'
    BY <1>5 DEF Cut, Finish, PipeInv, TypeOK, ServiceStates, Working, ClientEnds,
       Outcomes, serverVars
  <2>2. OutcomeTellsTheTruth'
    BY <1>5 DEF Cut, Finish, PipeInv, TypeOK, OutcomeTellsTheTruth,
       CountFollowsExchange, ClientEnds, serverVars
  <2>3. CountFollowsExchange'
    BY <1>5 DEF Cut, Finish, PipeInv, TypeOK, CountFollowsExchange, ClientEnds,
       serverVars
  <2>4. ConnectedWhileServing'
    BY <1>5, ClientsAssumption DEF Cut, PipeInv, ConnectedWhileServing, serverVars
  <2>5. ServiceKnowsItsClient'
    BY <1>5, ClientsAssumption DEF Cut, Finish, PipeInv, TypeOK,
       ConnectedWhileServing, ServiceKnowsItsClient, CountFollowsExchange,
       ClientEnds, serverVars
  <2>6. QED BY <2>1, <2>2, <2>3, <2>4, <2>5 DEF PipeInv
<1>6. CASE GiveUp(c)
  <2>1. TypeOK'
    BY <1>6 DEF GiveUp, Finish, PipeInv, TypeOK, ServiceStates, Working,
       ClientEnds, Outcomes, serverVars
  <2>2. OutcomeTellsTheTruth'
    BY <1>6 DEF GiveUp, Finish, PipeInv, TypeOK, OutcomeTellsTheTruth,
       CountFollowsExchange, ClientEnds, serverVars
  <2>3. CountFollowsExchange'
    BY <1>6 DEF GiveUp, Finish, PipeInv, TypeOK, CountFollowsExchange, ClientEnds,
       serverVars
  <2>4. ConnectedWhileServing'
    BY <1>6, ClientsAssumption DEF GiveUp, PipeInv, ConnectedWhileServing,
       serverVars
  <2>5. ServiceKnowsItsClient'
    BY <1>6, ClientsAssumption DEF GiveUp, Finish, PipeInv, TypeOK,
       ConnectedWhileServing, ServiceKnowsItsClient, CountFollowsExchange,
       ClientEnds, serverVars
  <2>6. QED BY <2>1, <2>2, <2>3, <2>4, <2>5 DEF PipeInv
<1>7. QED BY <1>1, <1>2, <1>3, <1>4, <1>5, <1>6 DEF ClientStep

\* PipeInv is inductive.
LEMMA NextKeepsInv == PipeInv /\ [Next]_vars => PipeInv'
<1> SUFFICES ASSUME PipeInv, [Next]_vars PROVE PipeInv'
  OBVIOUS
<1>1. CASE Launch
  BY <1>1, ServiceAlone DEF Launch, ServiceStates, Working
<1>2. CASE ServiceStep
  BY <1>2, ServiceKeepsInv
<1>3. CASE AskStop
  <2>1. TypeOK' /\ OutcomeTellsTheTruth' /\ CountFollowsExchange'
    BY <1>3 DEF AskStop, PipeInv, TypeOK, OutcomeTellsTheTruth,
       CountFollowsExchange, clientVars
  <2>2. ConnectedWhileServing' /\ ServiceKnowsItsClient'
    BY <1>3 DEF AskStop, PipeInv, ConnectedWhileServing, ServiceKnowsItsClient,
       clientVars
  <2>3. QED BY <2>1, <2>2 DEF PipeInv
<1>4. CASE ProcessEnds
  BY <1>4, ClientDropped DEF ProcessEnds, ServiceStates, PipeInv, TypeOK
<1>5. CASE \E c \in Clients : ClientStep(c)
  BY <1>5, ClientKeepsInv
<1>6. CASE UNCHANGED vars
  BY <1>6 DEF vars, PipeInv, TypeOK, OutcomeTellsTheTruth, ConnectedWhileServing,
     ServiceKnowsItsClient, CountFollowsExchange
<1>7. QED BY <1>1, <1>2, <1>3, <1>4, <1>5, <1>6 DEF Next

\* The pipe starts unserved, with no client.
LEMMA InitInv == Init => PipeInv
<1> SUFFICES ASSUME Init PROVE PipeInv
  OBVIOUS
<1>1. TypeOK
  <2>1. service \in ServiceStates /\ stop \in BOOLEAN /\ client \in Clients \cup {Nobody}
    BY DEF Init, ServiceStates
  <2>2. exchange \in [Clients -> ClientEnds] /\ outcome \in [Clients -> Outcomes]
    BY DEF Init, ClientEnds, Outcomes
  <2>3. executed \in [Clients -> 0..2]
    BY DEF Init
  <2>4. QED BY <2>1, <2>2, <2>3 DEF TypeOK
<1>2. OutcomeTellsTheTruth /\ CountFollowsExchange
  BY DEF Init, OutcomeTellsTheTruth, CountFollowsExchange
<1>3. ConnectedWhileServing /\ ServiceKnowsItsClient
  BY DEF Init, ConnectedWhileServing, ServiceKnowsItsClient
<1>4. QED BY <1>1, <1>2, <1>3 DEF PipeInv

\* What an exchange ended with tells whether its command was executed: for any
\* number of clients of the one pipe instance, with every fault, timeout, stop
\* and restart of ipc.rs, main.rs and exchange.
THEOREM OutcomesAreTrue == Spec => []PipeInv
<1>1. Init => PipeInv
  BY InitInv
<1>2. PipeInv /\ [Next]_vars => PipeInv'
  BY NextKeepsInv
<1>3. QED BY <1>1, <1>2, PTL DEF Spec
=============================================================================
