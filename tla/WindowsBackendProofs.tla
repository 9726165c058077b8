------------------------- MODULE WindowsBackendProofs -------------------------
(***************************************************************************)
(* Theorems of WindowsBackend: its invariants, and that the three engines  *)
(* taken together keep the contract of BackendContract.  The module has no *)
(* parameter; the proofs are the argument for what the runs enumerate.     *)
(***************************************************************************)
EXTENDS WindowsBackend, FiniteSetTheorems, TLAPS

-----------------------------------------------------------------------------
(* The inductive invariant *)

\* The tunnel service of engine k carries the traffic or may.
Live(k) == k \in ScmEngines \ overlooked /\ svc[k] \in {"starting", "running", "stopping"}

NoFiles(k) == ~conf[k] /\ ~temp[k]

\* Outside a connect every child process is held by the Xray engine, whose cleanup
\* kills it, and it is outside its job only until it has been assigned.
ProcessInv ==
  /\ xray # None => held \/ pc \in {"assign", "reap", "grace"}
  /\ xray = "loose" => pc \in {"assign", "reap"}
  /\ pc \in {"assign", "reap"} => xray # "jobbed"
  /\ pc \in {"dead"} \cup BootSteps => xray = None

\* The steps belong to the operation that was asked for and to its engine.
CallInv ==
  /\ call.op = "connect" => call.target \in Protocols
  /\ pc \in BootSteps => call.op = "start" /\ ~failed
  /\ pc \in ClearSteps => call.op # "start"
  /\ pc \in ConnectSteps => call.op = "connect"
  /\ pc \in {"create", "launch", "wait"} => call.target \in ScmEngines
  /\ pc \in {"validate", "spawn", "assign", "reap", "grace"} => call.target = "VlessReality"

\* The engines whose cleanup has been tried by the boot or the operation.
Cleaned == CASE pc \in {"bootAmneziaWg", "clearAmneziaWg"} -> {"WireGuard"}
             [] pc \in {"bootXray", "clearXray"} -> ScmEngines
             [] OTHER -> {}

CleanedInv == ~failed => \A k \in Cleaned : ~Live(k) /\ NoFiles(k)

\* A connect finds nothing engaged, until it starts its own engine.
EngagedInv ==
  /\ \E k \in Protocols : Engaged \subseteq {k}
  /\ pc \in ConnectSteps => Engaged \subseteq {call.target}
  /\ pc \in {"cleanup", "verify", "write", "rename", "create", "launch", "validate", "spawn"} =>
       Engaged = {}
  /\ active # None => pc \in {"idle"} \cup ClearSteps /\ Engaged \subseteq {active}

\* A connect leaves plaintext only of its own engine, and not the .new file once
\* that has been renamed.
FilesInv ==
  /\ pc \in ConnectSteps => \A k \in Protocols \ {call.target} : NoFiles(k)
  /\ pc \in {"cleanup", "verify", "write"} => NoFiles(call.target)
  /\ pc \in ConnectSteps \ {"rename", "undo"} => ~temp[call.target]
  /\ NoPlaintextAfterSuccess

BackendIInv ==
  TypeOK /\ ProcessInv /\ CallInv /\ CleanedInv /\ EngagedInv /\ FilesInv

-----------------------------------------------------------------------------
(* Cleanups *)

\* The names of the engines, and of the steps of an operation.
LEMMA Names ==
  /\ ScmEngines = {"WireGuard", "AmneziaWg"} /\ "VlessReality" \notin ScmEngines
  /\ Protocols = ScmEngines \cup {"VlessReality"} /\ None \notin Protocols
BY DEF ScmEngines, Protocols, None

\* A cleanup engages no service, and one that succeeds leaves no file.
LEMMA CleanupResultIs ==
  ASSUME NEW s \in SvcStates, NEW c \in BOOLEAN, NEW t \in BOOLEAN,
         NEW r \in CleanupResults(s, c, t)
  PROVE  /\ r.svc \in SvcStates /\ r.conf \in BOOLEAN /\ r.temp \in BOOLEAN /\ r.ok \in BOOLEAN
         /\ r.svc \in {"starting", "running", "stopping"} =>
              s \in {"starting", "running", "stopping"}
         /\ r.ok => ~r.conf /\ ~r.temp
<1> USE DEF SvcStates
<1> DEFINE Sent == IF s = "running" THEN {"stopping", "stopped"}
                   ELSE IF s = "stopped" THEN {"stopped"} ELSE {}
           Gone == {s} \cup IF s \in {"running", "stopped"} THEN {"absent"} ELSE {}
           Early == {[svc |-> s, conf |-> c, temp |-> t, ok |-> FALSE]}
           Late == {[svc |-> x, conf |-> c, temp |-> t, ok |-> FALSE] : x \in Sent}
           Deleted == {[svc |-> x, conf |-> f, temp |-> t, ok |-> FALSE] :
                         x \in Gone, f \in {c, FALSE}}
           Done == {[svc |-> x, conf |-> FALSE, temp |-> FALSE, ok |-> TRUE] : x \in Gone}
<1>1. CASE r = [svc |-> s, conf |-> c, temp |-> t, ok |-> FALSE]
  BY <1>1
<1>2. ASSUME NEW x \in Sent,
             r = [svc |-> x, conf |-> c, temp |-> t, ok |-> FALSE]
      PROVE  /\ r.svc \in SvcStates /\ r.conf \in BOOLEAN /\ r.temp \in BOOLEAN
             /\ r.ok = FALSE
             /\ r.svc \in {"starting", "running", "stopping"} =>
                  s \in {"starting", "running", "stopping"}
  <2>1. x \in SvcStates /\ (x = "stopping" => s = "running") /\ x \in {"stopping", "stopped"}
    BY <1>2
  <2> QED
    BY <1>2, <2>1
<1>3. ASSUME NEW x \in Gone,
             NEW f \in {c, FALSE},
             r = [svc |-> x, conf |-> f, temp |-> t, ok |-> FALSE]
      PROVE  /\ r.svc \in SvcStates /\ r.conf \in BOOLEAN /\ r.temp \in BOOLEAN
             /\ r.ok = FALSE
             /\ r.svc \in {"starting", "running", "stopping"} =>
                  s \in {"starting", "running", "stopping"}
  <2>1. x \in {s, "absent"} /\ f \in BOOLEAN
    BY <1>3
  <2> QED
    BY <1>3, <2>1
<1>4. ASSUME NEW x \in Gone,
             r = [svc |-> x, conf |-> FALSE, temp |-> FALSE, ok |-> TRUE]
      PROVE  /\ r.svc \in SvcStates /\ r.conf = FALSE /\ r.temp = FALSE /\ r.ok = TRUE
             /\ r.svc \in {"starting", "running", "stopping"} =>
                  s \in {"starting", "running", "stopping"}
  <2>1. x \in {s, "absent"}
    BY <1>4
  <2> QED
    BY <1>4, <2>1
<1>5. r \in Early \cup Late \cup Deleted \cup Done
  BY DEF CleanupResults
<1>6. CASE r \in Early
  BY <1>1, <1>6
<1>7. CASE r \in Late
  BY <1>2, <1>7
<1>8. CASE r \in Deleted
  <2>1. PICK x \in Gone, f \in {c, FALSE} :
          r = [svc |-> x, conf |-> f, temp |-> t, ok |-> FALSE]
    BY <1>8
  <2> QED
    BY <1>3, <2>1
<1>9. CASE r \in Done
  BY <1>4, <1>9
<1> QED
  BY <1>5, <1>6, <1>7, <1>8, <1>9

\* Fewer tunnels are engaged if no service and no child comes to be live.
LEMMA EngagedLess ==
  ASSUME \A j \in ScmEngines : Live(j)' => Live(j), xray' # None => xray # None
  PROVE  Engaged' \subseteq Engaged
BY DEF Engaged, Live

\* cleanup_stale of a service engine touches that engine only, and when it succeeds
\* neither its tunnel nor its files are left.
LEMMA CleanScmEffect ==
  ASSUME TypeOK, NEW k \in ScmEngines, NEW ok \in BOOLEAN, CleanScm(k, ok)
  PROVE  /\ svc' \in [ScmEngines -> SvcStates] /\ overlooked' \subseteq ScmEngines
         /\ conf' \in [Protocols -> BOOLEAN] /\ temp' \in [Protocols -> BOOLEAN]
         /\ xray' = xray /\ orphan' = orphan /\ held' = held
         /\ \A j \in ScmEngines : Live(j)' => Live(j)
         /\ \A j \in Protocols : j # k => conf'[j] = conf[j] /\ temp'[j] = temp[j]
         /\ ok => ~Live(k)' /\ ~conf'[k] /\ ~temp'[k]
<1>1. /\ svc \in [ScmEngines -> SvcStates] /\ overlooked \subseteq ScmEngines
      /\ conf \in [Protocols -> BOOLEAN] /\ temp \in [Protocols -> BOOLEAN] /\ k \in Protocols
  BY Names DEF TypeOK
<1>2. PICK r \in CleanupResults(svc[k], conf[k], temp[k]) :
        /\ svc' = [svc EXCEPT ![k] = r.svc]
        /\ conf' = [conf EXCEPT ![k] = r.conf]
        /\ temp' = [temp EXCEPT ![k] = r.temp]
        /\ ok = r.ok
        /\ overlooked' = IF r.svc = "absent" THEN overlooked \ {k}
                         ELSE IF r.ok THEN overlooked \cup {k} ELSE overlooked
  BY DEF CleanScm
<1>3. svc[k] \in SvcStates /\ conf[k] \in BOOLEAN /\ temp[k] \in BOOLEAN
  BY <1>1
<1>4. /\ r.svc \in SvcStates /\ r.conf \in BOOLEAN /\ r.temp \in BOOLEAN
      /\ r.svc \in {"starting", "running", "stopping"} =>
           svc[k] \in {"starting", "running", "stopping"}
      /\ r.ok => ~r.conf /\ ~r.temp
  BY <1>3, CleanupResultIs
<1>5. svc' \in [ScmEngines -> SvcStates] /\ overlooked' \subseteq ScmEngines
  BY <1>1, <1>2, <1>4
<1>6. conf' \in [Protocols -> BOOLEAN] /\ temp' \in [Protocols -> BOOLEAN]
  BY <1>1, <1>2, <1>4
<1>7. xray' = xray /\ orphan' = orphan /\ held' = held
  BY DEF CleanScm
<1>8. ASSUME NEW j \in ScmEngines, Live(j)'
      PROVE  Live(j)
  <2>1. CASE j = k
    <3>1. svc'[k] = r.svc
      BY <1>1, <1>2
    <3>2. svc[k] \in {"starting", "running", "stopping"} /\ r.svc # "absent" /\ k \notin overlooked'
      BY <1>4, <1>8, <2>1, <3>1 DEF Live
    <3>3. k \notin overlooked
      BY <1>2, <3>2
    <3> QED
      BY <2>1, <3>2, <3>3 DEF Live
  <2>2. CASE j # k
    <3>1. svc'[j] = svc[j] /\ (j \in overlooked => j \in overlooked')
      BY <1>1, <1>2, <2>2
    <3> QED
      BY <1>8, <3>1 DEF Live
  <2> QED
    BY <2>1, <2>2
<1>9. \A j \in Protocols : j # k => conf'[j] = conf[j] /\ temp'[j] = temp[j]
  BY <1>1, <1>2
<1>10. ASSUME ok
       PROVE  ~Live(k)' /\ ~conf'[k] /\ ~temp'[k]
  <2>1. ~conf'[k] /\ ~temp'[k]
    BY <1>1, <1>2, <1>4, <1>10
  <2>2. svc'[k] = r.svc
    BY <1>1, <1>2
  <2>3. CASE r.svc = "absent"
    BY <2>1, <2>2, <2>3 DEF Live
  <2>4. CASE r.svc # "absent"
    <3>1. k \in overlooked'
      BY <1>2, <1>10, <2>4
    <3> QED
      BY <2>1, <3>1 DEF Live
  <2> QED
    BY <2>3, <2>4
<1> QED
  BY <1>5, <1>6, <1>7, <1>8, <1>9, <1>10

\* Its counterpart of the Xray engine kills the child it holds.
LEMMA CleanXrayEffect ==
  ASSUME TypeOK, NEW ok \in BOOLEAN, CleanXray(ok)
  PROVE  /\ svc' = svc /\ overlooked' = overlooked /\ orphan' = orphan
         /\ conf' \in [Protocols -> BOOLEAN] /\ temp' \in [Protocols -> BOOLEAN]
         /\ xray' \in {None, xray} /\ held' = FALSE /\ (held => xray' = None)
         /\ \A j \in ScmEngines : conf'[j] = conf[j] /\ temp'[j] = temp[j]
         /\ ok => ~conf'["VlessReality"] /\ ~temp'["VlessReality"]
<1>1. /\ conf \in [Protocols -> BOOLEAN] /\ temp \in [Protocols -> BOOLEAN]
      /\ "VlessReality" \in Protocols /\ conf["VlessReality"] \in BOOLEAN
      /\ temp["VlessReality"] \in BOOLEAN
  BY Names DEF TypeOK
<1>2. PICK c \in {conf["VlessReality"], FALSE}, t \in {temp["VlessReality"], FALSE} :
        /\ conf' = [conf EXCEPT !["VlessReality"] = c]
        /\ temp' = [temp EXCEPT !["VlessReality"] = t]
        /\ ok => ~c /\ ~t
  BY DEF CleanXray
<1>3. c \in BOOLEAN /\ t \in BOOLEAN
  BY <1>1
<1>4. conf' \in [Protocols -> BOOLEAN] /\ temp' \in [Protocols -> BOOLEAN]
  BY <1>1, <1>2, <1>3
<1>5. \A j \in ScmEngines : conf'[j] = conf[j] /\ temp'[j] = temp[j]
  BY <1>1, <1>2, Names
<1>6. ok => ~conf'["VlessReality"] /\ ~temp'["VlessReality"]
  BY <1>1, <1>2
<1> QED
  BY <1>4, <1>5, <1>6 DEF CleanXray

\* Any cleanup of an engine.
LEMMA CleanEffect ==
  ASSUME TypeOK, NEW k \in Protocols, NEW ok \in BOOLEAN, Clean(k, ok)
  PROVE  /\ svc' \in [ScmEngines -> SvcStates] /\ overlooked' \subseteq ScmEngines
         /\ conf' \in [Protocols -> BOOLEAN] /\ temp' \in [Protocols -> BOOLEAN]
         /\ xray' \in {None, xray} /\ orphan' = orphan /\ held' \in {FALSE, held}
         /\ k \in ScmEngines => xray' = xray /\ held' = held
         /\ k = "VlessReality" => held' = FALSE /\ (held => xray' = None)
         /\ Engaged' \subseteq Engaged
         /\ \A j \in ScmEngines : Live(j)' => Live(j)
         /\ \A j \in Protocols : j # k => conf'[j] = conf[j] /\ temp'[j] = temp[j]
         /\ ok => ~Live(k)' /\ ~conf'[k] /\ ~temp'[k]
<1>1. CASE k \in ScmEngines
  <2>1. CleanScm(k, ok)
    BY <1>1 DEF Clean
  <2>2. /\ svc' \in [ScmEngines -> SvcStates] /\ overlooked' \subseteq ScmEngines
        /\ conf' \in [Protocols -> BOOLEAN] /\ temp' \in [Protocols -> BOOLEAN]
        /\ xray' = xray /\ orphan' = orphan /\ held' = held
        /\ \A j \in ScmEngines : Live(j)' => Live(j)
        /\ \A j \in Protocols : j # k => conf'[j] = conf[j] /\ temp'[j] = temp[j]
        /\ ok => ~Live(k)' /\ ~conf'[k] /\ ~temp'[k]
    BY <1>1, <2>1, CleanScmEffect
  <2>3. Engaged' \subseteq Engaged
    BY <2>2, EngagedLess
  <2>4. k # "VlessReality"
    BY <1>1, Names
  <2> QED
    BY <2>2, <2>3, <2>4
<1>2. CASE k = "VlessReality"
  <2>1. CleanXray(ok)
    BY <1>2, Names DEF Clean
  <2>2. /\ svc' = svc /\ overlooked' = overlooked /\ orphan' = orphan
        /\ conf' \in [Protocols -> BOOLEAN] /\ temp' \in [Protocols -> BOOLEAN]
        /\ xray' \in {None, xray} /\ held' = FALSE /\ (held => xray' = None)
        /\ \A j \in ScmEngines : conf'[j] = conf[j] /\ temp'[j] = temp[j]
        /\ ok => ~conf'["VlessReality"] /\ ~temp'["VlessReality"]
    BY <2>1, CleanXrayEffect
  <2>3. \A j \in ScmEngines : Live(j)' => Live(j)
    BY <2>2 DEF Live
  <2>4. Engaged' \subseteq Engaged
    BY <2>2, <2>3, EngagedLess
  <2>5. k \notin ScmEngines /\ ~Live(k)'
    BY <1>2, Names DEF Live
  <2>6. svc' \in [ScmEngines -> SvcStates] /\ overlooked' \subseteq ScmEngines
    BY <2>2 DEF TypeOK
  <2>7. \A j \in Protocols : j # k => j \in ScmEngines
    BY <1>2, Names
  <2>8. held' \in {FALSE, held}
    BY <2>2
  <2> QED
    BY <1>2, <2>2, <2>3, <2>4, <2>5, <2>6, <2>7, <2>8
<1> QED
  BY <1>1, <1>2, Names

-----------------------------------------------------------------------------
(* The steps of the contract *)

ContractStep == [Contract!Next]_Contract!vars

\* Whatever stays in the same call and engages nothing is allowed.
LEMMA DropsOut ==
  ASSUME Engaged' \subseteq Engaged, ContractCall' = ContractCall,
         ContractErred' = ContractErred
  PROVE  ContractStep
BY DEF ContractStep, Contract!Next, Contract!DropOut, Contract!vars

\* So is an error, from a connect or a disconnect.
LEMMA ErrReturns ==
  ASSUME Engaged' \subseteq Engaged, ContractCall \in Protocols \cup {"disconnect"},
         ContractCall' = "rest", ContractErred' = TRUE
  PROVE  ContractStep
BY DEF ContractStep, Contract!Next, Contract!ReturnErr, Contract!Rest, Contract!Stop

\* And the end of the service.
LEMMA ServiceDies ==
  ASSUME Engaged' \subseteq Engaged, ContractCall # "down", ContractCall' = "down",
         ContractErred' = FALSE
  PROVE  ContractStep
BY DEF ContractStep, Contract!Next, Contract!Die, Contract!Down

\* In which call of the contract an operation is.
LEMMA CallOf ==
  ASSUME BackendIInv
  PROVE  /\ pc = "dead" => ContractCall = "down"
         /\ pc \in BootSteps => ContractCall = "boot"
         /\ pc = "idle" => ContractCall = "rest"
         /\ pc \in ConnectSteps => ContractCall = call.target /\ call.target \in Protocols
         /\ pc \in ClearSteps => ContractCall = IF call.op = "connect" THEN call.target
                                                ELSE "disconnect"
         /\ pc # "dead" => ContractCall # "down"
BY DEF BackendIInv, CallInv, ContractCall, BootSteps, ClearSteps, ConnectSteps, Protocols,
       ScmEngines, TypeOK, Steps

\* Without a live service and a child nothing is engaged.
LEMMA NoneEngaged ==
  ASSUME \A k \in ScmEngines : ~Live(k), xray = None
  PROVE  Engaged = {}
BY DEF Engaged, Live

\* What is unchanged with the services and the child.
LEMMA SameEngaged ==
  ASSUME svc' = svc, xray' = xray, overlooked' = overlooked
  PROVE  Engaged' = Engaged /\ \A k \in ScmEngines : Live(k)' <=> Live(k)
BY DEF Engaged, Live

-----------------------------------------------------------------------------
(* Ways to go on *)

\* The service is gone: what is engaged is at most what was.
LEMMA GoesDown ==
  ASSUME BackendIInv, TypeOK', pc # "dead", pc' = "dead", active' = None, xray' = None,
         call' = call, Engaged' \subseteq Engaged
  PROVE  BackendIInv' /\ ContractStep
<1>1. ProcessInv'
  BY DEF ProcessInv, None
<1>2. CallInv'
  BY DEF BackendIInv, CallInv, BootSteps, ClearSteps, ConnectSteps
<1>3. CleanedInv'
  BY DEF CleanedInv, Cleaned
<1>4. EngagedInv'
  BY DEF BackendIInv, EngagedInv, ConnectSteps
<1>5. FilesInv'
  BY DEF FilesInv, NoPlaintextAfterSuccess, ConnectSteps
<1>6. ContractCall # "down"
  BY CallOf
<1>7. ContractCall' = "down" /\ ContractErred' = FALSE
  BY DEF ContractCall, ContractErred, BootSteps
<1>8. ContractStep
  BY <1>6, <1>7, ServiceDies
<1> QED
  BY <1>1, <1>2, <1>3, <1>4, <1>5, <1>8 DEF BackendIInv

\* A connect returns an error: what it leaves is at most its own engine.
LEMMA ConnectReturnsErr ==
  ASSUME BackendIInv, TypeOK', pc \in ConnectSteps, Return(FALSE), Engaged' \subseteq Engaged,
         xray' # None => held', xray' # "loose"
  PROVE  BackendIInv' /\ ContractStep
<1>1. /\ pc' = "idle" /\ failed' = TRUE /\ call' = call /\ active' = active /\ active = None
  BY DEF Return, BackendIInv, EngagedInv, ConnectSteps, ClearSteps
<1>2. ProcessInv'
  BY <1>1 DEF ProcessInv, BootSteps
<1>3. CallInv'
  BY <1>1 DEF BackendIInv, CallInv, BootSteps, ClearSteps, ConnectSteps
<1>4. CleanedInv'
  BY <1>1 DEF CleanedInv
<1>5. EngagedInv'
  BY <1>1 DEF BackendIInv, EngagedInv, ConnectSteps
<1>6. FilesInv'
  BY <1>1 DEF FilesInv, NoPlaintextAfterSuccess, ConnectSteps
<1>7. ContractCall \in Protocols /\ ContractCall' = "rest" /\ ContractErred' = TRUE
  BY <1>1, CallOf DEF ContractCall, ContractErred, BootSteps
<1>8. ContractStep
  BY <1>7, ErrReturns
<1> QED
  BY <1>2, <1>3, <1>4, <1>5, <1>6, <1>8 DEF BackendIInv

\* A connect goes on with its next step.
LEMMA ConnectGoesOn ==
  ASSUME BackendIInv, TypeOK', pc \in ConnectSteps, NEW step \in ConnectSteps, Goto(step),
         Engaged' \subseteq {call.target},
         step \in {"cleanup", "verify", "write", "rename", "create", "launch", "validate",
                   "spawn"} => Engaged' = {},
         xray' # None => held' \/ step \in {"assign", "reap", "grace"},
         xray' = "loose" => step \in {"assign", "reap"},
         step \in {"assign", "reap"} => xray' # "jobbed",
         step \in {"create", "launch", "wait"} => call.target \in ScmEngines,
         step \in {"validate", "spawn", "assign", "reap", "grace"} => call.target = "VlessReality",
         \A k \in Protocols \ {call.target} : NoFiles(k)',
         step \in {"cleanup", "verify", "write"} => ~conf'[call.target],
         step \notin {"rename", "undo"} => ~temp'[call.target]
  PROVE  BackendIInv' /\ ContractCall' = ContractCall /\ ContractErred' = ContractErred
<1>1. pc' = step /\ call' = call /\ failed' = failed /\ active' = active
  BY DEF Goto
<1>2. call.op = "connect" /\ call.target \in Protocols /\ active = None
  BY DEF BackendIInv, CallInv, EngagedInv, ConnectSteps, ClearSteps
<1>3. /\ step \notin BootSteps /\ step \notin ClearSteps /\ step \notin {"dead", "idle"}
      /\ step \notin {"bootAmneziaWg", "clearAmneziaWg", "bootXray", "clearXray"}
  BY DEF BootSteps, ClearSteps, ConnectSteps
<1>4. ProcessInv'
  BY <1>1, <1>3 DEF ProcessInv
<1>5. CallInv'
  BY <1>1, <1>2, <1>3 DEF CallInv
<1>6. CleanedInv'
  BY <1>1, <1>3 DEF CleanedInv, Cleaned
<1>7. EngagedInv'
  BY <1>1, <1>2 DEF EngagedInv
<1>8. FilesInv'
  <2>1. NoPlaintextAfterSuccess'
    BY <1>1, <1>3 DEF NoPlaintextAfterSuccess
  <2>2. step \in {"cleanup", "verify", "write"} => ~temp'[call.target]
    OBVIOUS
  <2> QED
    BY <1>1, <2>1, <2>2 DEF FilesInv, NoFiles
<1>9. ContractCall' = ContractCall
  BY <1>1, <1>2, <1>3, CallOf DEF ContractCall
<1>10. ContractErred' = FALSE /\ ContractErred = FALSE
  BY <1>1, <1>3 DEF ContractErred, ConnectSteps
<1> QED
  BY <1>4, <1>5, <1>6, <1>7, <1>8, <1>9, <1>10 DEF BackendIInv

-----------------------------------------------------------------------------
(* Start of the service *)

\* The service starts with what an earlier one left, but without a child.
LEMMA BootKeeps ==
  ASSUME BackendIInv, Boot
  PROVE  BackendIInv' /\ ContractStep
<1>1. /\ pc = "dead" /\ pc' = "bootWireGuard" /\ failed' = FALSE
      /\ call' = [op |-> "start", target |-> None, killSwitch |-> FALSE]
      /\ UNCHANGED <<svc, xray, orphan, held, overlooked, conf, temp, active>>
  BY DEF Boot, engineVars, files
<1>2. Engaged' = Engaged
  BY <1>1, SameEngaged
<1>3. TypeOK'
  <2>1. call' \in [op : Ops, target : Protocols \cup {None}, killSwitch : BOOLEAN]
    BY <1>1 DEF Ops
  <2> QED
    BY <1>1, <2>1 DEF BackendIInv, TypeOK, Steps, BootSteps
<1>4. ProcessInv'
  BY <1>1 DEF BackendIInv, ProcessInv, None
<1>5. CallInv'
  BY <1>1 DEF CallInv, ClearSteps, ConnectSteps
<1>6. CleanedInv'
  BY <1>1 DEF CleanedInv, Cleaned
<1>7. EngagedInv'
  BY <1>1, <1>2 DEF BackendIInv, EngagedInv, ConnectSteps, ClearSteps
<1>8. FilesInv'
  BY <1>1 DEF FilesInv, NoPlaintextAfterSuccess, ConnectSteps
<1>9. ContractStep
  <2>1. ContractCall = "down" /\ ContractCall' = "boot" /\ ContractErred' = ContractErred
    BY <1>1 DEF ContractCall, ContractErred, BootSteps
  <2> QED
    BY <1>2, <2>1 DEF ContractStep, Contract!Next, Contract!Start, Contract!Down, Contract!Boot
<1> QED
  BY <1>3, <1>4, <1>5, <1>6, <1>7, <1>8, <1>9 DEF BackendIInv

\* The two engines with a service are cleaned, or the service does not start.
LEMMA BootScmKeeps ==
  ASSUME BackendIInv, NEW k \in ScmEngines, NEW step, NEW next,
         \/ k = "WireGuard" /\ step = "bootWireGuard" /\ next = "bootAmneziaWg"
         \/ k = "AmneziaWg" /\ step = "bootAmneziaWg" /\ next = "bootXray",
         BootScm(k, step, next)
  PROVE  BackendIInv' /\ ContractStep
<1>1. PICK ok \in BOOLEAN : CleanScm(k, ok) /\ Goto(IF ok THEN next ELSE "dead")
  BY DEF BootScm
<1>2. /\ pc = step /\ pc \in BootSteps /\ next \in BootSteps
      /\ pc' = (IF ok THEN next ELSE "dead") /\ UNCHANGED <<call, failed, active>>
  BY <1>1 DEF BootScm, BootSteps, Goto
<1>3. /\ svc' \in [ScmEngines -> SvcStates] /\ overlooked' \subseteq ScmEngines
      /\ conf' \in [Protocols -> BOOLEAN] /\ temp' \in [Protocols -> BOOLEAN]
      /\ xray' = xray /\ orphan' = orphan /\ held' = held
      /\ \A j \in ScmEngines : Live(j)' => Live(j)
      /\ \A j \in Protocols : j # k => conf'[j] = conf[j] /\ temp'[j] = temp[j]
      /\ ok => ~Live(k)' /\ ~conf'[k] /\ ~temp'[k]
  BY <1>1, CleanScmEffect DEF BackendIInv
<1>4. Engaged' \subseteq Engaged /\ xray = None /\ active = None
  BY <1>2, <1>3, EngagedLess DEF BackendIInv, ProcessInv, EngagedInv, BootSteps, ClearSteps
<1>5. TypeOK'
  BY <1>2, <1>3 DEF BackendIInv, TypeOK, Steps
<1>6. CASE ~ok
  BY <1>2, <1>3, <1>4, <1>5, <1>6, GoesDown DEF BootSteps
<1>7. CASE ok
  <2>1. pc' = next /\ next \in {"bootAmneziaWg", "bootXray"}
    BY <1>2, <1>7
  <2>2. ProcessInv'
    BY <1>3, <1>4 DEF ProcessInv, None
  <2>3. CallInv'
    BY <1>2, <2>1 DEF BackendIInv, CallInv, BootSteps, ClearSteps, ConnectSteps
  <2>4. CleanedInv'
    <3>1. CASE k = "WireGuard"
      <4>1. Cleaned' = {"WireGuard"}
        BY <2>1, <3>1, <1>2 DEF Cleaned
      <4> QED
        BY <1>3, <1>7, <3>1, <4>1 DEF CleanedInv, NoFiles
    <3>2. CASE k = "AmneziaWg"
      <4>1. Cleaned' = {"WireGuard", "AmneziaWg"} /\ Cleaned = {"WireGuard"} /\ ~failed /\ ~failed'
        BY <1>2, <2>1, <3>2 DEF Cleaned, ScmEngines, BackendIInv, CallInv
      <4>2. ~Live("WireGuard") /\ NoFiles("WireGuard")
        BY <4>1 DEF BackendIInv, CleanedInv
      <4>3. ~Live("WireGuard")' /\ NoFiles("WireGuard")'
        BY <1>3, <3>2, <4>2, Names DEF NoFiles
      <4> QED
        BY <1>3, <1>7, <3>2, <4>1, <4>3 DEF CleanedInv, NoFiles
    <3> QED
      BY <3>1, <3>2
  <2>5. EngagedInv'
    BY <1>2, <1>4, <2>1 DEF BackendIInv, EngagedInv, ConnectSteps
  <2>6. FilesInv'
    BY <2>1 DEF FilesInv, NoPlaintextAfterSuccess, ConnectSteps
  <2>7. ContractCall' = ContractCall
    BY <1>2, <2>1, CallOf DEF ContractCall, BootSteps
  <2>8. ContractErred' = ContractErred
    BY <1>2, <2>1 DEF ContractErred, BootSteps
  <2>9. ContractStep
    BY <1>4, <2>7, <2>8, DropsOut
  <2> QED
    BY <1>5, <2>2, <2>3, <2>4, <2>5, <2>6, <2>9 DEF BackendIInv
<1> QED
  BY <1>6, <1>7

\* The service that has started finds nothing engaged.
LEMMA BootXrayKeeps ==
  ASSUME BackendIInv, BootXray
  PROVE  BackendIInv' /\ ContractStep
<1>1. /\ pc = "bootXray" /\ pc \in BootSteps
      /\ UNCHANGED <<svc, xray, orphan, held, overlooked, temp>>
  BY DEF BootXray, BootSteps, engineVars
<1>2. /\ Engaged' = Engaged /\ call.op = "start" /\ xray = None /\ active = None
      /\ xray' = None
  BY <1>1, SameEngaged DEF BackendIInv, CallInv, ProcessInv, EngagedInv, ClearSteps
<1>3. Engaged = {}
  <2>1. Cleaned = ScmEngines /\ ~failed
    BY <1>1 DEF Cleaned, BackendIInv, CallInv
  <2>2. \A k \in ScmEngines : ~Live(k)
    BY <2>1 DEF BackendIInv, CleanedInv
  <2> QED
    BY <1>2, <2>2, NoneEngaged
<1>4. CASE Goto("dead") /\ UNCHANGED conf
  <2>1. pc' = "dead" /\ UNCHANGED <<call, failed, active, conf>>
    BY <1>4 DEF Goto
  <2>2. TypeOK'
    BY <1>1, <2>1 DEF BackendIInv, TypeOK, Steps
  <2> QED
    BY <1>1, <1>2, <2>1, <2>2, GoesDown
<1>5. CASE conf' = [conf EXCEPT !["VlessReality"] = FALSE] /\ Return(TRUE)
  <2>1. pc' = "idle" /\ failed' = FALSE /\ call' = call /\ active' = None
    BY <1>2, <1>5 DEF Return
  <2>2. TypeOK'
    BY <1>1, <1>5, <2>1 DEF BackendIInv, TypeOK, Steps
  <2>3. ProcessInv'
    BY <1>2 DEF ProcessInv, None
  <2>4. CallInv'
    BY <1>2, <2>1 DEF CallInv, BootSteps, ClearSteps, ConnectSteps
  <2>5. CleanedInv'
    BY <2>1 DEF CleanedInv, Cleaned
  <2>6. EngagedInv'
    BY <1>2, <1>3, <2>1, Names DEF EngagedInv, ConnectSteps
  <2>7. FilesInv'
    BY <1>2, <2>1 DEF FilesInv, NoPlaintextAfterSuccess, ConnectSteps
  <2>8. ContractCall = "boot"
    BY <1>1, CallOf
  <2>9. ContractCall' = "rest" /\ ContractErred' = ContractErred
    BY <1>1, <2>1 DEF ContractCall, ContractErred, BootSteps
  <2>10. ContractStep
    BY <1>2, <1>3, <2>8, <2>9
    DEF ContractStep, Contract!Next, Contract!Started, Contract!Boot, Contract!Rest
  <2> QED
    BY <2>2, <2>3, <2>4, <2>5, <2>6, <2>7, <2>10 DEF BackendIInv
<1> QED
  BY <1>4, <1>5 DEF BootXray

-----------------------------------------------------------------------------
(* disconnect_all *)

\* An operation begins with what is engaged, and with the active engine.
LEMMA BeginKeeps ==
  ASSUME BackendIInv, pc = "idle", pc' = "clearWireGuard", failed' = FALSE, active' = active,
         NEW op \in {"connect", "disconnect"}, NEW target \in Protocols \cup {None},
         NEW killSwitch \in BOOLEAN, op = "connect" => target \in Protocols,
         call' = [op |-> op, target |-> target, killSwitch |-> killSwitch],
         UNCHANGED <<engineVars, files>>
  PROVE  BackendIInv' /\ ContractStep
<1>1. UNCHANGED <<svc, xray, orphan, held, overlooked, conf, temp>>
  BY DEF engineVars, files
<1>2. Engaged' = Engaged
  BY <1>1, SameEngaged
<1>3. TypeOK'
  <2>1. call' \in [op : Ops, target : Protocols \cup {None}, killSwitch : BOOLEAN]
    BY DEF Ops
  <2> QED
    BY <1>1, <2>1 DEF BackendIInv, TypeOK, Steps, ClearSteps
<1>4. ProcessInv'
  BY <1>1 DEF BackendIInv, ProcessInv, BootSteps
<1>5. CallInv'
  BY DEF CallInv, BootSteps, ConnectSteps
<1>6. CleanedInv'
  BY DEF CleanedInv, Cleaned
<1>7. EngagedInv'
  BY <1>2 DEF BackendIInv, EngagedInv, ConnectSteps, ClearSteps
<1>8. FilesInv'
  BY DEF FilesInv, NoPlaintextAfterSuccess, ConnectSteps
<1>9. ContractStep
  <2>1. ContractCall = "rest"
    BY CallOf
  <2>2. ContractCall' = IF op = "connect" THEN target ELSE "disconnect"
    BY DEF ContractCall, BootSteps
  <2>3. ContractCall' \in Protocols \cup {"disconnect"} /\ ContractErred' = FALSE
    BY <2>2 DEF ContractErred
  <2> QED
    BY <1>2, <2>1, <2>3
    DEF ContractStep, Contract!Next, Contract!Begin, Contract!Rest, Contract!Stop
<1> QED
  BY <1>3, <1>4, <1>5, <1>6, <1>7, <1>8, <1>9 DEF BackendIInv

\* The engines with a service are cleaned in turn.
LEMMA ClearKeeps ==
  ASSUME BackendIInv, NEW k \in ScmEngines, NEW step, NEW next,
         \/ k = "WireGuard" /\ step = "clearWireGuard" /\ next = "clearAmneziaWg"
         \/ k = "AmneziaWg" /\ step = "clearAmneziaWg" /\ next = "clearXray",
         Clear(k, step, next)
  PROVE  BackendIInv' /\ ContractStep
<1>1. PICK ok \in BOOLEAN : Clean(k, ok) /\ failed' = (failed \/ ~ok)
  BY DEF Clear
<1>2. /\ pc = step /\ pc \in ClearSteps /\ next \in ClearSteps /\ pc' = next
      /\ UNCHANGED <<call, active>> /\ next \in {"clearAmneziaWg", "clearXray"}
  BY DEF Clear, ClearSteps
<1>3. /\ svc' \in [ScmEngines -> SvcStates] /\ overlooked' \subseteq ScmEngines
      /\ conf' \in [Protocols -> BOOLEAN] /\ temp' \in [Protocols -> BOOLEAN]
      /\ xray' = xray /\ orphan' = orphan /\ held' = held
      /\ Engaged' \subseteq Engaged
      /\ \A j \in ScmEngines : Live(j)' => Live(j)
      /\ \A j \in Protocols : j # k => conf'[j] = conf[j] /\ temp'[j] = temp[j]
      /\ ok => ~Live(k)' /\ ~conf'[k] /\ ~temp'[k]
  <2>1. TypeOK /\ k \in Protocols /\ k \in ScmEngines
    BY Names DEF BackendIInv
  <2> QED
    BY <1>1, <2>1, CleanEffect
<1>4. TypeOK'
  <2>1. failed' \in BOOLEAN
    BY <1>1
  <2> QED
    BY <1>2, <1>3, <2>1 DEF BackendIInv, TypeOK, Steps
<1>5. ProcessInv'
  BY <1>2, <1>3 DEF BackendIInv, ProcessInv, BootSteps, ClearSteps
<1>6. CallInv'
  BY <1>2 DEF BackendIInv, CallInv, BootSteps, ClearSteps, ConnectSteps
<1>7. CleanedInv'
  <2> SUFFICES ASSUME ~failed'
               PROVE  \A j \in Cleaned' : ~Live(j)' /\ ~conf'[j] /\ ~temp'[j]
    BY DEF CleanedInv, NoFiles
  <2>1. ok /\ ~failed
    BY <1>1
  <2>2. CASE k = "WireGuard"
    <3>1. Cleaned' = {"WireGuard"}
      BY <1>2, <2>2 DEF Cleaned
    <3> QED
      BY <1>3, <2>1, <2>2, <3>1
  <2>3. CASE k = "AmneziaWg"
    <3>1. Cleaned' = {"WireGuard", "AmneziaWg"} /\ Cleaned = {"WireGuard"}
      BY <1>2, <2>3 DEF Cleaned, ScmEngines
    <3>2. ~Live("WireGuard") /\ NoFiles("WireGuard")
      BY <2>1, <3>1 DEF BackendIInv, CleanedInv
    <3>3. ~Live("WireGuard")' /\ ~conf'["WireGuard"] /\ ~temp'["WireGuard"]
      BY <1>3, <2>3, <3>2, Names DEF NoFiles
    <3> QED
      BY <1>3, <2>1, <2>3, <3>1, <3>3
  <2> QED
    BY <2>2, <2>3
<1>8. EngagedInv'
  BY <1>2, <1>3 DEF BackendIInv, EngagedInv, ConnectSteps, ClearSteps
<1>9. FilesInv'
  BY <1>2 DEF FilesInv, NoPlaintextAfterSuccess, ConnectSteps, ClearSteps
<1>10. ContractStep
  <2>1. ContractCall' = IF call.op = "connect" THEN call.target ELSE "disconnect"
    BY <1>2 DEF ContractCall, BootSteps
  <2>2. ContractCall' = ContractCall
    BY <1>2, <2>1, CallOf
  <2>3. ContractErred' = ContractErred
    BY <1>2 DEF ContractErred, ClearSteps
  <2> QED
    BY <1>3, <2>2, <2>3, DropsOut
<1> QED
  BY <1>4, <1>5, <1>6, <1>7, <1>8, <1>9, <1>10 DEF BackendIInv

\* After the last of them, and without an error, nothing is engaged and no
\* plaintext is left.
LEMMA ClearLastKeeps ==
  ASSUME BackendIInv, ClearLast
  PROVE  BackendIInv' /\ ContractStep
<1>1. PICK ok \in BOOLEAN :
        /\ Clean("VlessReality", ok)
        /\ failed' = (failed \/ ~ok \/ (call.op = "connect" /\ call.killSwitch))
  BY DEF ClearLast
<1>2. /\ pc = "clearXray" /\ pc \in ClearSteps /\ active' = None /\ call' = call
      /\ pc' = IF failed' \/ call.op = "disconnect" THEN "idle" ELSE "cleanup"
  BY DEF ClearLast, ClearSteps
<1>3. /\ svc' \in [ScmEngines -> SvcStates] /\ overlooked' \subseteq ScmEngines
      /\ conf' \in [Protocols -> BOOLEAN] /\ temp' \in [Protocols -> BOOLEAN]
      /\ xray' \in {None, xray} /\ orphan' = orphan /\ held' = FALSE
      /\ (held => xray' = None) /\ Engaged' \subseteq Engaged
      /\ \A j \in ScmEngines : Live(j)' => Live(j)
      /\ \A j \in Protocols : j # "VlessReality" => conf'[j] = conf[j] /\ temp'[j] = temp[j]
      /\ ok => ~conf'["VlessReality"] /\ ~temp'["VlessReality"]
  <2>1. TypeOK /\ "VlessReality" \in Protocols
    BY Names DEF BackendIInv
  <2> QED
    BY <1>1, <2>1, CleanEffect
<1>4. xray' = None
  BY <1>2, <1>3 DEF BackendIInv, ProcessInv
<1>5. TypeOK'
  <2>1. failed' \in BOOLEAN
    BY <1>1 DEF BackendIInv, TypeOK
  <2>2. pc' \in Steps /\ xray' \in {None, "loose", "jobbed"}
    BY <1>2, <1>4 DEF Steps, ConnectSteps
  <2> QED
    BY <1>2, <1>3, <2>1, <2>2 DEF BackendIInv, TypeOK
<1>6. ProcessInv'
  BY <1>4 DEF ProcessInv, None
<1>7. pc' \in {"idle", "cleanup"} /\ (pc' = "cleanup" => ~failed' /\ call.op # "disconnect")
  BY <1>2
<1>8. CallInv'
  BY <1>2, <1>7 DEF BackendIInv, CallInv, BootSteps, ClearSteps, ConnectSteps, TypeOK, Ops
<1>9. CleanedInv'
  BY <1>7 DEF CleanedInv, Cleaned
<1>10. ASSUME ~failed'
       PROVE  Engaged' = {} /\ \A k \in Protocols : ~conf'[k] /\ ~temp'[k]
  <2>1. ok /\ ~failed /\ Cleaned = ScmEngines
    BY <1>1, <1>2, <1>10 DEF Cleaned
  <2>2. \A k \in ScmEngines : ~Live(k) /\ NoFiles(k)
    BY <2>1 DEF BackendIInv, CleanedInv
  <2>3. Engaged' = {}
    BY <1>3, <1>4, <2>2 DEF Engaged, Live
  <2>4. \A k \in Protocols : ~conf'[k] /\ ~temp'[k]
    BY <1>3, <2>1, <2>2, Names DEF NoFiles
  <2> QED
    BY <2>3, <2>4
<1>11. EngagedInv'
  <2>1. \E k \in Protocols : Engaged' \subseteq {k}
    BY <1>3 DEF BackendIInv, EngagedInv
  <2> QED
    BY <1>2, <1>7, <1>10, <2>1 DEF EngagedInv, ConnectSteps
<1>12. FilesInv'
  <2>1. call.target \in Protocols \/ pc' = "idle"
    BY <1>2, <1>7 DEF BackendIInv, CallInv, TypeOK, Ops
  <2>2. CASE failed'
    <3>1. pc' = "idle"
      BY <1>2, <2>2
    <3> QED
      BY <2>2, <3>1 DEF FilesInv, NoPlaintextAfterSuccess, ConnectSteps
  <2>3. CASE ~failed'
    <3>1. \A k \in Protocols : ~conf'[k] /\ ~temp'[k]
      BY <1>10, <2>3
    <3>2. NoPlaintextAfterSuccess'
      BY <3>1 DEF NoPlaintextAfterSuccess
    <3>3. CASE pc' = "idle"
      BY <3>2, <3>3 DEF FilesInv, ConnectSteps
    <3>4. CASE pc' = "cleanup"
      BY <1>2, <2>1, <3>1, <3>2, <3>4 DEF FilesInv, NoFiles
    <3> QED
      BY <1>7, <3>3, <3>4
  <2> QED
    BY <2>2, <2>3
<1>13. ContractStep
  <2>1. /\ ContractCall = IF call.op = "connect" THEN call.target ELSE "disconnect"
        /\ ContractCall \in Protocols \cup {"disconnect"}
    <3>1. ContractCall = IF call.op = "connect" THEN call.target ELSE "disconnect"
      BY <1>2, CallOf
    <3> QED
      BY <3>1 DEF BackendIInv, CallInv
  <2>2. CASE pc' = "cleanup"
    <3>1. call.op = "connect"
      BY <1>2, <1>7, <2>2 DEF BackendIInv, CallInv, TypeOK, Ops
    <3>2. ContractCall' = call.target /\ ContractErred' = ContractErred
      BY <1>2, <2>2, <3>1 DEF ContractCall, ContractErred, BootSteps
    <3> QED
      BY <1>3, <2>1, <3>1, <3>2, DropsOut
  <2>3. CASE pc' = "idle" /\ failed'
    <3>1. ContractCall' = "rest" /\ ContractErred' = TRUE
      BY <2>3 DEF ContractCall, ContractErred, BootSteps
    <3> QED
      BY <1>3, <2>1, <3>1, ErrReturns
  <2>4. CASE pc' = "idle" /\ ~failed'
    <3>1. ContractCall' = "rest" /\ ContractErred' = FALSE
      BY <2>4 DEF ContractCall, ContractErred, BootSteps
    <3>2. ContractCall = "disconnect"
      BY <1>2, <2>1, <2>4
    <3> QED
      BY <1>10, <2>4, <3>1, <3>2
      DEF ContractStep, Contract!Next, Contract!ReturnOk, Contract!Stop, Contract!Rest
  <2> QED
    BY <1>7, <2>2, <2>3, <2>4
<1> QED
  BY <1>5, <1>6, <1>8, <1>9, <1>11, <1>12, <1>13 DEF BackendIInv

-----------------------------------------------------------------------------
(* connect of an engine *)

\* What holds inside a connect.
LEMMA Connecting ==
  ASSUME BackendIInv, pc \in ConnectSteps
  PROVE  /\ TypeOK /\ call.target \in Protocols /\ Target = call.target
         /\ Engaged \subseteq {call.target}
         /\ \A k \in Protocols \ {call.target} : NoFiles(k)
         /\ pc \in {"cleanup", "verify", "write"} => NoFiles(call.target)
         /\ pc \notin {"rename", "undo"} => ~temp[call.target]
         /\ pc \in {"cleanup", "verify", "write", "rename", "create", "launch", "validate",
                    "spawn"} => Engaged = {}
         /\ pc \notin {"assign", "reap", "grace"} => (xray # None => held)
         /\ pc \notin {"assign", "reap"} => xray # "loose"
         /\ pc \in {"assign", "reap"} => xray # "jobbed"
         /\ pc \in {"create", "launch", "wait"} => call.target \in ScmEngines
         /\ pc \in {"validate", "spawn", "assign", "reap", "grace"} => call.target = "VlessReality"
BY DEF BackendIInv, CallInv, EngagedInv, FilesInv, ProcessInv, Target

\* A step that fails turns to the cleanup, whatever it leaves of its own engine.
LEMMA ConnectUndoes ==
  ASSUME BackendIInv, TypeOK', pc \in ConnectSteps, Goto("undo"), Engaged' \subseteq Engaged,
         xray' # None => held', xray' # "loose", conf' = conf, temp' = temp
  PROVE  BackendIInv' /\ ContractStep
<1>1. /\ Engaged \subseteq {call.target}
      /\ \A k \in Protocols \ {call.target} : NoFiles(k)
  BY Connecting
<1>2. Engaged' \subseteq {call.target}
  BY <1>1
<1>3. \A k \in Protocols \ {call.target} : NoFiles(k)'
  BY <1>1 DEF NoFiles
<1>4. BackendIInv' /\ ContractCall' = ContractCall /\ ContractErred' = ContractErred
  <2>1. "undo" \in ConnectSteps
    BY DEF ConnectSteps
  <2> QED
    BY <1>2, <1>3, <2>1, ConnectGoesOn
<1> QED
  BY <1>4, DropsOut

\* The engine cleans up for itself, and connects only when that succeeded.
LEMMA CleanupKeeps ==
  ASSUME BackendIInv, Cleanup
  PROVE  BackendIInv' /\ ContractStep
<1>1. pc = "cleanup" /\ pc \in ConnectSteps
  BY DEF Cleanup, ConnectSteps
<1>2. /\ TypeOK /\ call.target \in Protocols /\ Target = call.target
      /\ Engaged = {} /\ \A k \in Protocols \ {call.target} : NoFiles(k)
      /\ (xray # None => held) /\ xray # "loose"
  BY <1>1, Connecting
<1>3. PICK ok \in BOOLEAN :
        Clean(call.target, ok) /\ (IF ok THEN Goto("verify") ELSE Return(FALSE))
  BY <1>2 DEF Cleanup
<1>4. /\ svc' \in [ScmEngines -> SvcStates] /\ overlooked' \subseteq ScmEngines
      /\ conf' \in [Protocols -> BOOLEAN] /\ temp' \in [Protocols -> BOOLEAN]
      /\ xray' \in {None, xray} /\ orphan' = orphan /\ held' \in {FALSE, held}
      /\ call.target \in ScmEngines => xray' = xray /\ held' = held
      /\ call.target = "VlessReality" => held' = FALSE /\ (held => xray' = None)
      /\ Engaged' \subseteq Engaged
      /\ \A j \in Protocols :
           j # call.target => conf'[j] = conf[j] /\ temp'[j] = temp[j]
      /\ ok => ~conf'[call.target] /\ ~temp'[call.target]
  BY <1>2, <1>3, CleanEffect
<1>5. xray' \in {None, "loose", "jobbed"} /\ held' \in BOOLEAN /\ orphan' \in BOOLEAN
  BY <1>2, <1>4 DEF TypeOK
<1>6. xray' # "loose" /\ (xray' # None => held')
  BY <1>2, <1>4, Names DEF None
<1>7. CASE ok
  <2>1. Goto("verify")
    BY <1>3, <1>7
  <2>2. TypeOK'
    BY <1>2, <1>4, <1>5, <2>1 DEF TypeOK, Goto, Steps, ConnectSteps
  <2>3. \A k \in Protocols \ {call.target} : NoFiles(k)'
    BY <1>2, <1>4 DEF NoFiles
  <2>4. Engaged' = {}
    BY <1>2, <1>4
  <2>5. BackendIInv' /\ ContractCall' = ContractCall /\ ContractErred' = ContractErred
    <3>1. "verify" \in ConnectSteps
      BY DEF ConnectSteps
    <3> QED
      BY <1>1, <1>4, <1>6, <1>7, <2>1, <2>2, <2>3, <2>4, <3>1, ConnectGoesOn
  <2> QED
    BY <1>4, <2>5, DropsOut
<1>8. CASE ~ok
  <2>1. Return(FALSE)
    BY <1>3, <1>8
  <2>2. active' = active /\ call' = call /\ failed' = TRUE /\ pc' = "idle"
    BY <2>1 DEF Return
  <2>3. TypeOK'
    BY <1>2, <1>4, <1>5, <2>2 DEF TypeOK, Steps
  <2> QED
    BY <1>1, <1>4, <1>6, <2>1, <2>3, ConnectReturnsErr
<1> QED
  BY <1>7, <1>8

\* A step that only reads: the binaries.
LEMMA VerifyKeeps ==
  ASSUME BackendIInv, Verify
  PROVE  BackendIInv' /\ ContractStep
<1>1. /\ pc = "verify" /\ pc \in ConnectSteps
      /\ UNCHANGED <<svc, xray, orphan, held, overlooked, conf, temp>>
  BY DEF Verify, ConnectSteps, engineVars, files
<1>2. /\ TypeOK /\ call.target \in Protocols /\ Engaged = {}
      /\ \A k \in Protocols \ {call.target} : NoFiles(k)
      /\ NoFiles(call.target) /\ (xray # None => held) /\ xray # "loose"
  BY <1>1, Connecting
<1>3. Engaged' = Engaged
  BY <1>1, SameEngaged
<1>4. CASE Goto("write")
  <2>1. TypeOK'
    BY <1>1, <1>2, <1>4 DEF TypeOK, Goto, Steps, ConnectSteps
  <2>2. (\A k \in Protocols \ {call.target} : NoFiles(k)') /\ ~conf'[call.target]
        /\ ~temp'[call.target]
    BY <1>1, <1>2 DEF NoFiles
  <2>3. BackendIInv' /\ ContractCall' = ContractCall /\ ContractErred' = ContractErred
    <3>1. "write" \in ConnectSteps
      BY DEF ConnectSteps
    <3> QED
      BY <1>1, <1>2, <1>3, <1>4, <2>1, <2>2, <3>1, ConnectGoesOn
  <2> QED
    BY <1>3, <2>3, DropsOut
<1>5. CASE Return(FALSE)
  <2>1. active' = active /\ call' = call /\ failed' = TRUE /\ pc' = "idle"
    BY <1>5 DEF Return
  <2>2. TypeOK'
    BY <1>1, <1>2, <2>1 DEF TypeOK, Steps
  <2> QED
    BY <1>1, <1>2, <1>3, <1>5, <2>2, ConnectReturnsErr
<1> QED
  BY <1>4, <1>5 DEF Verify

\* The plaintext is written to the .new file of the engine that connects.
LEMMA WriteKeeps ==
  ASSUME BackendIInv, Write
  PROVE  BackendIInv' /\ ContractStep
<1>1. /\ pc = "write" /\ pc \in ConnectSteps
      /\ UNCHANGED <<svc, xray, orphan, held, overlooked, conf>>
  BY DEF Write, ConnectSteps, engineVars
<1>2. /\ TypeOK /\ call.target \in Protocols /\ Target = call.target /\ Engaged = {}
      /\ \A k \in Protocols \ {call.target} : NoFiles(k)
      /\ (xray # None => held) /\ xray # "loose"
  BY <1>1, Connecting
<1>3. Engaged' = Engaged
  BY <1>1, SameEngaged
<1>4. /\ temp' \in [Protocols -> BOOLEAN]
      /\ \A k \in Protocols \ {call.target} : temp'[k] = temp[k]
  <2>1. temp' \in {temp, [temp EXCEPT ![call.target] = TRUE]}
    BY <1>2 DEF Write
  <2> QED
    BY <1>2, <2>1 DEF TypeOK
<1>5. Goto("rename") \/ Return(FALSE)
  BY DEF Write
<1>6. CASE Goto("rename")
  <2>1. TypeOK'
    BY <1>1, <1>2, <1>4, <1>6 DEF TypeOK, Goto, Steps, ConnectSteps
  <2>2. \A k \in Protocols \ {call.target} : NoFiles(k)'
    BY <1>1, <1>2, <1>4 DEF NoFiles
  <2>3. BackendIInv' /\ ContractCall' = ContractCall /\ ContractErred' = ContractErred
    <3>1. "rename" \in ConnectSteps
      BY DEF ConnectSteps
    <3> QED
      BY <1>1, <1>2, <1>3, <1>6, <2>1, <2>2, <3>1, ConnectGoesOn
  <2> QED
    BY <1>3, <2>3, DropsOut
<1>7. CASE Return(FALSE)
  <2>1. active' = active /\ call' = call /\ failed' = TRUE /\ pc' = "idle"
    BY <1>7 DEF Return
  <2>2. TypeOK'
    BY <1>1, <1>2, <1>4, <2>1 DEF TypeOK, Steps
  <2> QED
    BY <1>1, <1>2, <1>3, <1>7, <2>2, ConnectReturnsErr
<1> QED
  BY <1>5, <1>6, <1>7

\* The .new file takes its name, or is left behind by the error.
LEMMA RenameKeeps ==
  ASSUME BackendIInv, Rename
  PROVE  BackendIInv' /\ ContractStep
<1>1. /\ pc = "rename" /\ pc \in ConnectSteps
      /\ UNCHANGED <<svc, xray, orphan, held, overlooked>>
  BY DEF Rename, ConnectSteps, engineVars
<1>2. /\ TypeOK /\ call.target \in Protocols /\ Target = call.target /\ Engaged = {}
      /\ \A k \in Protocols \ {call.target} : NoFiles(k)
      /\ (xray # None => held) /\ xray # "loose"
  BY <1>1, Connecting
<1>3. Engaged' = Engaged
  BY <1>1, SameEngaged
<1>4. CASE /\ temp' = [temp EXCEPT ![call.target] = FALSE]
           /\ conf' = [conf EXCEPT ![call.target] = TRUE]
           /\ Goto(IF call.target \in ScmEngines THEN "create" ELSE "validate")
  <2> DEFINE step == IF call.target \in ScmEngines THEN "create" ELSE "validate"
  <2>1. /\ step \in {"create", "validate"}
        /\ step = "create" => call.target \in ScmEngines
        /\ step = "validate" => call.target = "VlessReality"
    BY <1>2, Names
  <2>2. Goto(step)
    BY <1>4
  <2> HIDE DEF step
  <2>3. conf' \in [Protocols -> BOOLEAN] /\ temp' \in [Protocols -> BOOLEAN]
    BY <1>2, <1>4 DEF TypeOK
  <2>4. TypeOK'
    BY <1>1, <1>2, <2>1, <2>2, <2>3 DEF TypeOK, Goto, Steps, ConnectSteps
  <2>5. (\A k \in Protocols \ {call.target} : NoFiles(k)') /\ ~temp'[call.target]
    BY <1>2, <1>4 DEF TypeOK, NoFiles
  <2>6. BackendIInv' /\ ContractCall' = ContractCall /\ ContractErred' = ContractErred
    <3>1. step \in ConnectSteps
      BY <2>1 DEF ConnectSteps
    <3> QED
      BY <1>1, <1>2, <1>3, <2>1, <2>2, <2>4, <2>5, <3>1, ConnectGoesOn
  <2> QED
    BY <1>3, <2>6, DropsOut
<1>5. CASE Return(FALSE) /\ UNCHANGED files
  <2>1. /\ active' = active /\ call' = call /\ failed' = TRUE /\ pc' = "idle"
        /\ UNCHANGED <<conf, temp>>
    BY <1>5 DEF Return, files
  <2>2. TypeOK'
    BY <1>1, <1>2, <2>1 DEF TypeOK, Steps
  <2> QED
    BY <1>1, <1>2, <1>3, <1>5, <2>2, ConnectReturnsErr
<1> QED
  BY <1>2, <1>4, <1>5 DEF Rename

\* The service is created stopped.
LEMMA CreateKeeps ==
  ASSUME BackendIInv, Create
  PROVE  BackendIInv' /\ ContractStep
<1>1. /\ pc = "create" /\ pc \in ConnectSteps
      /\ UNCHANGED <<xray, orphan, held, overlooked, conf, temp>>
  BY DEF Create, ConnectSteps, files
<1>2. /\ TypeOK /\ call.target \in ScmEngines /\ Target = call.target /\ Engaged = {}
      /\ \A k \in Protocols \ {call.target} : NoFiles(k)
      /\ ~temp[call.target] /\ (xray # None => held) /\ xray # "loose"
  BY <1>1, Connecting
<1>3. CASE svc' = [svc EXCEPT ![call.target] = "stopped"] /\ Goto("launch")
  <2>1. svc' \in [ScmEngines -> SvcStates]
    BY <1>2, <1>3 DEF TypeOK, SvcStates
  <2>2. TypeOK'
    BY <1>1, <1>2, <1>3, <2>1 DEF TypeOK, Goto, Steps, ConnectSteps
  <2>3. \A j \in ScmEngines : Live(j)' => Live(j)
    BY <1>1, <1>2, <1>3 DEF TypeOK, Live
  <2>4. Engaged' = {}
    BY <1>1, <1>2, <2>3, EngagedLess
  <2>5. (\A k \in Protocols \ {call.target} : NoFiles(k)') /\ ~temp'[call.target]
    BY <1>1, <1>2 DEF NoFiles
  <2>6. BackendIInv' /\ ContractCall' = ContractCall /\ ContractErred' = ContractErred
    <3>1. "launch" \in ConnectSteps
      BY DEF ConnectSteps
    <3> QED
      BY <1>1, <1>2, <1>3, <2>2, <2>4, <2>5, <3>1, ConnectGoesOn
  <2> QED
    BY <1>2, <2>4, <2>6, DropsOut
<1>4. CASE UNCHANGED svc /\ Goto("undo")
  <2>1. Engaged' = Engaged
    BY <1>1, <1>4, SameEngaged
  <2>2. TypeOK'
    BY <1>1, <1>2, <1>4 DEF TypeOK, Goto, Steps, ConnectSteps
  <2> QED
    BY <1>1, <1>2, <1>4, <2>1, <2>2, ConnectUndoes
<1> QED
  BY <1>2, <1>3, <1>4 DEF Create

\* The connect engages its own engine, when nothing else is engaged.
LEMMA Engages ==
  ASSUME Engaged = {}, ContractCall \in Protocols, Engaged' \subseteq {ContractCall},
         ContractCall' = ContractCall, ContractErred' = ContractErred
  PROVE  ContractStep
<1>1. CASE Engaged' = {}
  BY <1>1, DropsOut
<1>2. CASE Engaged' # {}
  <2>1. Engaged' = {ContractCall}
    BY <1>2
  <2> QED
    BY <2>1 DEF ContractStep, Contract!Next, Contract!Engage
<1> QED
  BY <1>1, <1>2

\* The service starts: the tunnel is engaged unless the code takes it for absent.
LEMMA LaunchKeeps ==
  ASSUME BackendIInv, Launch
  PROVE  BackendIInv' /\ ContractStep
<1>1. /\ pc = "launch" /\ pc \in ConnectSteps
      /\ UNCHANGED <<xray, orphan, held, overlooked, conf, temp>>
  BY DEF Launch, ConnectSteps, files
<1>2. /\ TypeOK /\ call.target \in ScmEngines /\ Target = call.target /\ Engaged = {}
      /\ \A k \in Protocols \ {call.target} : NoFiles(k)
      /\ ~temp[call.target] /\ (xray # None => held) /\ xray # "loose"
      /\ call.target \in Protocols
  BY <1>1, Connecting
<1>3. CASE svc' = [svc EXCEPT ![call.target] = "starting"] /\ Goto("wait")
  <2>1. svc' \in [ScmEngines -> SvcStates]
    BY <1>2, <1>3 DEF TypeOK, SvcStates
  <2>2. TypeOK'
    BY <1>1, <1>2, <1>3, <2>1 DEF TypeOK, Goto, Steps, ConnectSteps
  <2>3. \A j \in ScmEngines \ {call.target} : Live(j)' => Live(j)
    BY <1>1, <1>2, <1>3 DEF TypeOK, Live
  <2>4. Engaged' \subseteq {call.target}
    <3>1. xray' = None /\ \A j \in ScmEngines : ~Live(j)
      BY <1>1, <1>2 DEF Engaged, Live
    <3> QED
      BY <2>3, <3>1 DEF Engaged, Live
  <2>5. (\A k \in Protocols \ {call.target} : NoFiles(k)') /\ ~temp'[call.target]
    BY <1>1, <1>2 DEF NoFiles
  <2>6. BackendIInv' /\ ContractCall' = ContractCall /\ ContractErred' = ContractErred
    <3>1. "wait" \in ConnectSteps
      BY DEF ConnectSteps
    <3> QED
      BY <1>1, <1>2, <1>3, <2>2, <2>4, <2>5, <3>1, ConnectGoesOn
  <2>7. ContractCall = call.target
    BY <1>1, CallOf
  <2> QED
    BY <1>2, <2>4, <2>6, <2>7, Engages
<1>4. CASE UNCHANGED svc /\ Goto("undo")
  <2>1. Engaged' = Engaged
    BY <1>1, <1>4, SameEngaged
  <2>2. TypeOK'
    BY <1>1, <1>2, <1>4 DEF TypeOK, Goto, Steps, ConnectSteps
  <2> QED
    BY <1>1, <1>2, <1>4, <2>1, <2>2, ConnectUndoes
<1> QED
  BY <1>2, <1>3, <1>4 DEF Launch

\* The connect has seen its service running, or gives up on it.
LEMMA WaitKeeps ==
  ASSUME BackendIInv, Wait
  PROVE  BackendIInv' /\ ContractStep
<1>1. /\ pc = "wait" /\ pc \in ConnectSteps
      /\ UNCHANGED <<svc, xray, orphan, held, overlooked, conf, temp>>
  BY DEF Wait, ConnectSteps, engineVars, files
<1>2. /\ TypeOK /\ call.target \in ScmEngines /\ Engaged \subseteq {call.target}
      /\ \A k \in Protocols \ {call.target} : NoFiles(k)
      /\ ~temp[call.target] /\ (xray # None => held) /\ xray # "loose"
  BY <1>1, Connecting
<1>3. Engaged' = Engaged
  BY <1>1, SameEngaged
<1>4. CASE Goto("unlink")
  <2>1. TypeOK'
    BY <1>1, <1>2, <1>4 DEF TypeOK, Goto, Steps, ConnectSteps
  <2>2. (\A k \in Protocols \ {call.target} : NoFiles(k)') /\ ~temp'[call.target]
    BY <1>1, <1>2 DEF NoFiles
  <2>3. BackendIInv' /\ ContractCall' = ContractCall /\ ContractErred' = ContractErred
    <3>1. "unlink" \in ConnectSteps
      BY DEF ConnectSteps
    <3> QED
      BY <1>1, <1>2, <1>3, <1>4, <2>1, <2>2, <3>1, ConnectGoesOn
  <2> QED
    BY <1>3, <2>3, DropsOut
<1>5. CASE Goto("undo")
  <2>1. TypeOK'
    BY <1>1, <1>2, <1>5 DEF TypeOK, Goto, Steps, ConnectSteps
  <2> QED
    BY <1>1, <1>2, <1>3, <1>5, <2>1, ConnectUndoes
<1> QED
  BY <1>4, <1>5 DEF Wait

\* Xray tests its configuration.
LEMMA ValidateKeeps ==
  ASSUME BackendIInv, Validate
  PROVE  BackendIInv' /\ ContractStep
<1>1. /\ pc = "validate" /\ pc \in ConnectSteps
      /\ UNCHANGED <<svc, xray, orphan, held, overlooked, conf, temp>>
  BY DEF Validate, ConnectSteps, engineVars, files
<1>2. /\ TypeOK /\ call.target = "VlessReality" /\ Engaged = {}
      /\ \A k \in Protocols \ {call.target} : NoFiles(k)
      /\ ~temp[call.target] /\ (xray # None => held) /\ xray # "loose"
  BY <1>1, Connecting
<1>3. Engaged' = Engaged
  BY <1>1, SameEngaged
<1>4. CASE Goto("spawn")
  <2>1. TypeOK'
    BY <1>1, <1>2, <1>4 DEF TypeOK, Goto, Steps, ConnectSteps
  <2>2. (\A k \in Protocols \ {call.target} : NoFiles(k)') /\ ~temp'[call.target]
    BY <1>1, <1>2 DEF NoFiles
  <2>3. BackendIInv' /\ ContractCall' = ContractCall /\ ContractErred' = ContractErred
    <3>1. "spawn" \in ConnectSteps
      BY DEF ConnectSteps
    <3> QED
      BY <1>1, <1>2, <1>3, <1>4, <2>1, <2>2, <3>1, ConnectGoesOn
  <2> QED
    BY <1>3, <2>3, DropsOut
<1>5. CASE Goto("undo")
  <2>1. TypeOK'
    BY <1>1, <1>2, <1>5 DEF TypeOK, Goto, Steps, ConnectSteps
  <2> QED
    BY <1>1, <1>2, <1>3, <1>5, <2>1, ConnectUndoes
<1> QED
  BY <1>4, <1>5 DEF Validate

\* The child runs: the tunnel is engaged.
LEMMA SpawnKeeps ==
  ASSUME BackendIInv, Spawn
  PROVE  BackendIInv' /\ ContractStep
<1>1. /\ pc = "spawn" /\ pc \in ConnectSteps
      /\ UNCHANGED <<svc, orphan, held, overlooked, conf, temp>>
  BY DEF Spawn, ConnectSteps, files
<1>2. /\ TypeOK /\ call.target = "VlessReality" /\ Engaged = {}
      /\ \A k \in Protocols \ {call.target} : NoFiles(k)
      /\ ~temp[call.target] /\ (xray # None => held) /\ xray # "loose"
  BY <1>1, Connecting
<1>3. CASE xray' = "loose" /\ Goto("assign")
  <2>1. TypeOK'
    BY <1>1, <1>2, <1>3 DEF TypeOK, Goto, Steps, ConnectSteps
  <2>2. Engaged' \subseteq {call.target}
    BY <1>1, <1>2 DEF Engaged
  <2>3. (\A k \in Protocols \ {call.target} : NoFiles(k)') /\ ~temp'[call.target]
    BY <1>1, <1>2 DEF NoFiles
  <2>4. BackendIInv' /\ ContractCall' = ContractCall /\ ContractErred' = ContractErred
    <3>1. "assign" \in ConnectSteps
      BY DEF ConnectSteps
    <3> QED
      BY <1>1, <1>2, <1>3, <2>1, <2>2, <2>3, <3>1, ConnectGoesOn
  <2>5. ContractCall = call.target /\ call.target \in Protocols
    BY <1>1, CallOf
  <2> QED
    BY <1>2, <2>2, <2>4, <2>5, Engages
<1>4. CASE UNCHANGED xray /\ Goto("undo")
  <2>1. Engaged' = Engaged
    BY <1>1, <1>4, SameEngaged
  <2>2. TypeOK'
    BY <1>1, <1>2, <1>4 DEF TypeOK, Goto, Steps, ConnectSteps
  <2> QED
    BY <1>1, <1>2, <1>4, <2>1, <2>2, ConnectUndoes
<1> QED
  BY <1>3, <1>4 DEF Spawn

\* The child gets into its job object, or is to be killed.
LEMMA AssignKeeps ==
  ASSUME BackendIInv, Assign
  PROVE  BackendIInv' /\ ContractStep
<1>1. /\ pc = "assign" /\ pc \in ConnectSteps
      /\ UNCHANGED <<svc, orphan, held, overlooked, conf, temp>>
  BY DEF Assign, ConnectSteps, files
<1>2. /\ TypeOK /\ call.target = "VlessReality" /\ Engaged \subseteq {call.target}
      /\ \A k \in Protocols \ {call.target} : NoFiles(k)
      /\ ~temp[call.target]
  BY <1>1, Connecting
<1>3. /\ xray' \in {None, "loose", "jobbed"} /\ (xray' # None => xray # None)
      /\ \/ Goto("grace") /\ xray' # "loose"
         \/ Goto("reap") /\ xray' # "jobbed"
  BY <1>1, <1>2, Connecting DEF Assign, None, TypeOK
<1>4. Engaged' \subseteq Engaged
  <2>1. \A j \in ScmEngines : Live(j)' => Live(j)
    BY <1>1 DEF Live
  <2> QED
    BY <1>3, <2>1, EngagedLess
<1>5. ASSUME NEW step \in {"grace", "reap"}, Goto(step),
             xray' # IF step = "grace" THEN "loose" ELSE "jobbed"
      PROVE  BackendIInv' /\ ContractStep
  <2>1. step \in ConnectSteps
    BY DEF ConnectSteps
  <2>2. TypeOK'
    BY <1>1, <1>2, <1>3, <1>5, <2>1 DEF TypeOK, Goto, Steps
  <2>3. (\A k \in Protocols \ {call.target} : NoFiles(k)') /\ ~temp'[call.target]
    BY <1>1, <1>2 DEF NoFiles
  <2>4. Engaged' \subseteq {call.target}
    BY <1>2, <1>4
  <2>5. BackendIInv' /\ ContractCall' = ContractCall /\ ContractErred' = ContractErred
    BY <1>1, <1>2, <1>5, <2>1, <2>2, <2>3, <2>4, ConnectGoesOn
  <2> QED
    BY <1>4, <2>5, DropsOut
<1> QED
  BY <1>3, <1>5

\* The child is gone, or let go.
LEMMA ReapKeeps ==
  ASSUME BackendIInv, Reap
  PROVE  BackendIInv' /\ ContractStep
<1>1. /\ pc = "reap" /\ pc \in ConnectSteps /\ xray' = None /\ Goto("undo")
      /\ UNCHANGED <<svc, held, overlooked, conf, temp>> /\ orphan' = (orphan \/ xray # None)
  BY DEF Reap, ConnectSteps, files
<1>2. TypeOK
  BY <1>1, Connecting
<1>3. Engaged' \subseteq Engaged
  BY <1>1, EngagedLess DEF Live
<1>4. orphan' \in BOOLEAN
  BY <1>1, <1>2 DEF TypeOK
<1>5. TypeOK'
  BY <1>1, <1>2, <1>4 DEF TypeOK, Goto, Steps, ConnectSteps
<1> QED
  BY <1>1, <1>3, <1>5, ConnectUndoes DEF None

\* After the grace period the engine holds the child.
LEMMA GraceKeeps ==
  ASSUME BackendIInv, Grace
  PROVE  BackendIInv' /\ ContractStep
<1>1. /\ pc = "grace" /\ pc \in ConnectSteps
      /\ UNCHANGED <<svc, orphan, overlooked, conf, temp>>
  BY DEF Grace, ConnectSteps, files
<1>2. /\ TypeOK /\ call.target = "VlessReality" /\ Engaged \subseteq {call.target}
      /\ \A k \in Protocols \ {call.target} : NoFiles(k)
      /\ ~temp[call.target]
  BY <1>1, Connecting
<1>3. Engaged' \subseteq Engaged
  <2>1. \A j \in ScmEngines : Live(j)' => Live(j)
    BY <1>1 DEF Live
  <2>2. xray' # None => xray # None
    BY DEF Grace
  <2> QED
    BY <2>1, <2>2, EngagedLess
<1>4. CASE xray = "jobbed" /\ held' = TRUE /\ UNCHANGED xray /\ Goto("unlink")
  <2>1. TypeOK'
    BY <1>1, <1>2, <1>4 DEF TypeOK, Goto, Steps, ConnectSteps
  <2>2. (\A k \in Protocols \ {call.target} : NoFiles(k)') /\ ~temp'[call.target]
    BY <1>1, <1>2 DEF NoFiles
  <2>3. Engaged' \subseteq {call.target}
    BY <1>2, <1>3
  <2>4. BackendIInv' /\ ContractCall' = ContractCall /\ ContractErred' = ContractErred
    <3>1. "unlink" \in ConnectSteps
      BY DEF ConnectSteps
    <3> QED
      BY <1>1, <1>2, <1>4, <2>1, <2>2, <2>3, <3>1, ConnectGoesOn
  <2> QED
    BY <1>3, <2>4, DropsOut
<1>5. CASE xray' = None /\ UNCHANGED held /\ Goto("undo")
  <2>1. TypeOK'
    BY <1>1, <1>2, <1>5 DEF TypeOK, Goto, Steps, ConnectSteps
  <2> QED
    BY <1>1, <1>3, <1>5, <2>1, ConnectUndoes DEF None
<1> QED
  BY <1>4, <1>5 DEF Grace

\* The plaintext is gone, and the engine becomes the active one.
LEMMA UnlinkKeeps ==
  ASSUME BackendIInv, Unlink
  PROVE  BackendIInv' /\ ContractStep
<1>1. /\ pc = "unlink" /\ pc \in ConnectSteps
      /\ UNCHANGED <<svc, xray, orphan, held, overlooked, temp>>
  BY DEF Unlink, ConnectSteps, engineVars
<1>2. /\ TypeOK /\ call.target \in Protocols /\ Target = call.target
      /\ Engaged \subseteq {call.target}
      /\ \A k \in Protocols \ {call.target} : NoFiles(k)
      /\ ~temp[call.target] /\ (xray # None => held) /\ xray # "loose"
  BY <1>1, Connecting
<1>3. Engaged' = Engaged
  BY <1>1, SameEngaged
<1>4. CASE conf' = [conf EXCEPT ![call.target] = FALSE] /\ Return(TRUE)
  <2>1. call.op = "connect"
    BY <1>1 DEF BackendIInv, CallInv
  <2>2. pc' = "idle" /\ failed' = FALSE /\ call' = call /\ active' = call.target
    BY <1>4, <2>1 DEF Return
  <2>3. conf' \in [Protocols -> BOOLEAN] /\ \A k \in Protocols : ~conf'[k] /\ ~temp'[k]
    BY <1>1, <1>2, <1>4 DEF TypeOK, NoFiles
  <2>4. TypeOK'
    BY <1>1, <1>2, <2>2, <2>3 DEF TypeOK, Steps
  <2>5. ProcessInv'
    BY <1>1, <1>2, <2>2 DEF ProcessInv, BootSteps
  <2>6. CallInv'
    BY <1>2, <2>2 DEF CallInv, BootSteps, ClearSteps, ConnectSteps
  <2>7. CleanedInv'
    BY <2>2 DEF CleanedInv, Cleaned
  <2>8. EngagedInv'
    BY <1>2, <1>3, <2>2 DEF EngagedInv, ConnectSteps
  <2>9. FilesInv'
    BY <2>2, <2>3 DEF FilesInv, NoPlaintextAfterSuccess, ConnectSteps
  <2>10. ContractStep
    <3>1. ContractCall = call.target
      BY <1>1, CallOf
    <3>2. ContractCall' = "rest" /\ ContractErred' = FALSE
      BY <2>2 DEF ContractCall, ContractErred, BootSteps
    <3> QED
      BY <1>2, <1>3, <3>1, <3>2
      DEF ContractStep, Contract!Next, Contract!ReturnOk, Contract!Rest
  <2> QED
    BY <2>4, <2>5, <2>6, <2>7, <2>8, <2>9, <2>10 DEF BackendIInv
<1>5. CASE UNCHANGED conf /\ Goto("undo")
  <2>1. TypeOK'
    BY <1>1, <1>2, <1>5 DEF TypeOK, Goto, Steps, ConnectSteps
  <2> QED
    BY <1>1, <1>2, <1>3, <1>5, <2>1, ConnectUndoes
<1> QED
  BY <1>2, <1>4, <1>5 DEF Unlink

\* The connect that failed cleans its engine, and fails whatever that did.
LEMMA UndoKeeps ==
  ASSUME BackendIInv, Undo
  PROVE  BackendIInv' /\ ContractStep
<1>1. pc = "undo" /\ pc \in ConnectSteps /\ Return(FALSE)
  BY DEF Undo, ConnectSteps
<1>2. /\ TypeOK /\ call.target \in Protocols /\ Target = call.target
      /\ (xray # None => held) /\ xray # "loose"
  BY <1>1, Connecting
<1>3. PICK ok \in BOOLEAN : Clean(call.target, ok)
  BY <1>2 DEF Undo
<1>4. /\ svc' \in [ScmEngines -> SvcStates] /\ overlooked' \subseteq ScmEngines
      /\ conf' \in [Protocols -> BOOLEAN] /\ temp' \in [Protocols -> BOOLEAN]
      /\ xray' \in {None, xray} /\ orphan' = orphan /\ held' \in {FALSE, held}
      /\ call.target \in ScmEngines => xray' = xray /\ held' = held
      /\ call.target = "VlessReality" => held' = FALSE /\ (held => xray' = None)
      /\ Engaged' \subseteq Engaged
  BY <1>2, <1>3, CleanEffect
<1>5. xray' \in {None, "loose", "jobbed"} /\ held' \in BOOLEAN /\ orphan' \in BOOLEAN
  BY <1>2, <1>4 DEF TypeOK
<1>6. xray' # "loose" /\ (xray' # None => held')
  BY <1>2, <1>4, Names DEF None
<1>7. active' = active /\ call' = call /\ failed' = TRUE /\ pc' = "idle"
  BY <1>1 DEF Return
<1>8. TypeOK'
  BY <1>2, <1>4, <1>5, <1>7 DEF TypeOK, Steps
<1> QED
  BY <1>1, <1>4, <1>6, <1>8, ConnectReturnsErr

-----------------------------------------------------------------------------
(* The operating system *)

\* What runs may stop by itself, and what starts may come up.
LEMMA LessKeeps ==
  ASSUME BackendIInv, TypeOK', \A j \in ScmEngines : Live(j)' => Live(j),
         xray' \in {None, xray},
         UNCHANGED <<held, overlooked, conf, temp, active, pc, call, failed>>
  PROVE  BackendIInv' /\ ContractStep
<1>1. Engaged' \subseteq Engaged
  BY EngagedLess
<1>2. ProcessInv'
  BY DEF BackendIInv, ProcessInv, None
<1>3. CallInv'
  BY DEF BackendIInv, CallInv
<1>4. Cleaned' = Cleaned
  BY DEF Cleaned
<1>5. CleanedInv'
  <2>1. \A k \in Cleaned : k \in ScmEngines
    BY DEF Cleaned, ScmEngines
  <2> QED
    BY <1>4, <2>1 DEF BackendIInv, CleanedInv, NoFiles
<1>6. EngagedInv'
  BY <1>1 DEF BackendIInv, EngagedInv
<1>7. FilesInv'
  BY DEF BackendIInv, FilesInv, NoFiles, NoPlaintextAfterSuccess
<1>8. ContractCall' = ContractCall /\ ContractErred' = ContractErred
  BY DEF ContractCall, ContractErred
<1>9. ContractStep
  BY <1>1, <1>8, DropsOut
<1> QED
  BY <1>2, <1>3, <1>5, <1>6, <1>7, <1>9 DEF BackendIInv

\* A tunnel service comes up, gives up or stops.
LEMMA SvcMovesKeeps ==
  ASSUME BackendIInv, NEW k \in ScmEngines, SvcMoves(k)
  PROVE  BackendIInv' /\ ContractStep
<1>1. UNCHANGED <<xray, orphan, held, overlooked, conf, temp, active, pc, call, failed>>
  BY DEF SvcMoves, files
<1>2. svc \in [ScmEngines -> SvcStates]
  BY DEF BackendIInv, TypeOK
<1>3. PICK x \in {"running", "stopped"} :
        /\ svc' = [svc EXCEPT ![k] = x]
        /\ svc[k] \in {"starting", "running", "stopping"}
  BY DEF SvcMoves
<1>4. TypeOK'
  <2>1. svc' \in [ScmEngines -> SvcStates]
    BY <1>2, <1>3 DEF SvcStates
  <2> QED
    BY <1>1, <2>1 DEF BackendIInv, TypeOK
<1>5. \A j \in ScmEngines : Live(j)' => Live(j)
  BY <1>1, <1>2, <1>3 DEF Live
<1> QED
  BY <1>1, <1>4, <1>5, LessKeeps

\* Xray ends, or what a crash left of it.
LEMMA XrayExitsKeeps ==
  ASSUME BackendIInv, XrayExits
  PROVE  BackendIInv' /\ ContractStep
<1>1. UNCHANGED <<svc, held, overlooked, conf, temp, active, pc, call, failed>>
  BY DEF XrayExits, files
<1>2. xray' \in {None, xray} /\ orphan' \in BOOLEAN
  BY DEF XrayExits, BackendIInv, TypeOK
<1>3. TypeOK'
  BY <1>1, <1>2 DEF BackendIInv, TypeOK
<1>4. \A j \in ScmEngines : Live(j)' => Live(j)
  BY <1>1 DEF Live
<1> QED
  BY <1>1, <1>2, <1>3, <1>4, LessKeeps

\* The processor is dropped between two calls: no child outlives it.
LEMMA ShutdownKeeps ==
  ASSUME BackendIInv, Shutdown
  PROVE  BackendIInv' /\ ContractStep
<1>1. PICK ok \in BOOLEAN : CleanXray(ok)
  BY DEF Shutdown
<1>2. pc = "idle" /\ pc' = "dead" /\ active' = None /\ call' = call /\ failed' = failed
  BY DEF Shutdown
<1>3. /\ svc' = svc /\ overlooked' = overlooked /\ orphan' = orphan
      /\ conf' \in [Protocols -> BOOLEAN] /\ temp' \in [Protocols -> BOOLEAN]
      /\ xray' \in {None, xray} /\ held' = FALSE /\ (held => xray' = None)
  BY <1>1, CleanXrayEffect DEF BackendIInv
<1>4. xray' = None
  BY <1>2, <1>3 DEF BackendIInv, ProcessInv
<1>5. TypeOK'
  BY <1>2, <1>3 DEF BackendIInv, TypeOK, Steps
<1>6. Engaged' \subseteq Engaged
  BY <1>3, <1>4, EngagedLess DEF Live
<1> QED
  BY <1>2, <1>4, <1>5, <1>6, GoesDown

\* The kernel closes the job; the tunnel services go on.
LEMMA CrashKeeps ==
  ASSUME BackendIInv, Crash
  PROVE  BackendIInv' /\ ContractStep
<1>1. /\ pc # "dead" /\ pc' = "dead" /\ active' = None /\ held' = FALSE /\ xray' = None
      /\ orphan' \in BOOLEAN
      /\ UNCHANGED <<svc, overlooked, conf, temp, call, failed>>
  BY DEF Crash, files, BackendIInv, TypeOK
<1>2. TypeOK'
  BY <1>1 DEF BackendIInv, TypeOK, Steps
<1>3. Engaged' \subseteq Engaged
  BY <1>1, EngagedLess DEF Live
<1> QED
  BY <1>1, <1>2, <1>3, GoesDown

-----------------------------------------------------------------------------
(* The invariant and the contract *)

\* Before the first start nothing is engaged and nothing is on disk.
LEMMA BackendInit == Init => BackendIInv /\ Contract!Init
<1> SUFFICES ASSUME Init
             PROVE  BackendIInv /\ Contract!Init
  OBVIOUS
<1>1. TypeOK
  BY DEF Init, TypeOK, Steps, SvcStates, Ops
<1>2. ProcessInv /\ CallInv
  <2>1. ProcessInv
    BY DEF Init, ProcessInv, None
  <2>2. CallInv
    BY DEF Init, CallInv, BootSteps, ClearSteps, ConnectSteps
  <2> QED
    BY <2>1, <2>2
<1>3. CleanedInv
  BY DEF Init, CleanedInv, Cleaned
<1>4. Engaged = {}
  BY NoneEngaged DEF Init, Live
<1>5. EngagedInv
  BY <1>4, Names DEF Init, EngagedInv, ConnectSteps
<1>6. FilesInv
  BY DEF Init, FilesInv, NoPlaintextAfterSuccess, ConnectSteps
<1>7. Contract!Init
  <2>1. ContractCall = "down"
    BY DEF Init, ContractCall, BootSteps
  <2>2. ContractErred = FALSE
    BY DEF Init, ContractErred
  <2> QED
    BY <1>4, <2>1, <2>2 DEF Contract!Init, Contract!Down
<1> QED
  BY <1>1, <1>2, <1>3, <1>5, <1>6, <1>7 DEF BackendIInv

\* The steps of a connect.
LEMMA ConnectStepKeeps ==
  ASSUME BackendIInv, ConnectStep
  PROVE  BackendIInv' /\ ContractStep
BY CleanupKeeps, VerifyKeeps, WriteKeeps, RenameKeeps, CreateKeeps, LaunchKeeps, WaitKeeps,
   ValidateKeeps, SpawnKeeps, AssignKeeps, ReapKeeps, GraceKeeps, UnlinkKeeps,
   UndoKeeps DEF ConnectStep

\* Each step keeps the invariant and is one of the contract's, or none.
LEMMA BackendStep == BackendIInv /\ [Next]_vars => BackendIInv' /\ ContractStep
<1> SUFFICES ASSUME BackendIInv, [Next]_vars
             PROVE  BackendIInv' /\ ContractStep
  OBVIOUS
<1>1. CASE Boot
  BY <1>1, BootKeeps
<1>2. CASE BootStep
  <2>1. "WireGuard" \in ScmEngines /\ "AmneziaWg" \in ScmEngines
    BY Names
  <2>2. CASE BootScm("WireGuard", "bootWireGuard", "bootAmneziaWg")
    BY <2>1, <2>2, BootScmKeeps
  <2>3. CASE BootScm("AmneziaWg", "bootAmneziaWg", "bootXray")
    BY <2>1, <2>3, BootScmKeeps
  <2>4. CASE BootXray
    BY <2>4, BootXrayKeeps
  <2> QED
    BY <1>2, <2>2, <2>3, <2>4 DEF BootStep
<1>3. ASSUME NEW k \in Protocols, NEW killSwitch \in BOOLEAN, Connect(k, killSwitch)
      PROVE  BackendIInv' /\ ContractStep
  <2>1. /\ pc = "idle" /\ pc' = "clearWireGuard" /\ failed' = FALSE /\ active' = active
        /\ call' = [op |-> "connect", target |-> k, killSwitch |-> killSwitch]
        /\ UNCHANGED <<engineVars, files>>
    BY <1>3 DEF Connect
  <2> QED
    BY <2>1, BeginKeeps
<1>4. CASE Disconnect
  <2>1. /\ pc = "idle" /\ pc' = "clearWireGuard" /\ failed' = FALSE /\ active' = active
        /\ call' = [op |-> "disconnect", target |-> None, killSwitch |-> FALSE]
        /\ UNCHANGED <<engineVars, files>>
    BY <1>4 DEF Disconnect
  <2> QED
    BY <2>1, BeginKeeps
<1>5. CASE ClearStep
  <2>1. "WireGuard" \in ScmEngines /\ "AmneziaWg" \in ScmEngines
    BY Names
  <2>2. CASE Clear("WireGuard", "clearWireGuard", "clearAmneziaWg")
    BY <2>1, <2>2, ClearKeeps
  <2>3. CASE Clear("AmneziaWg", "clearAmneziaWg", "clearXray")
    BY <2>1, <2>3, ClearKeeps
  <2>4. CASE ClearLast
    BY <2>4, ClearLastKeeps
  <2> QED
    BY <1>5, <2>2, <2>3, <2>4 DEF ClearStep
<1>6. CASE ConnectStep
  BY <1>6, ConnectStepKeeps
<1>7. CASE \E k \in ScmEngines : SvcMoves(k)
  BY <1>7, SvcMovesKeeps
<1>8. CASE XrayExits
  BY <1>8, XrayExitsKeeps
<1>9. CASE Shutdown
  BY <1>9, ShutdownKeeps
<1>10. CASE Crash
  BY <1>10, CrashKeeps
<1>11. CASE UNCHANGED vars
  <2>1. UNCHANGED <<svc, xray, orphan, held, overlooked, conf, temp, active, pc, call, failed>>
    BY <1>11 DEF vars
  <2>2. TypeOK'
    BY <2>1 DEF BackendIInv, TypeOK
  <2>3. \A j \in ScmEngines : Live(j)' => Live(j)
    BY <2>1 DEF Live
  <2> QED
    BY <2>1, <2>2, <2>3, LessKeeps
<1> QED
  BY <1>1, <1>2, <1>3, <1>4, <1>5, <1>6, <1>7, <1>8, <1>9, <1>10, <1>11 DEF Next

\* What the theorems below follow from.
LEMMA BackendIsInductive == Spec => []BackendIInv
BY BackendInit, BackendStep, PTL DEF Spec

\* No sequence of connects, failed cleanups, late starts, crashes and restarts
\* engages two engines, unless it takes a service that is there for absent.
THEOREM OneTunnelAtMost == Spec => []BackendInv
<1>1. BackendIInv => BackendInv
  <2> SUFFICES ASSUME BackendIInv
               PROVE  AtMostOneTunnel
    BY DEF BackendIInv, BackendInv
  <2>1. PICK k \in Protocols : Engaged \subseteq {k}
    BY DEF BackendIInv, EngagedInv
  <2>2. IsFiniteSet({k}) /\ Cardinality({k}) = 1
    BY FS_Singleton
  <2>3. Cardinality(Engaged) <= Cardinality({k}) /\ Cardinality(Engaged) \in Nat
    BY <2>1, <2>2, FS_Subset, FS_CardinalityType
  <2> QED
    BY <2>2, <2>3 DEF AtMostOneTunnel
<1> QED
  BY <1>1, BackendIsInductive, PTL

\* While the backend has an active engine no other one carries the traffic: what
\* is_connected and statistics say is said of the tunnel that runs.
THEOREM ActiveIsAlone == Spec => []ActiveIsTheOnlyTunnel
<1>1. BackendIInv => ActiveIsTheOnlyTunnel
  BY DEF BackendIInv, EngagedInv, ActiveIsTheOnlyTunnel
<1> QED
  BY <1>1, BackendIsInductive, PTL

\* A call that succeeded leaves no plaintext configuration on disk, whatever the
\* calls and crashes before it left there.
THEOREM PlaintextIsGone == Spec => []NoPlaintextAfterSuccess
<1>1. BackendIInv => NoPlaintextAfterSuccess
  BY DEF BackendIInv, FilesInv
<1> QED
  BY <1>1, BackendIsInductive, PTL

\* A child that has been assigned to its job ends with the service: what stays
\* behind was never assigned, by a crash before that or during the attempt to
\* reap it, or because that attempt failed.
THEOREM JobEndsXray == Spec => CrashTerminatesXray
<1>1. BackendIInv /\ [Next]_vars =>
        [orphan' /\ ~orphan =>
           xray = "loose" /\ active = None /\ pc \in {"assign", "reap"}]_vars
  <2> SUFFICES ASSUME BackendIInv, Next, orphan', ~orphan
               PROVE  xray = "loose" /\ active = None /\ pc \in {"assign", "reap"}
    OBVIOUS
  <2>1. Crash \/ Reap
    BY DEF Next, Boot, BootStep, BootScm, BootXray, Connect, Disconnect, ClearStep, Clear,
           ClearLast, Clean, CleanScm, CleanXray, ConnectStep, Cleanup, Verify, Write, Rename,
           Create, Launch, Wait, Validate, Spawn, Assign, Grace, Unlink, Undo, SvcMoves,
           XrayExits, Shutdown, engineVars
  <2>2. xray = "loose" /\ pc \in {"assign", "reap"}
    <3>1. CASE Crash
      BY <3>1 DEF Crash, BackendIInv, ProcessInv
    <3>2. CASE Reap
      BY <3>2 DEF Reap, BackendIInv, ProcessInv, TypeOK
    <3> QED
      BY <2>1, <3>1, <3>2
  <2>3. active = None
    BY <2>2 DEF BackendIInv, EngagedInv, ClearSteps
  <2> QED
    BY <2>2, <2>3
<1> QED
  BY <1>1, BackendIsInductive, PTL DEF Spec, CrashTerminatesXray

\* The three engines taken together keep the contract that the command processor
\* relies on: an engine is engaged only from nothing and by a connect for it, Ok from
\* disconnect means that nothing is, and a service that started found nothing.
THEOREM BackendKeepsContract == Spec => KeepsContract
<1>1. Init => Contract!Init
  BY BackendInit
<1>2. BackendIInv /\ [Next]_vars => [Contract!Next]_Contract!vars
  BY BackendStep DEF ContractStep
<1> QED
  BY <1>1, <1>2, BackendIsInductive, PTL DEF Spec, KeepsContract, Contract!Spec

=============================================================================
