------------------------------ MODULE ServerProofs ------------------------------
(***************************************************************************)
(* Proofs about Server.tla, for any set of requests, any number of starts, *)
(* with and without SSH sessions, under any signals:                       *)
(*   ServerTypeCorrect  the type invariant                                 *)
(*   ServerInvariant    the inductive invariant ServerInv                  *)
(*   OfflineStorageClosed, LateRequestsAreRefused                          *)
(*                      the safety properties it implies                   *)
(*   ServerImplementsAvailability                                          *)
(*                      the refinement of Availability.tla                 *)
(***************************************************************************)
EXTENDS Server, TLAPS

\* A signal sent to the server, from whatever process, keeps the process
\* variables in their types.
LEMMA KillType ==
  ASSUME ProcessTypeOK, NEW pid, NEW sig \in Signals, Kill(pid, sig)
  PROVE  ProcessTypeOK'
<1> USE MaxStartsAssumption, SignalRoomAssumption
<1>1. started \in Pids
  BY DEF Kill, Reaches, ProcessTypeOK
<1>2. pending' \in [Signals -> 0 .. SignalRoom]
  <2>1. CASE Queued(sig)
    BY <2>1 DEF Queued, ProcessTypeOK
  <2>2. CASE Lost(sig)
    BY <2>2 DEF Lost, ProcessTypeOK
  <2> QED
    BY <2>1, <2>2 DEF Kill
<1>3. lostTo' \subseteq Pids
  <2>1. CASE Queued(sig)
    BY <2>1 DEF Queued, ProcessTypeOK
  <2>2. CASE Lost(sig)
    BY <1>1, <2>2 DEF Lost, ProcessTypeOK
  <2> QED
    BY <2>1, <2>2 DEF Kill
<1> QED
  BY <1>1, <1>2, <1>3 DEF Kill, ProcessTypeOK, Alive

\* Taking a signal keeps the count of the waiting ones in its type.
LEMMA TakeType ==
  ASSUME ServerTypeOK, NEW sig \in Signals, Take(sig)
  PROVE  pending' \in [Signals -> 0 .. SignalRoom]
BY SignalRoomAssumption DEF Take, Waiting, ServerTypeOK, ProcessTypeOK

\* Witnessing a mode keeps the history of the requests in its type.
LEMMA WitnessType ==
  ASSUME ServerTypeOK, Witness
  PROVE  seen' \in [Requests -> SUBSET Modes]
<1>1. Mode' \in Modes
  BY DEF Mode, Modes
<1> QED
  BY <1>1 DEF Witness, ServerTypeOK

\* No signal waiting is a state of the signal queue.
LEMMA NoSignalsType == NoSignals \in [Signals -> 0 .. SignalRoom]
<1>1. 0 \in 0 .. SignalRoom
  BY SignalRoomAssumption
<1> QED
  BY <1>1 DEF NoSignals

\* The end of a process, for whatever reason, keeps the types.
LEMMA DieType ==
  ASSUME ServerTypeOK, Die
  PROVE  ServerTypeOK'
<1>1. at' \in [Requests -> Places]
  BY DEF Die, ServerTypeOK, Places
<1>2. ProcessTypeOK'
  BY NoSignalsType DEF Die, ServerTypeOK, ProcessTypeOK, Stages, Alive
<1> QED
  BY <1>1, <1>2 DEF Die, ServerTypeOK, HandlerSteps

\* A step of the handler of Stop keeps the types.
LEMMA StopType ==
  ASSUME ServerTypeOK, Stop
  PROVE  ServerTypeOK'
<1>1. ASSUME NEW sig \in Signals, BeginStop(sig) PROVE ServerTypeOK'
  <2>1. seen' \in [Requests -> SUBSET Modes]
    BY <1>1, WitnessType DEF BeginStop
  <2>2. pending' \in [Signals -> 0 .. SignalRoom]
    BY <1>1, TakeType DEF BeginStop
  <2> QED
    BY <1>1, <2>1, <2>2 DEF BeginStop, ServerTypeOK, ProcessTypeOK, Alive, HandlerSteps
<1>2. CASE MarkShuttingDown
  <2>1. seen' \in [Requests -> SUBSET Modes]
    BY <1>2, WitnessType DEF MarkShuttingDown
  <2> QED
    BY <1>2, <2>1
       DEF MarkShuttingDown, processVars, ServerTypeOK, ProcessTypeOK, Alive, HandlerSteps
<1>3. CASE CloseListeners \/ Drained \/ DrainTimeout
  BY <1>3 DEF CloseListeners, Drained, DrainTimeout, processVars, appVars, requestVars,
              ServerTypeOK, ProcessTypeOK, Alive, HandlerSteps
<1>4. CASE RemovePid
  BY <1>4, MaxStartsAssumption
     DEF RemovePid, appVars, requestVars, NoPid, ServerTypeOK, ProcessTypeOK, Alive, HandlerSteps
<1>5. CASE Exit
  BY <1>5, DieType DEF Exit
<1> QED
  BY <1>1, <1>2, <1>3, <1>4, <1>5 DEF Stop

\* A step of a request keeps the types.
LEMMA RequestType ==
  ASSUME ServerTypeOK, NEW r \in Requests, Request(r)
  PROVE  ServerTypeOK'
<1>1. Mode \in Modes
  BY DEF Mode, Modes
<1>2. ProcessTypeOK'
  BY DEF Request, Arrive, CheckShuttingDown, CheckMaintenance, Serve, Reply, processVars,
         ServerTypeOK, ProcessTypeOK, Alive
<1>3. /\ at' \in [Requests -> Places]
      /\ answer' \in [Requests -> Answers]
      /\ seen' \in [Requests -> SUBSET Modes]
  <2>1. CASE Arrive(r)
    BY <1>1, <2>1 DEF Arrive, ServerTypeOK, Places, Answers
  <2>2. CASE CheckShuttingDown(r)
    BY <2>2 DEF CheckShuttingDown, Reply, ServerTypeOK, Places, Answers
  <2>3. CASE CheckMaintenance(r)
    BY <2>3 DEF CheckMaintenance, Reply, ServerTypeOK, Places, Answers
  <2>4. CASE Serve(r)
    BY <2>4 DEF Serve, Reply, ServerTypeOK, Places, Answers
  <2> QED
    BY <2>1, <2>2, <2>3, <2>4 DEF Request
<1>4. /\ caches' \in {"empty", "filled"}
      /\ UNCHANGED <<storage, maintenanceMode, shuttingDown, debugMode, handler, cancelled>>
  BY DEF Request, Arrive, CheckShuttingDown, CheckMaintenance, Serve, Reply, appVars,
         ServerTypeOK
<1> QED
  BY <1>2, <1>3, <1>4 DEF ServerTypeOK

\* Every step keeps the types.
LEMMA TypeStep == ServerTypeOK /\ [ServerNext]_serverVars => ServerTypeOK'
<1> SUFFICES ASSUME ServerTypeOK, [ServerNext]_serverVars PROVE ServerTypeOK'
  OBVIOUS
<1> USE MaxStartsAssumption, SignalRoomAssumption
<1>1. CASE Boot
  BY <1>1, DevModeAssumption
     DEF Boot, requestVars, ServerTypeOK, ProcessTypeOK, Stages, Alive, Pids
<1>2. CASE WritePid
  BY <1>2 DEF WritePid, appVars, requestVars, ServerTypeOK, ProcessTypeOK, Stages, Alive
<1>3. CASE Register
  BY <1>3 DEF Register, appVars, requestVars, ServerTypeOK, ProcessTypeOK, Stages, Alive
<1>4. CASE Crash \/ KilledUnregistered
  BY <1>4, DieType DEF Crash, KilledUnregistered
<1>5. CASE Reload \/ ToggleDebug
  <2>1. pending' \in [Signals -> 0 .. SignalRoom]
    BY <1>5, TakeType DEF Reload, ToggleDebug, Signals, Deadly
  <2> QED
    BY <1>5, <2>1 DEF Reload, ToggleDebug, requestVars, ServerTypeOK, ProcessTypeOK, Alive
<1>6. CASE ToggleMaintenance
  <2>1. pending' \in [Signals -> 0 .. SignalRoom]
    BY <1>6, TakeType DEF ToggleMaintenance, Signals
  <2>2. seen' \in [Requests -> SUBSET Modes]
    BY <1>6, WitnessType DEF ToggleMaintenance
  <2> QED
    BY <1>6, <2>1, <2>2
       DEF ToggleMaintenance, ServerTypeOK, ProcessTypeOK, Alive, HandlerSteps
<1>7. CASE Pause
  <2>1. seen' \in [Requests -> SUBSET Modes]
    BY <1>7, WitnessType DEF Pause
  <2> QED
    BY <1>7, <2>1 DEF Pause, processVars, ServerTypeOK, ProcessTypeOK, Alive, HandlerSteps
<1>8. CASE Stop
  BY <1>8, StopType
<1>9. ASSUME NEW r \in Requests, Request(r) PROVE ServerTypeOK'
  BY <1>9, RequestType
<1>10. CASE Signalled
  <2>1. ProcessTypeOK'
    BY <1>10, KillType, OutsideAssumption DEF Signalled, ServerTypeOK
  <2> QED
    BY <1>10, <2>1 DEF Signalled, appVars, requestVars, ServerTypeOK
<1>11. CASE StorageShared
  <2>1. seen' \in [Requests -> SUBSET Modes]
    BY <1>11, WitnessType DEF StorageShared, StorageBecomes
  <2> QED
    BY <1>11, <2>1
       DEF StorageShared, StorageBecomes, processVars, ServerTypeOK, ProcessTypeOK, Alive
<1>12. CASE UNCHANGED serverVars
  BY <1>12 DEF serverVars, processVars, appVars, requestVars, ServerTypeOK, ProcessTypeOK, Alive
<1> QED
  BY <1>1, <1>2, <1>3, <1>4, <1>5, <1>6, <1>7, <1>8, <1>9, <1>10, <1>11, <1>12
     DEF ServerNext, ServerStep, HandleSignal

\* The initial states have the right types.
LEMMA TypeInit == ServerInit => ServerTypeOK
<1> SUFFICES ASSUME ServerInit PROVE ServerTypeOK
  OBVIOUS
<1>1. ProcessTypeOK
  BY MaxStartsAssumption, NoSignalsType
     DEF ServerInit, ProcessInit, ProcessTypeOK, Stages, Alive, NoPid
<1>2. /\ at \in [Requests -> Places]
      /\ answer \in [Requests -> Answers]
      /\ seen \in [Requests -> SUBSET Modes]
  BY DEF ServerInit, Places, Answers
<1> QED
  BY <1>1, <1>2 DEF ServerInit, ServerTypeOK, HandlerSteps

\* Type correctness of the server process: whatever signals arrive, in whatever
\* order with requests, crashes and restarts, every variable keeps its type.
THEOREM ServerTypeCorrect == ServerSpec => []ServerTypeOK
BY TypeInit, TypeStep, PTL DEF ServerSpec

-----------------------------------------------------------------------------
(* The inductive invariant *)

\* The parts of the invariant other than the types.
Decisions == \A r \in Requests : DecisionSeen(r)

\* A step that leaves the requests alone and witnesses the new mode keeps what
\* the requests have seen consistent with what was decided about them, as long
\* as a change of maintenanceMode is a change of mode and of nothing else.
LEMMA WitnessKeepsDecisions ==
  ASSUME ServerTypeOK, ServerTypeOK', Decisions, Witness, UNCHANGED <<at, answer>>,
         maintenanceMode' = maintenanceMode \/ (Running' /\ ~shuttingDown')
  PROVE  Decisions'
<1> SUFFICES ASSUME NEW r \in Requests PROVE DecisionSeen(r)'
  BY DEF Decisions
<1>1. DecisionSeen(r)
  BY DEF Decisions
<1>2. CASE at[r] \in Active
  <2>1. seen'[r] = seen[r] \cup {Mode'} /\ at'[r] = at[r] /\ answer'[r] = answer[r]
    BY <1>2 DEF Witness
  <2>2. CASE maintenanceMode' = maintenanceMode
    BY <1>1, <1>2, <2>1, <2>2 DEF DecisionSeen, Active
  <2>3. CASE Running' /\ ~shuttingDown'
    <3>1. /\ maintenanceMode' => Mode' = "maintenance"
          /\ ~maintenanceMode' => Mode' \in {"up", "degraded"}
      BY <2>3 DEF Mode
    <3> QED
      BY <1>1, <1>2, <2>1, <3>1 DEF DecisionSeen, Active
  <2> QED
    BY <2>2, <2>3
<1>3. CASE at[r] \notin Active
  <2>1. seen'[r] = seen[r] /\ at'[r] = at[r] /\ answer'[r] = answer[r]
    BY <1>3 DEF Witness
  <2> QED
    BY <1>1, <1>3, <2>1 DEF DecisionSeen, Active
<1> QED
  BY <1>2, <1>3

\* So does a step that changes neither the requests nor the mode.
LEMMA SameModeKeepsDecisions ==
  ASSUME Decisions, Mode' = Mode, UNCHANGED <<maintenanceMode, at, answer, seen>>
  PROVE  Decisions'
BY DEF Decisions, DecisionSeen

\* So does the end of the process.
LEMMA DieKeepsInv ==
  ASSUME ServerInv, Die
  PROVE  ServerInv'
<1>1. ServerTypeOK'
  BY DieType DEF ServerInv
<1>2. \A r \in Requests : at'[r] \notin Active
  BY DEF Die, Active
<1>3. ASSUME NEW r \in Requests PROVE DecisionSeen(r)'
  <2>1. DecisionSeen(r)
    BY DEF ServerInv
  <2>2. CASE at[r] \in Active
    <3>1. at'[r] = "dropped" /\ answer'[r] = answer[r]
      BY <2>2 DEF Die
    <3> QED
      BY <2>1, <2>2, <3>1 DEF DecisionSeen, Active
  <2>3. CASE at[r] \notin Active
    <3>1. at'[r] = at[r] /\ answer'[r] = answer[r] /\ seen'[r] = seen[r]
      BY <2>3 DEF Die
    <3> QED
      BY <2>1, <2>3, <3>1 DEF DecisionSeen, Active
  <2> QED
    BY <2>2, <2>3
<1> QED
  BY <1>1, <1>2, <1>3
     DEF Die, ServerInv, QuietUnlessRunning, FlagFollowsStop, OfflineMeansClosed

\* A step of Stop keeps the invariant: the storage is closed from the first
\* one on, and the flag goes up while the mode of before is still witnessed.
LEMMA StopKeepsInv ==
  ASSUME ServerInv, Stop
  PROVE  ServerInv'
<1>1. ServerTypeOK /\ ServerTypeOK' /\ Decisions
  BY StopType DEF ServerInv, Decisions
<1>2. ASSUME NEW sig \in Signals, BeginStop(sig) PROVE ServerInv'
  <2>1. Decisions'
    BY <1>1, <1>2, WitnessKeepsDecisions DEF BeginStop
  <2> QED
    BY <1>1, <1>2, <2>1
       DEF BeginStop, Take, Running, ServerInv, Decisions, QuietUnlessRunning, FlagFollowsStop,
           OfflineMeansClosed, Offline
<1>3. CASE MarkShuttingDown
  <2>1. Decisions'
    BY <1>1, <1>3, WitnessKeepsDecisions DEF MarkShuttingDown
  <2> QED
    BY <1>1, <1>3, <2>1
       DEF MarkShuttingDown, processVars, Running, ServerInv, Decisions, QuietUnlessRunning,
           FlagFollowsStop, OfflineMeansClosed, Offline
<1>4. CASE CloseListeners \/ Drained \/ DrainTimeout
  <2>1. UNCHANGED <<processVars, appVars, requestVars>>
    BY <1>4 DEF CloseListeners, Drained, DrainTimeout
  <2>2. Mode' = Mode
    BY <2>1 DEF Mode, Running, processVars, appVars
  <2>3. Decisions'
    BY <1>1, <2>1, <2>2, SameModeKeepsDecisions DEF appVars, requestVars
  <2> QED
    BY <1>1, <1>4, <2>1, <2>3
       DEF CloseListeners, Drained, DrainTimeout, processVars, appVars, requestVars, Running,
           ServerInv, Decisions, QuietUnlessRunning, FlagFollowsStop, OfflineMeansClosed, Offline
<1>5. CASE RemovePid
  <2>1. Mode' = Mode
    BY <1>5 DEF RemovePid, Mode, Running, appVars
  <2>2. Decisions'
    BY <1>1, <1>5, <2>1, SameModeKeepsDecisions DEF RemovePid, appVars, requestVars
  <2> QED
    BY <1>1, <1>5, <2>2
       DEF RemovePid, appVars, requestVars, Running,
           ServerInv, Decisions, QuietUnlessRunning, FlagFollowsStop, OfflineMeansClosed, Offline
<1>6. CASE Exit
  BY <1>6, DieKeepsInv DEF Exit
<1> QED
  BY <1>2, <1>3, <1>4, <1>5, <1>6 DEF Stop

\* A step of a request keeps the invariant.
LEMMA RequestKeepsInv ==
  ASSUME ServerInv, NEW q \in Requests, Request(q)
  PROVE  ServerInv'
<1>1. ServerTypeOK /\ ServerTypeOK' /\ Decisions
  BY RequestType DEF ServerInv, Decisions
<1>2. UNCHANGED <<processVars, storage, maintenanceMode, shuttingDown, handler>>
  BY DEF Request, Arrive, CheckShuttingDown, CheckMaintenance, Serve, Reply, appVars
<1>3. Mode' = Mode
  BY <1>2 DEF Mode, Running, processVars
<1>4. Running
  BY DEF Request, Arrive, CheckShuttingDown, CheckMaintenance, Serve, Listening, ServerInv,
         QuietUnlessRunning, Active
<1>5. ASSUME NEW r \in Requests, r # q PROVE DecisionSeen(r)'
  <2>1. at'[r] = at[r] /\ answer'[r] = answer[r] /\ seen'[r] = seen[r]
    BY <1>1, <1>5
       DEF Request, Arrive, CheckShuttingDown, CheckMaintenance, Serve, Reply, ServerTypeOK
  <2> QED
    BY <1>1, <1>2, <1>3, <2>1 DEF Decisions, DecisionSeen
<1>6. DecisionSeen(q)'
  <2>1. DecisionSeen(q)
    BY <1>1 DEF Decisions
  <2>2. CASE Arrive(q)
    <3>1. at'[q] = "arrived" /\ answer'[q] = "none" /\ seen'[q] = {Mode}
      BY <1>1, <2>2 DEF Arrive, ServerTypeOK
    <3> QED
      BY <1>3, <3>1 DEF DecisionSeen
  <2>3. CASE CheckShuttingDown(q)
    <3>1. seen'[q] = seen[q] /\ Mode \in seen[q] /\ answer[q] = "none"
      BY <2>1, <2>3 DEF CheckShuttingDown, Reply, DecisionSeen, Active
    <3>2. CASE shuttingDown
      <4>1. at'[q] = "answered" /\ answer'[q] = "shuttingDown"
        BY <1>1, <2>3, <3>2 DEF CheckShuttingDown, Reply, ServerTypeOK
      <4>2. Mode = "stopping"
        BY <1>4, <3>2 DEF Mode
      <4> QED
        BY <3>1, <4>1, <4>2 DEF DecisionSeen, Active, Gate!Justified
    <3>3. CASE ~shuttingDown
      <4>1. at'[q] = "passed" /\ answer'[q] = "none"
        BY <1>1, <2>3, <3>1, <3>3 DEF CheckShuttingDown, ServerTypeOK
      <4>2. /\ maintenanceMode => Mode = "maintenance"
            /\ ~maintenanceMode => Mode \in {"up", "degraded"}
        BY <1>4, <3>3 DEF Mode
      <4> QED
        BY <1>2, <1>3, <3>1, <4>1, <4>2 DEF DecisionSeen, Active
    <3> QED
      BY <3>2, <3>3
  <2>4. CASE CheckMaintenance(q)
    <3>1. seen'[q] = seen[q] /\ Mode \in seen[q] /\ answer[q] = "none"
      BY <2>1, <2>4 DEF CheckMaintenance, Reply, DecisionSeen, Active
    <3>2. CASE maintenanceMode
      <4>1. at'[q] = "answered" /\ answer'[q] = "outOfOrder"
        BY <1>1, <2>4, <3>2 DEF CheckMaintenance, Reply, ServerTypeOK
      <4>2. "maintenance" \in seen[q]
        BY <2>1, <2>4, <3>2 DEF CheckMaintenance, DecisionSeen
      <4> QED
        BY <3>1, <4>1, <4>2 DEF DecisionSeen, Active, Gate!Justified
    <3>3. CASE ~maintenanceMode
      <4>1. at'[q] = "admitted" /\ answer'[q] = "none"
        BY <1>1, <2>4, <3>1, <3>3 DEF CheckMaintenance, ServerTypeOK
      <4>2. seen[q] \cap {"up", "degraded"} # {}
        BY <2>1, <2>4, <3>3 DEF CheckMaintenance, DecisionSeen
      <4> QED
        BY <1>3, <3>1, <4>1, <4>2 DEF DecisionSeen, Active
    <3> QED
      BY <3>2, <3>3
  <2>5. CASE Serve(q)
    <3>1. /\ seen'[q] = seen[q] /\ Mode \in seen[q]
          /\ seen[q] \cap {"up", "degraded"} # {}
      BY <2>1, <2>5 DEF Serve, Reply, DecisionSeen, Active
    <3>2. /\ at'[q] = "answered"
          /\ answer'[q] = "served" \/ (answer'[q] = "failed" /\ storage = "closed")
      BY <1>1, <2>5 DEF Serve, Reply, ServerTypeOK
    <3>3. storage = "closed" => Mode # "up"
      BY DEF Mode
    <3> QED
      BY <3>1, <3>2, <3>3 DEF DecisionSeen, Active, Gate!Justified
  <2> QED
    BY <2>2, <2>3, <2>4, <2>5 DEF Request
<1> QED
  BY <1>1, <1>2, <1>4, <1>5, <1>6
     DEF processVars, Running, ServerInv, QuietUnlessRunning, FlagFollowsStop,
         OfflineMeansClosed, Offline

\* A server that has not started serves nobody, so nothing it does until it
\* registers its handlers concerns a request.
LEMMA StartKeepsInv ==
  ASSUME ServerInv, ServerTypeOK', Boot \/ WritePid \/ Register
  PROVE  ServerInv'
<1>1. ~Running /\ UNCHANGED <<maintenanceMode, shuttingDown, handler, at, answer, seen>>
  BY DEF Boot, WritePid, Register, Alive, Running, appVars, requestVars
<1>2. ASSUME NEW r \in Requests PROVE DecisionSeen(r)'
  BY <1>1 DEF ServerInv, QuietUnlessRunning, DecisionSeen, Active
<1> QED
  BY <1>1, <1>2
     DEF ServerInv, QuietUnlessRunning, FlagFollowsStop, OfflineMeansClosed, Offline

\* A signal that reaches the server changes nothing the invariant is about but
\* what waits for the handler, whoever sent it.
LEMMA KillKeepsInv ==
  ASSUME ServerInv, NEW pid, NEW sig \in Signals, Kill(pid, sig),
         UNCHANGED <<appVars, handler, requestVars>>
  PROVE  ServerInv'
<1>1. server' = server
  BY DEF Kill
<1>2. ServerTypeOK'
  <2>1. ProcessTypeOK'
    BY KillType DEF ServerInv, ServerTypeOK
  <2> QED
    BY <2>1 DEF appVars, requestVars, ServerInv, ServerTypeOK
<1>3. Mode' = Mode
  BY <1>1 DEF Mode, Running, appVars
<1>4. Decisions'
  BY <1>3, SameModeKeepsDecisions DEF ServerInv, Decisions, appVars, requestVars
<1> QED
  BY <1>1, <1>2, <1>4
     DEF appVars, requestVars, Running, ServerInv, Decisions, QuietUnlessRunning,
         FlagFollowsStop, OfflineMeansClosed, Offline

\* Every step keeps the invariant.
LEMMA InvStep == ServerInv /\ [ServerNext]_serverVars => ServerInv'
<1> SUFFICES ASSUME ServerInv, [ServerNext]_serverVars PROVE ServerInv'
  OBVIOUS
<1>1. ServerTypeOK /\ ServerTypeOK' /\ Decisions
  BY TypeStep DEF ServerInv, Decisions
<1>2. CASE Boot \/ WritePid \/ Register
  BY <1>1, <1>2, StartKeepsInv
<1>3. CASE Crash \/ KilledUnregistered
  BY <1>3, DieKeepsInv DEF Crash, KilledUnregistered
<1>4. CASE Reload \/ ToggleDebug
  <2>1. Mode' = Mode
    BY <1>4 DEF Reload, ToggleDebug, Mode, Running
  <2>2. Decisions'
    BY <1>4, <1>1, <2>1, SameModeKeepsDecisions DEF Reload, ToggleDebug, requestVars
  <2> QED
    BY <1>1, <1>4, <2>2
       DEF Reload, ToggleDebug, requestVars, Running, ServerInv, Decisions, QuietUnlessRunning,
           FlagFollowsStop, OfflineMeansClosed, Offline
<1>5. CASE ToggleMaintenance
  <2>1. Running' /\ ~shuttingDown'
    BY <1>5 DEF ToggleMaintenance, Take, Running, ServerInv, FlagFollowsStop
  <2>2. Decisions'
    BY <1>1, <1>5, <2>1, WitnessKeepsDecisions DEF ToggleMaintenance
  <2> QED
    BY <1>1, <1>5, <2>1, <2>2
       DEF ToggleMaintenance, Take, Running, ServerInv, Decisions, QuietUnlessRunning,
           FlagFollowsStop, OfflineMeansClosed, Offline
<1>6. CASE Pause
  <2>1. Decisions'
    BY <1>1, <1>6, WitnessKeepsDecisions DEF Pause
  <2> QED
    BY <1>1, <1>6, <2>1
       DEF Pause, processVars, Running, ServerInv, Decisions, QuietUnlessRunning,
           FlagFollowsStop, OfflineMeansClosed, Offline
<1>7. CASE Stop
  BY <1>7, StopKeepsInv
<1>8. ASSUME NEW r \in Requests, Request(r) PROVE ServerInv'
  BY <1>8, RequestKeepsInv
<1>9. CASE Signalled
  BY <1>9, KillKeepsInv, OutsideAssumption DEF Signalled
<1>10. CASE StorageShared
  <2>1. Decisions'
    BY <1>1, <1>10, WitnessKeepsDecisions DEF StorageShared, StorageBecomes
  <2> QED
    BY <1>1, <1>10, <2>1
       DEF StorageShared, StorageBecomes, processVars, Running, ServerInv, Decisions,
           QuietUnlessRunning, FlagFollowsStop, OfflineMeansClosed, Offline
<1>11. CASE UNCHANGED serverVars
  <2>1. UNCHANGED <<processVars, appVars, handler, requestVars>>
    BY <1>11 DEF serverVars
  <2>2. Mode' = Mode
    BY <2>1 DEF Mode, Running, processVars, appVars
  <2>3. Decisions'
    BY <1>1, <2>1, <2>2, SameModeKeepsDecisions DEF appVars, requestVars
  <2> QED
    BY <1>1, <2>1, <2>3
       DEF processVars, appVars, requestVars, Running, ServerInv, Decisions, QuietUnlessRunning,
           FlagFollowsStop, OfflineMeansClosed, Offline
<1> QED
  BY <1>2, <1>3, <1>4, <1>5, <1>6, <1>7, <1>8, <1>9, <1>10, <1>11
     DEF ServerNext, ServerStep, HandleSignal

\* The invariant holds at the start.
LEMMA InvInit == ServerInit => ServerInv
<1> SUFFICES ASSUME ServerInit PROVE ServerInv
  OBVIOUS
<1>1. ASSUME NEW r \in Requests PROVE at[r] = "idle" /\ answer[r] = "none"
  BY DEF ServerInit
<1>2. ASSUME NEW r \in Requests PROVE DecisionSeen(r)
  BY <1>1 DEF DecisionSeen, Active
<1> QED
  BY <1>1, <1>2, TypeInit
     DEF ServerInit, ProcessInit, Running, ServerInv, QuietUnlessRunning, FlagFollowsStop,
         OfflineMeansClosed, Offline, Active

\* ServerInv is an invariant: at every moment, what each request has seen of
\* the server explains what OutOfOrderMw decided about it, and the storage is
\* closed whenever maintenance or the shutdown is under way.
THEOREM ServerInvariant == ServerSpec => []ServerInv
BY InvInit, InvStep, PTL DEF ServerSpec

\* Without SSH sessions the storage is closed for as long as the server is in
\* settled maintenance or stopping: what Pause and Stop promise the commands.
THEOREM OfflineStorageClosed == ServerSpec => []OfflineMeansClosed
<1>1. ServerInv => OfflineMeansClosed
  BY DEF ServerInv
<1> QED
  BY <1>1, ServerInvariant, PTL

\* The invariant leaves a request that has seen nothing but the shutdown only
\* one answer.
LEMMA InvRefusesLate == ServerInv => LateRequestsRefused
<1> SUFFICES ASSUME ServerInv, NEW r \in Requests, seen[r] = {"stopping"}
             PROVE  /\ at[r] \notin {"passed", "admitted"}
                    /\ answer[r] \in {"none", "shuttingDown"}
  BY DEF LateRequestsRefused
<1>1. DecisionSeen(r) /\ maintenanceMode \in BOOLEAN
  BY DEF ServerInv, ServerTypeOK
<1>2. seen[r] \cap {"up", "degraded"} = {} /\ "maintenance" \notin seen[r]
  OBVIOUS
<1>3. at[r] \notin {"passed", "admitted"}
  BY <1>1, <1>2 DEF DecisionSeen
<1>4. answer[r] \in {"none", "shuttingDown"}
  BY <1>1, <1>2 DEF DecisionSeen, Gate!Justified
<1> QED
  BY <1>3, <1>4

\* A request that arrives after Stop has raised shuttingDown is never let
\* through and never answered anything but errShuttingDown.
THEOREM LateRequestsAreRefused == ServerSpec => []LateRequestsRefused
BY InvRefusesLate, ServerInvariant, PTL

-----------------------------------------------------------------------------
(* The server implements Availability *)

\* The abstract state of a request.
State(r) == IF at[r] \in Active THEN "open" ELSE at[r]

\* A request is open in the abstract state iff it is in progress.
LEMMA OpenIsActive ==
  ASSUME ServerTypeOK, NEW r \in Requests
  PROVE  State(r) = "open" <=> at[r] \in Active
BY DEF ServerTypeOK, Places, State

\* A step that leaves the requests alone and witnesses the new mode is a change
\* of mode of the abstract server, or no step of it.
LEMMA WitnessIsChange ==
  ASSUME ServerInv, Witness, UNCHANGED <<at, answer>>,
         Mode' = Mode \/ <<Mode, Mode'>> \in Gate!Changes
  PROVE  [Gate!Next]_Gate!vars
<1>1. CASE Mode' = Mode
  <2>1. ASSUME NEW r \in Requests
        PROVE  (IF at[r] \in Active THEN seen[r] \cup {Mode'} ELSE seen[r]) = seen[r]
    BY <1>1 DEF ServerInv, DecisionSeen
  <2>2. seen' = [r \in Requests |-> seen[r]]
    BY <2>1 DEF Witness
  <2>3. seen' = seen
    BY <2>2 DEF ServerInv, ServerTypeOK
  <2> QED
    BY <1>1, <2>3 DEF Gate!vars
<1>2. CASE <<Mode, Mode'>> \in Gate!Changes
  <2>1. ASSUME NEW r \in Requests
        PROVE  (IF at[r] \in Active THEN "open" ELSE at[r]) = "open" <=> at[r] \in Active
    BY OpenIsActive DEF ServerInv, State
  <2>2. Gate!Change
    BY <1>2, <2>1 DEF Gate!Change, Witness
  <2> QED
    BY <2>2 DEF Gate!Next
<1> QED
  BY <1>1, <1>2

\* A step that changes neither mode nor requests is no step of the abstract
\* server.
LEMMA SameModeIsStutter ==
  ASSUME Mode' = Mode, UNCHANGED <<at, answer, seen>>
  PROVE  UNCHANGED Gate!vars
BY DEF Gate!vars

\* A signal that reaches the server is no step of the abstract server.
LEMMA KillIsStutter ==
  ASSUME NEW pid, NEW sig, Kill(pid, sig), UNCHANGED <<appVars, handler, requestVars>>
  PROVE  UNCHANGED Gate!vars
<1>1. Mode' = Mode /\ UNCHANGED <<at, answer, seen>>
  BY DEF Kill, Mode, Running, appVars, requestVars
<1> QED
  BY <1>1, SameModeIsStutter

\* The end of the process is the end of the abstract server.
LEMMA DieIsEnd ==
  ASSUME ServerInv, Die
  PROVE  [Gate!Next]_Gate!vars
<1>1. Mode' = "down"
  BY DEF Die, Mode, Running
<1>2. ASSUME NEW r \in Requests
      PROVE  (IF at'[r] \in Active THEN "open" ELSE at'[r])
               = (IF (IF at[r] \in Active THEN "open" ELSE at[r]) = "open"
                  THEN "dropped" ELSE (IF at[r] \in Active THEN "open" ELSE at[r]))
  <2>1. State(r) = "open" <=> at[r] \in Active
    BY OpenIsActive DEF ServerInv
  <2>2. at'[r] = IF at[r] \in Active THEN "dropped" ELSE at[r]
    BY DEF Die
  <2> QED
    BY <2>1, <2>2 DEF State, Active
<1>3. Gate!End
  BY <1>1, <1>2 DEF Gate!End, Die
<1> QED
  BY <1>3 DEF Gate!Next

\* A step of a request is an arrival or an answer of the abstract request, or
\* no step of it.
LEMMA RequestIsRequest ==
  ASSUME ServerInv, ServerInv', NEW q \in Requests, Request(q)
  PROVE  [Gate!Next]_Gate!vars
<1> DEFINE state  == [r \in Requests |-> IF at[r] \in Active THEN "open" ELSE at[r]]
           state1 == [r \in Requests |-> IF at'[r] \in Active THEN "open" ELSE at'[r]]
<1>1. UNCHANGED <<processVars, storage, maintenanceMode, shuttingDown, handler>>
  BY DEF Request, Arrive, CheckShuttingDown, CheckMaintenance, Serve, Reply, appVars
<1>2. Mode' = Mode
  BY <1>1 DEF Mode, Running, processVars
<1>3. ServerTypeOK /\ DecisionSeen(q)'
  BY DEF ServerInv
<1>4. CASE Arrive(q)
  <2>1. Mode # "down" /\ state[q] # "open"
    BY <1>3, <1>4, OpenIsActive DEF Arrive, Listening, Mode, State
  <2>2. state1 = [state EXCEPT ![q] = "open"]
    BY <1>3, <1>4 DEF Arrive, ServerTypeOK, Active
  <2>3. Gate!Arrive(q)
    BY <1>2, <1>4, <2>1, <2>2 DEF Arrive, Gate!Arrive
  <2> QED
    BY <2>3 DEF Gate!Next
<1>5. CASE at[q] \in Active /\ at'[q] = "answered"
  <2>1. /\ at' = [at EXCEPT ![q] = "answered"] /\ UNCHANGED seen
        /\ \E a \in Answers : answer' = [answer EXCEPT ![q] = a]
    BY <1>3, <1>5
       DEF Request, Arrive, CheckShuttingDown, CheckMaintenance, Serve, Reply, Answers, ServerTypeOK
  <2>2. PICK a \in Answers : answer' = [answer EXCEPT ![q] = a]
    BY <2>1
  <2>3. a \in Gate!Justified(seen[q])
    BY <1>3, <1>5, <2>1, <2>2 DEF DecisionSeen, ServerTypeOK
  <2>4. state[q] = "open" /\ state1 = [state EXCEPT ![q] = "answered"]
    BY <1>3, <1>5, <2>1 DEF ServerTypeOK, Active
  <2>5. Gate!Answer(q)
    BY <1>2, <2>1, <2>2, <2>3, <2>4 DEF Gate!Answer
  <2> QED
    BY <2>5 DEF Gate!Next
<1>6. CASE ~Arrive(q) /\ ~(at[q] \in Active /\ at'[q] = "answered")
  <2>1. at[q] \in Active /\ UNCHANGED <<answer, seen>>
        /\ (at' = [at EXCEPT ![q] = "passed"] \/ at' = [at EXCEPT ![q] = "admitted"])
    BY <1>3, <1>6
       DEF Request, CheckShuttingDown, CheckMaintenance, Serve, Reply, Active, ServerTypeOK
  <2>2. state1 = state
    BY <1>3, <2>1 DEF ServerTypeOK, Active
  <2> QED
    BY <1>2, <2>1, <2>2 DEF Gate!vars
<1> QED
  BY <1>4, <1>5, <1>6

\* Every step of the server is a step of the abstract server or none.
LEMMA StepSimulation ==
  ServerInv /\ ServerInv' /\ [ServerNext]_serverVars => [Gate!Next]_Gate!vars
<1> SUFFICES ASSUME ServerInv, ServerInv', [ServerNext]_serverVars
             PROVE  [Gate!Next]_Gate!vars
  OBVIOUS
<1>1. ServerTypeOK /\ QuietUnlessRunning /\ FlagFollowsStop /\ OfflineMeansClosed
  BY DEF ServerInv
<1>2. CASE Boot \/ WritePid
  <2>1. Mode' = Mode /\ UNCHANGED <<at, answer, seen>>
    BY <1>2 DEF Boot, WritePid, Mode, Running, Alive, appVars, requestVars
  <2> QED
    BY <2>1, SameModeIsStutter
<1>3. CASE Register
  <2>1. Mode = "down" /\ Mode' \in {"up", "degraded"} /\ UNCHANGED <<at, answer, seen>>
    BY <1>1, <1>3 DEF Register, Mode, Running, QuietUnlessRunning, appVars, requestVars
  <2>2. Witness
    BY <1>1, <1>3, <2>1 DEF Register, Witness, QuietUnlessRunning, Running, ServerTypeOK
  <2> QED
    BY <2>1, <2>2, WitnessIsChange DEF Gate!Changes
<1>4. CASE Crash \/ KilledUnregistered
  BY <1>4, DieIsEnd DEF Crash, KilledUnregistered
<1>5. CASE Reload \/ ToggleDebug
  <2>1. Mode' = Mode /\ UNCHANGED <<at, answer, seen>>
    BY <1>5 DEF Reload, ToggleDebug, Mode, Running, requestVars
  <2> QED
    BY <2>1, SameModeIsStutter
<1>6. CASE ToggleMaintenance
  <2>1. <<Mode, Mode'>> \in Gate!Changes
    BY <1>1, <1>6, SSHBuildAssumption
       DEF ToggleMaintenance, Take, Running, Mode, FlagFollowsStop, OfflineMeansClosed, Offline,
           ServerTypeOK, Gate!Changes
  <2> QED
    BY <1>6, <2>1, WitnessIsChange DEF ToggleMaintenance
<1>7. CASE Pause
  <2>1. Mode' = Mode \/ <<Mode, Mode'>> \in Gate!Changes
    BY <1>1, <1>7 DEF Pause, processVars, Running, Mode, ServerTypeOK, Gate!Changes
  <2> QED
    BY <1>7, <2>1, WitnessIsChange DEF Pause
<1>8. ASSUME NEW sig \in Signals, BeginStop(sig) PROVE [Gate!Next]_Gate!vars
  <2>1. Mode' = Mode \/ <<Mode, Mode'>> \in Gate!Changes
    BY <1>1, <1>8 DEF BeginStop, Take, Running, Mode, ServerTypeOK, Gate!Changes
  <2> QED
    BY <1>8, <2>1, WitnessIsChange DEF BeginStop
<1>9. CASE MarkShuttingDown
  <2>1. <<Mode, Mode'>> \in Gate!Changes
    BY <1>1, <1>9, SSHBuildAssumption
       DEF MarkShuttingDown, processVars, Running, Mode, QuietUnlessRunning, FlagFollowsStop,
           OfflineMeansClosed, Offline, ServerTypeOK, Gate!Changes
  <2> QED
    BY <1>9, <2>1, WitnessIsChange DEF MarkShuttingDown
<1>10. CASE CloseListeners \/ Drained \/ DrainTimeout \/ RemovePid
  <2>1. Mode' = Mode /\ UNCHANGED <<at, answer, seen>>
    BY <1>10
       DEF CloseListeners, Drained, DrainTimeout, RemovePid, Mode, Running, processVars, appVars,
           requestVars
  <2> QED
    BY <2>1, SameModeIsStutter
<1>11. CASE Exit
  BY <1>11, DieIsEnd DEF Exit
<1>12. ASSUME NEW r \in Requests, Request(r) PROVE [Gate!Next]_Gate!vars
  BY <1>12, RequestIsRequest
<1>13. CASE Signalled
  BY <1>13, KillIsStutter DEF Signalled
<1>14. CASE StorageShared
  <2>1. Mode' = Mode \/ <<Mode, Mode'>> \in Gate!Changes
    BY <1>1, <1>14
       DEF StorageShared, StorageBecomes, processVars, Running, Mode, ServerTypeOK, Gate!Changes
  <2> QED
    BY <1>14, <2>1, WitnessIsChange DEF StorageShared, StorageBecomes
<1>15. CASE UNCHANGED serverVars
  <2>1. Mode' = Mode /\ UNCHANGED <<at, answer, seen>>
    BY <1>15 DEF serverVars, processVars, appVars, requestVars, Mode, Running
  <2> QED
    BY <2>1, SameModeIsStutter
<1> QED
  BY <1>2, <1>3, <1>4, <1>5, <1>6, <1>7, <1>8, <1>9, <1>10, <1>11, <1>12, <1>13, <1>14, <1>15
     DEF ServerNext, ServerStep, HandleSignal, Stop

\* The initial states of the server are initial states of the abstract one.
LEMMA InitSimulation == ServerInit => Gate!Init
BY DEF ServerInit, ProcessInit, Mode, Running, Active, Gate!Init

\* The server implements Availability: although a request is decided upon in
\* unsynchronised steps, between which signal handlers run, every answer it
\* gets is justified by a mode the server was in during the request.
THEOREM ServerImplementsAvailability == ServerSpec => ImplementsAvailability
BY InitSimulation, StepSimulation, ServerInvariant, PTL
   DEF ServerSpec, ImplementsAvailability, Gate!Spec

=============================================================================
