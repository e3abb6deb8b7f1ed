--------------------------- MODULE AppHostProofs ----------------------------
(***************************************************************************)
(* Theorems about AppHost, for any number of clients that take turns: the  *)
(* service executes what SystemChange allows, and an OK is about the       *)
(* request it answers.  RequestPhase follows a request through the client, *)
(* the pipe and the handler.  And about AppHostService, for any number of  *)
(* administrators whose commands interleave.                               *)
(***************************************************************************)
EXTENDS AppHost, AppHostService, SystemChangeProofs

ClientPc == {"idle", "health", "startService", "connect", "reconnect", "wait", "rewait",
             "restart", "restarted", "dead"}

AppTypeOK ==
    /\ client \in [Client -> ClientPc]
    /\ req \in [Client -> Request \cup {NoRequest}]
    /\ pipe \in [Client -> PipeState]

\* What a request that was answered with OK has done.
Carried(r) ==
    IF r[1] = "apply" THEN Holds(rollback) /\ rollback.kind = KindOf(r[2])
                      ELSE rollback = NoFile

RequestPhase(c) ==
    /\ client[c] = "idle" => pipe[c] = "none"
    /\ client[c] # "idle" => req[c] \in Request
    /\ client[c] \in {"health", "startService", "connect", "reconnect", "restart", "restarted"}
          => pipe[c] = "none"
    /\ pipe[c] = "handling" <=> job[c] # Idle
    /\ job[c] # Idle => /\ job[c].op = req[c][1] /\ job[c].target = req[c][2]
                        /\ job[c].pc # "dispatch"
    /\ job[c].pc = "ok" \/ pipe[c] = "ok" => Carried(req[c])

OneAsks == \A c, d \in Client : client[c] # "idle" /\ client[d] # "idle" => c = d

AppIInv ==
    /\ SysIInv
    /\ AppTypeOK
    /\ OneAsks
    /\ \A a \in Actor \ Client : job[a] = Idle
    /\ \A c \in Client : RequestPhase(c)

-----------------------------------------------------------------------------
(* A call that has succeeded has done what it was for: Apply has its       *)
(* rollback state on disk, Restore has removed it.                         *)
LEMMA OkIsTrue ==
    ASSUME SysIInv, NEW a \in Actor, Working(a), job'[a].pc = "ok"
    PROVE  /\ job[a].op = "apply" => /\ Holds(rollback')
                                     /\ rollback'.kind = KindOf(job[a].target)
           /\ job[a].op = "restore" => rollback' = NoFile
  <1>0. /\ job \in [Actor -> JobType] /\ ApplyPhase(a) /\ RestorePhase(a)
        /\ Kind = {"proxy", "dns", "hosts"}
    BY ZenonT(30) DEF SysIInv, SysTypeOK, InPhase, Kind
  <1>1. CASE \/ TakeSnapshot(a) \/ TruncateRollback(a) \/ FillRollback(a)
             \/ ApplyWrite(a) \/ ApplyFails(a) \/ HostsUnsave(a)
    <2>1. CASE TakeSnapshot(a) \/ TruncateRollback(a)
      BY <1>0, <2>1 DEF TakeSnapshot, TruncateRollback, At, Goto, JobType
    <2>2. CASE FillRollback(a)
      BY <1>0, <2>2 DEF FillRollback, At, Goto, JobType
    <2>3. CASE ApplyWrite(a)
      BY <1>0, <2>3 DEF ApplyWrite, At, Goto, JobType
    <2>4. CASE ApplyFails(a) \/ HostsUnsave(a)
      BY <1>0, <2>4 DEF ApplyFails, HostsUnsave, At, Goto, JobType
    <2> QED BY <1>1, <2>1, <2>2, <2>3, <2>4
  <1>2. CASE ApplyDone(a) \/ (HostsFill(a) /\ job[a].op = "apply")
    <2>1. /\ job[a].op = "apply" /\ job[a].pc \in {"write", "fill"} /\ rollback' = rollback
      BY <1>2 DEF ApplyDone, HostsFill, At, AtHostsWrite
    <2>2. rollback \in StateOf(KindOf(job[a].target)) /\ KindOf(job[a].target) \in Kind
      BY <1>0, <2>1, KindFacts DEF ApplyPhase
    <2> QED BY <2>1, <2>2 DEF StateOf, Holds
  <1>3. CASE HostsTruncate(a) \/ HostsWriteFails(a) \/ (HostsFill(a) /\ job[a].op = "restore")
    BY <1>0, <1>3 DEF HostsTruncate, HostsFill, HostsWriteFails, AtHostsWrite, Goto, JobType
  <1>4. CASE Dispatch(a) \/ ReadRollback(a)
    BY <1>0, <1>4, ZenonT(100) DEF Dispatch, ReadRollback, At, Goto, JobType
  <1>5. CASE RestoreWrite(a) \/ RestoreWritten(a) \/ RestoreFails(a)
    BY <1>0, <1>5 DEF RestoreWrite, RestoreWritten, RestoreFails, At, Goto, JobType
  <1>6. CASE RemoveRollback(a)
    BY <1>0, <1>6 DEF RemoveRollback, At, Goto, JobType
  <1>7. HostsFill(a) => job[a].op \in {"apply", "restore"}
    BY DEF HostsFill, AtHostsWrite
  <1>8. CASE HostsFillPartly(a)
    BY <1>0, <1>8 DEF HostsFillPartly, AtHostsWrite
  <1> QED BY <1>1, <1>2, <1>3, <1>4, <1>5, <1>6, <1>7, <1>8 DEF Working

(* The requests that can be made. *)
LEMMA RequestFacts ==
    ASSUME NEW r \in Request
    PROVE  \/ r[1] = "apply" /\ r[2] \in Mode
           \/ r[1] = "restore" /\ r[2] \in Kind /\ r[2] # "any"
  BY ClientAssumption DEF Kind

(* While one client asks, the others wait and the service does nothing for *)
(* them, so a step of its request is all there is to look at.              *)
LEMMA TurnStep ==
    ASSUME AppIInv, NEW c \in Client, \A d \in Client : d # c => client[d] = "idle",
           \A d \in Client : d # c => /\ client'[d] = client[d] /\ req'[d] = req[d]
                                      /\ pipe'[d] = pipe[d],
           \A a \in Actor : a # c => job'[a] = job[a],
           AppTypeOK', RequestPhase(c)', [SysNext]_sysVars
    PROVE  AppIInv'
  <1>1. SysIInv'
    BY SysNextInv DEF AppIInv
  <1>2. OneAsks' /\ \A a \in Actor \ Client : job'[a] = Idle
    BY DEF AppIInv, OneAsks
  <1>3. ASSUME NEW d \in Client, d # c
        PROVE  RequestPhase(d)'
    <2>1. /\ client'[d] = "idle" /\ pipe'[d] = "none" /\ job'[d] = Idle /\ Idle.pc = "idle"
      BY <1>3, ClientAssumption DEF AppIInv, RequestPhase, Idle
    <2> QED BY <2>1 DEF RequestPhase
  <1> QED BY <1>1, <1>2, <1>3 DEF AppIInv

LEMMA MyTurn ==
    ASSUME AppIInv, NEW c \in Client, client[c] # "idle"
    PROVE  \A d \in Client : d # c => client[d] = "idle"
  BY DEF AppIInv, OneAsks

LEMMA ActiveIfPipe ==
    ASSUME AppIInv, NEW c \in Client, pipe[c] # "none"
    PROVE  client[c] # "idle"
  BY DEF AppIInv, RequestPhase

(* The steps of a client that leave the system alone. *)
LEMMA ClientQuietStep ==
    ASSUME TakeTurns, AppIInv, NEW c \in Client,
           \/ \E r \in Request : Ask(c, r)
           \/ Health(c) \/ StartService(c) \/ Connect(c) \/ ReadAnswer(c) \/ RestartStart(c)
           \/ ClientDies(c) \/ ClientReplaced(c)
    PROVE  AppIInv' /\ [SysNext]_sysVars
  <1>0. /\ AppTypeOK /\ RequestPhase(c) /\ NoRequest[1] = "none"
        /\ UNCHANGED sysVars /\ UNCHANGED <<job, rollback>>
    BY DEF AppIInv, NoRequest, Ask, Health, StartService, Connect, ReadAnswer, RestartStart,
           ClientDies, ClientReplaced, sysVars
  <1>1. \A d \in Client : d # c => client[d] = "idle"
    BY MyTurn DEF Ask, Health, StartService, Connect, ReadAnswer, RestartStart, ClientDies,
                  ClientReplaced
  <1>2. CASE \E r \in Request : Ask(c, r)
    <2>1. AppTypeOK' /\ RequestPhase(c)'
      BY <1>0, <1>2 DEF AppTypeOK, RequestPhase, Ask, ClientGoto, ClientPc, Carried, Idle
    <2>2. \A d \in Client : d # c => /\ client'[d] = client[d] /\ req'[d] = req[d]
                                     /\ pipe'[d] = pipe[d]
      BY <1>0, <1>2, Zenon DEF AppTypeOK, Ask, ClientGoto
    <2> QED BY <1>0, <1>1, <2>1, <2>2, TurnStep, Zenon
  <1>3. CASE Health(c) \/ ClientDies(c)
    <2>1. AppTypeOK' /\ RequestPhase(c)'
      BY <1>0, <1>3 DEF AppTypeOK, RequestPhase, Health, ClientDies, ClientGoto, ClientPc, Carried
    <2>2. \A d \in Client : d # c => /\ client'[d] = client[d] /\ req'[d] = req[d]
                                     /\ pipe'[d] = pipe[d]
      BY <1>0, <1>3, Zenon DEF AppTypeOK, Health, ClientDies, ClientGoto
    <2> QED BY <1>0, <1>1, <2>1, <2>2, TurnStep
  <1>4. CASE RequestOver(c) /\ pipe[c] # "handling"
    <2>1. AppTypeOK' /\ RequestPhase(c)'
      BY <1>0, <1>4 DEF AppTypeOK, RequestPhase, RequestOver, ClientGoto, ClientPc, PipeState,
                        Carried, Idle
    <2>2. \A d \in Client : d # c => /\ client'[d] = client[d] /\ req'[d] = req[d]
                                     /\ pipe'[d] = pipe[d]
      BY <1>0, <1>4, ZenonT(30) DEF AppTypeOK, RequestOver, ClientGoto
    <2> QED BY <1>0, <1>1, <2>1, <2>2, TurnStep
  <1>5. CASE (StartService(c) \/ RestartStart(c)) /\ ~RequestOver(c)
    <2>1. AppTypeOK' /\ RequestPhase(c)'
      BY <1>0, <1>5 DEF AppTypeOK, RequestPhase, StartService, RestartStart, ClientGoto, ClientPc, Carried
    <2>2. \A d \in Client : d # c => /\ client'[d] = client[d] /\ req'[d] = req[d]
                                     /\ pipe'[d] = pipe[d]
      BY <1>0, <1>5, Zenon DEF AppTypeOK, StartService, RestartStart, ClientGoto
    <2> QED BY <1>0, <1>1, <2>1, <2>2, TurnStep
  <1>6. CASE Connect(c) /\ ~RequestOver(c)
    <2>1. AppTypeOK' /\ RequestPhase(c)'
      BY <1>0, <1>6 DEF AppTypeOK, RequestPhase, Connect, ClientGoto, ClientPc, PipeState, Carried
    <2>2. \A d \in Client : d # c => /\ client'[d] = client[d] /\ req'[d] = req[d]
                                     /\ pipe'[d] = pipe[d]
      BY <1>0, <1>6, Zenon DEF AppTypeOK, Connect, ClientGoto
    <2> QED BY <1>0, <1>1, <2>1, <2>2, TurnStep
  <1>7. CASE ReadAnswer(c) /\ ~RequestOver(c)
    <2>1. AppTypeOK' /\ RequestPhase(c)'
      BY <1>0, <1>7 DEF AppTypeOK, RequestPhase, ReadAnswer, ClientGoto, ClientPc, PipeState, Carried
    <2>2. \A d \in Client : d # c => /\ client'[d] = client[d] /\ req'[d] = req[d]
                                     /\ pipe'[d] = pipe[d]
      BY <1>0, <1>7, Zenon DEF AppTypeOK, ReadAnswer, ClientGoto
    <2> QED BY <1>0, <1>1, <2>1, <2>2, TurnStep
  <1>8. pipe[c] = "handling" => ~(StartService(c) \/ Connect(c) \/ ReadAnswer(c)
                                   \/ RestartStart(c) \/ ClientReplaced(c))
    BY <1>0, Zenon DEF RequestPhase, StartService, Connect, ReadAnswer, RestartStart, ClientReplaced
  <1> QED BY <1>0, <1>2, <1>3, <1>4, <1>5, <1>6, <1>7, <1>8, Zenon DEF ClientReplaced

(* The handler reads the request, executes it and answers. *)
LEMMA HandlerIsSys ==
    ASSUME AppIInv, NEW c \in Client, HandlerStep(c)
    PROVE  AppIInv' /\ [SysNext]_sysVars
  <1>0. /\ SysIInv /\ AppTypeOK /\ RequestPhase(c) /\ c \in Actor /\ pipe[c] # "none"
        /\ job \in [Actor -> JobType] /\ Idle.pc = "idle"
        /\ UNCHANGED <<client, req>>
    BY ClientAssumption, Zenon DEF AppIInv, SysIInv, SysTypeOK, Idle, HandlerStep, Handle, Execute,
                            Answer, appVars
  <1>1. /\ client[c] # "idle" /\ req[c] \in Request
        /\ \A d \in Client : d # c => client[d] = "idle"
    BY <1>0, MyTurn, ActiveIfPipe DEF RequestPhase
  <1>2. \/ req[c][1] = "apply" /\ req[c][2] \in Mode
        \/ req[c][1] = "restore" /\ req[c][2] \in Kind /\ req[c][2] # "any"
    BY <1>1, RequestFacts
  <1>3. \A a \in Actor : a # c => job[a] = Idle
    BY <1>1 DEF AppIInv, RequestPhase
  <1>4. CASE Handle(c) /\ pipe' = [pipe EXCEPT ![c] = "err"] /\ UNCHANGED job
    <2>1. /\ pipe' = [pipe EXCEPT ![c] = "err"] /\ pipe[c] = "open" /\ UNCHANGED sysVars
          /\ UNCHANGED rollback
      BY <1>4 DEF Handle, sysVars, appSysOut
    <2>2. AppTypeOK' /\ RequestPhase(c)'
      BY <1>0, <1>4, <2>1 DEF AppTypeOK, RequestPhase, PipeState, Carried
    <2>3. \A d \in Client : d # c => pipe'[d] = pipe[d]
      BY <1>0, <2>1, Zenon DEF AppTypeOK
    <2> QED BY <1>0, <1>1, <1>4, <2>1, <2>2, <2>3, TurnStep, Zenon
  <1>5. CASE /\ Handle(c) /\ pipe' = [pipe EXCEPT ![c] = "handling"]
             /\ \/ req[c][1] = "apply" /\ CallApply(c, req[c][2])
                \/ req[c][1] = "restore" /\ CallRestore(c, req[c][2])
    <2>1. /\ pipe' = [pipe EXCEPT ![c] = "handling"] /\ pipe[c] = "open" /\ job[c] = Idle
          /\ UNCHANGED <<settings, hostsLines, rollback, user, lost>>
          /\ \/ req[c][1] = "apply" /\ CallApply(c, req[c][2])
             \/ req[c][1] = "restore" /\ CallRestore(c, req[c][2])
      BY <1>0, <1>5, Zenon DEF Handle, appSysOut, RequestPhase
    <2>2. AllIdle
      BY <1>0, <1>3, <2>1, Zenon DEF AllIdle
    <2>3. SysNext
      BY <1>0, <1>2, <2>1, <2>2, Zenon DEF SysNext, StartApply, StartRestore
    <2>4. /\ job'[c].op = req[c][1] /\ job'[c].target = req[c][2]
          /\ job'[c].pc \in {"snapshot", "read"} /\ job'[c] # Idle
          /\ \A a \in Actor : a # c => job'[a] = job[a]
      <3>1. CASE req[c][1] = "apply"
        BY <1>0, <2>1, <3>1, ZenonT(100) DEF CallApply, Idle
      <3>2. CASE req[c][1] = "restore"
        <4>1. job' = [job EXCEPT ![c] = [Idle EXCEPT !.op = "restore", !.target = req[c][2],
                                                    !.pc = "read"]]
          BY <1>2, <2>1, <3>2 DEF CallRestore
        <4> QED BY <1>0, <3>2, <4>1, ZenonT(30) DEF Idle
      <3> QED BY <1>2, <3>1, <3>2
    <2>5. AppTypeOK' /\ RequestPhase(c)'
      BY <1>0, <1>1, <2>1, <2>4 DEF AppTypeOK, RequestPhase, PipeState
    <2>6. \A d \in Client : d # c => pipe'[d] = pipe[d]
      BY <1>0, <2>1, Zenon DEF AppTypeOK
    <2> QED BY <1>0, <1>1, <2>3, <2>4, <2>5, <2>6, TurnStep, Zenon
  <1>6. CASE Execute(c)
    <2>1. pipe[c] = "handling" /\ Working(c) /\ UNCHANGED pipe /\ job[c] # Idle
      BY <1>0, <1>6, Zenon DEF Execute, appVars, RequestPhase
    <2>2. /\ job'[c].op = job[c].op /\ job'[c] # Idle /\ job'[c].pc # "dispatch"
          /\ job'[c].target = job[c].target
          /\ \A a \in Actor : a # c => job'[a] = job[a]
      BY <1>0, <2>1, WorkingFacts, Zenon DEF RequestPhase
    <2>3. job'[c].pc = "ok" => Carried(req[c])'
      BY <1>0, <1>2, <2>1, OkIsTrue, Zenon DEF RequestPhase, Carried
    <2>4. AppTypeOK' /\ RequestPhase(c)'
      BY <1>0, <2>1, <2>2, <2>3 DEF AppTypeOK, RequestPhase
    <2>5. SysNext
      BY <1>0, <2>1, Zenon DEF SysNext
    <2> QED BY <1>0, <1>1, <2>1, <2>2, <2>4, <2>5, TurnStep, Zenon
  <1>7. CASE Answer(c)
    <2>1. /\ pipe[c] = "handling" /\ job[c].pc \in Returned /\ job' = [job EXCEPT ![c] = Idle]
          /\ UNCHANGED <<settings, hostsLines, rollback, user, lost>>
          /\ \E s \in {"ok", "err", "broken"} :
                pipe' = [pipe EXCEPT ![c] = s] /\ (s = "ok" => job[c].pc = "ok")
      BY <1>7 DEF Answer, appSysOut
    <2>2. SysNext
      BY <1>0, <2>1, Zenon DEF SysNext, Return
    <2>3. PICK s \in {"ok", "err", "broken"} :
             pipe' = [pipe EXCEPT ![c] = s] /\ (s = "ok" => job[c].pc = "ok")
      BY <2>1, Zenon
    <2>4. pipe'[c] = s /\ \A d \in Client : d # c => pipe'[d] = pipe[d]
      BY <1>0, <2>3 DEF AppTypeOK
    <2>5. job'[c] = Idle /\ \A a \in Actor : a # c => job'[a] = job[a]
      BY <1>0, <2>1
    <2>6. AppTypeOK'
      BY <1>0, <2>3, Zenon DEF AppTypeOK, PipeState
    <2>7. RequestPhase(c)'
      BY <1>0, <1>1, <2>1, <2>3, <2>4, <2>5, Zenon DEF RequestPhase, Carried
    <2> QED BY <1>0, <1>1, <2>2, <2>4, <2>5, <2>6, <2>7, TurnStep, Zenon
  <1> QED BY <1>4, <1>5, <1>6, <1>7, Zenon DEF HandlerStep, Handle

(* The service ends, by itself or because a client restarts it.  At most   *)
(* one request was being executed, and its call dies with it.              *)
LEMMA ServiceEndsStep ==
    ASSUME AppIInv, NEW c \in Client, \A d \in Client : d # c => client[d] = "idle",
           ServiceEnds, UNCHANGED req,
           \/ UNCHANGED client
           \/ client[c] = "restart" /\ ClientGoto(c, "restarted")
    PROVE  AppIInv' /\ [SysNext]_sysVars
  <1>0. /\ AppTypeOK /\ RequestPhase(c) /\ c \in Actor /\ job \in [Actor -> JobType]
        /\ \A a \in Actor : a # c => job[a] = Idle
        /\ \A d \in Client : d # c => pipe[d] = "none"
        /\ Idle.pc = "idle"
    BY ClientAssumption, Zenon DEF AppIInv, SysIInv, SysTypeOK, RequestPhase, Idle
  <1>1. /\ pipe' \in [Client -> PipeState]
        /\ \A d \in Client :
              \/ pipe[d] \in {"none", "broken"} /\ pipe'[d] = pipe[d]
              \/ pipe[d] \in {"open", "handling"} /\ pipe'[d] = "broken"
              \/ pipe[d] \in {"ok", "err"} /\ pipe'[d] \in {pipe[d], "broken"}
        /\ job' = [a \in Actor |-> IF a \in Client THEN Idle ELSE job[a]]
        /\ UNCHANGED <<settings, hostsLines, rollback, user, lost>>
    BY DEF ServiceEnds, appSysOut
  <1>2. \A d \in Client : d # c => client'[d] = client[d] /\ pipe'[d] = pipe[d]
    BY <1>0, <1>1, Zenon DEF ClientGoto, AppTypeOK
  <1>3. job'[c] = Idle /\ \A a \in Actor : a # c => job'[a] = job[a]
    BY <1>0, <1>1
  <1>4. [SysNext]_sysVars
    <2>1. CASE job[c] = Idle
      <3>1. job' = job
        BY <1>0, <1>1, <2>1, Zenon
      <3> QED BY <1>1, <3>1, Zenon DEF sysVars
    <2>2. CASE job[c] # Idle
      <3>1. job' = [job EXCEPT ![c] = Idle]
        BY <1>0, <1>1, <2>2, Zenon
      <3> QED BY <1>0, <1>1, <2>2, <3>1 DEF SysNext, Crash
    <2> QED BY <2>1, <2>2, Zenon
  <1>5. AppTypeOK'
    BY <1>0, <1>1, Zenon DEF AppTypeOK, ClientGoto, ClientPc
  <1>6. RequestPhase(c)'
    <2>1. client'[c] = client[c] \/ (client[c] = "restart" /\ client'[c] = "restarted")
      BY <1>0 DEF ClientGoto, AppTypeOK
    <2> QED BY <1>0, <1>1, <1>3, <2>1 DEF RequestPhase, Carried
  <1> QED BY <1>2, <1>3, <1>4, <1>5, <1>6, TurnStep, Zenon

LEMMA AppNextInv ==
    ASSUME TakeTurns, AppIInv, [AppNext]_appHostVars
    PROVE  AppIInv' /\ [SysNext]_sysVars
  <1>1. CASE UNCHANGED appHostVars
    <2>1. UNCHANGED sysVars /\ UNCHANGED <<client, req, pipe, job, rollback>>
      BY <1>1 DEF appHostVars, appVars, sysVars
    <2>2. SysIInv'
      BY <2>1, SysNextInv DEF AppIInv
    <2> QED BY <2>1, <2>2 DEF AppIInv, AppTypeOK, OneAsks, RequestPhase, Carried
  <1>2. ASSUME NEW c \in Client, RestartStop(c)
        PROVE  AppIInv' /\ [SysNext]_sysVars
    <2>0. /\ client[c] = "restart" /\ ClientGoto(c, "restarted") /\ UNCHANGED req
          /\ \A d \in Client : d # c => client[d] = "idle"
      BY <1>2, MyTurn DEF RestartStop
    <2>1. CASE ServiceEnds
      BY <2>0, <2>1, ServiceEndsStep, Zenon
    <2>2. CASE UNCHANGED pipe /\ UNCHANGED sysVars
      <3>1. AppTypeOK /\ RequestPhase(c) /\ UNCHANGED <<job, rollback>>
        BY <2>2, Zenon DEF AppIInv, sysVars
      <3>2. AppTypeOK' /\ RequestPhase(c)'
        BY <2>0, <2>2, <3>1 DEF AppTypeOK, RequestPhase, ClientGoto, ClientPc, Carried
      <3>3. \A d \in Client : d # c => client'[d] = client[d]
        BY <2>0, <3>1 DEF AppTypeOK, ClientGoto
      <3> QED BY <2>0, <2>2, <3>1, <3>2, <3>3, TurnStep, Zenon
    <2> QED BY <1>2, <2>1, <2>2 DEF RestartStop
  <1>3. CASE ServiceDies
    <2>0. ServiceEnds /\ UNCHANGED <<client, req>>
      BY <1>3 DEF ServiceDies
    <2>1. CASE \E c \in Client : TRUE
      <3>1. PICK c \in Client : \A d \in Client : d # c => client[d] = "idle"
        BY <2>1, Zenon DEF AppIInv, OneAsks
      <3> QED BY <2>0, <3>1, ServiceEndsStep
    <2>2. CASE Client = {}
      <3>1. job' = job /\ UNCHANGED <<settings, hostsLines, rollback, user, lost>>
            /\ AppTypeOK'
        BY <2>0, <2>2 DEF ServiceEnds, appSysOut, AppIInv, AppTypeOK, SysIInv, SysTypeOK
      <3>2. UNCHANGED sysVars
        BY <3>1 DEF sysVars
      <3>3. SysIInv'
        BY <3>2, SysNextInv DEF AppIInv
      <3> QED BY <2>2, <3>1, <3>2, <3>3, Zenon DEF AppIInv, OneAsks
    <2> QED BY <2>1, <2>2
  <1> QED BY <1>1, <1>2, <1>3, ClientQuietStep, HandlerIsSys, Zenon DEF AppNext, ClientStep

LEMMA AppInitInv == AppInit => AppIInv
  <1> SUFFICES ASSUME AppInit
               PROVE  AppIInv
    OBVIOUS
  <1>1. SysIInv /\ \A a \in Actor : job[a] = Idle
    BY SysInitInv DEF AppInit, SysInit
  <1>2. AppTypeOK /\ OneAsks
    BY DEF AppInit, AppTypeOK, ClientPc, PipeState, OneAsks
  <1>3. ASSUME NEW c \in Client
        PROVE  RequestPhase(c)
    <2>1. client[c] = "idle" /\ pipe[c] = "none" /\ job[c] = Idle /\ Idle.pc = "idle"
      BY <1>1, ClientAssumption DEF AppInit, Idle
    <2> QED BY <2>1, Zenon DEF RequestPhase
  <1> QED BY <1>1, <1>2, <1>3 DEF AppIInv

THEOREM AppInvariant == ASSUME TakeTurns PROVE AppSpec => []AppIInv
  <1>1. AppSpec => AppInit /\ [][AppNext]_appHostVars
    BY PTL DEF AppSpec
  <1>2. AppIInv /\ [AppNext]_appHostVars => AppIInv'
    BY AppNextInv
  <1> QED BY <1>1, <1>2, AppInitInv, PTL

(* What the service executes for its clients, restarts, repeated requests  *)
(* and clients that die included, is what SystemChange allows.             *)
THEOREM AppImplementsSys == ASSUME TakeTurns PROVE AppSpec => SysSpec
  <1>1. AppSpec => AppInit /\ [][AppNext]_appHostVars
    BY PTL DEF AppSpec
  <1>2. AppIInv /\ [AppNext]_appHostVars => [SysNext]_sysVars
    BY AppNextInv
  <1>3. AppInit => SysInit
    BY DEF AppInit
  <1> QED BY <1>1, <1>2, <1>3, AppInvariant, PTL DEF SysSpec

(* An OK that reaches a client is true of the request it made. *)
THEOREM AppAnswerIsTrue == ASSUME TakeTurns PROVE AppSpec => []AnswerIsTrue
  <1>1. AppIInv => AnswerIsTrue
    BY DEF AppIInv, RequestPhase, Carried, AnswerIsTrue
  <1> QED BY <1>1, AppInvariant, PTL

(* Through the service, too, the user's settings can be recovered.         *)
THEOREM AppRecoverable ==
    ASSUME TakeTurns PROVE AppSpec => []RecoverableUnlessLost
  BY AppImplementsSys, SysRecoverable, PTL

-----------------------------------------------------------------------------
(* AppHostService: the handles of the commands *)

(* Where a command holds no handle, and where it may hold one. *)
Closed == {"open", "create", "recreate", "delete", "stop", "restart",
           "waitDeleted", "done", "failed"}

Open == {"configure", "start", "startCall", "control", "waitRunning", "waitStopped", "waitEnd"}

ServiceState ==
    [reg : {"none", "ok", "marked"}, state : {"stopped", "start_pending", "running", "stop_pending"},
     exe : Admin \cup {OldExe, NoExe}, runs : Admin \cup {OldExe, NoExe}]

CommandState ==
    [name : {"install", "uninstall", "start", "stop"}, pc : Closed \cup Open, ok : Closed,
     err : Closed, found : {"none", "unknown", "stopped", "start_pending", "running", "stop_pending"}]

(* Each call closes its handle before it returns, so a command that goes   *)
(* on after a call, or is over, holds none.                                *)
HandleIInv ==
    /\ cmd \in [Admin -> {NoCommand} \cup CommandState]
    /\ scm \in ServiceState
    /\ \A a \in Admin :
          cmd[a].pc \in Closed \cup {"idle"} => a \notin handles

(* Initially no command runs. *)
LEMMA HandleInitial == SvcInit => HandleIInv
BY DEF SvcInit, HandleIInv, NoCommand, NoService, Open, ServiceState

(* A step of one command, from its new record. *)
LEMMA CommandStep ==
    ASSUME HandleIInv, NEW a \in Admin, NEW c \in {NoCommand} \cup CommandState,
           cmd' = [cmd EXCEPT ![a] = c], handles' \ {a} = handles \ {a},
           c.pc \in Closed \cup {"idle"} => a \notin handles',
           scm' \in ServiceState
    PROVE  HandleIInv'
<1>1. cmd' \in [Admin -> {NoCommand} \cup CommandState]
  BY DEF HandleIInv
<1>2. ASSUME NEW b \in Admin, cmd'[b].pc \in Closed \cup {"idle"} PROVE b \notin handles'
  BY <1>2 DEF HandleIInv
<1> QED BY <1>1, <1>2 DEF HandleIInv

(* A command that goes on, within its call or to another one. *)
LEMMA GotoForm ==
    ASSUME HandleIInv, NEW a \in Admin, cmd[a].pc # "idle", NEW pc \in Closed \cup Open,
           \/ CmdGoto(a, pc)
           \/ \E ok, err \in Closed : CmdCall(a, pc, ok, err),
           handles' \ {a} = handles \ {a},
           pc \in Closed => a \notin handles',
           scm' \in ServiceState
    PROVE  HandleIInv'
<1>1. cmd[a] \in CommandState
  BY DEF HandleIInv, NoCommand
<1>2. CASE CmdGoto(a, pc)
  <2> DEFINE c == [cmd[a] EXCEPT !.pc = pc]
  <2>1. c \in CommandState /\ c.pc = pc
    BY <1>1 DEF CommandState
  <2>2. cmd' = [cmd EXCEPT ![a] = c]
    BY <1>2 DEF CmdGoto, HandleIInv
  <2>3. c.pc \in Closed \cup {"idle"} => a \notin handles'
    BY <2>1 DEF Closed, Open
  <2> HIDE DEF c
  <2> QED BY <2>1, <2>2, <2>3, CommandStep, Zenon
<1>3. ASSUME NEW ok \in Closed, NEW err \in Closed, CmdCall(a, pc, ok, err)
      PROVE  HandleIInv'
  <2> DEFINE c == [cmd[a] EXCEPT !.pc = pc, !.ok = ok, !.err = err, !.found = "none"]
  <2>1. c \in CommandState /\ c.pc = pc
    BY <1>1, Zenon DEF CommandState
  <2>2. cmd' = [cmd EXCEPT ![a] = c]
    BY <1>3, Zenon DEF CmdCall, HandleIInv
  <2>3. c.pc \in Closed \cup {"idle"} => a \notin handles'
    BY <2>1 DEF Closed, Open
  <2> HIDE DEF c
  <2> QED BY <2>1, <2>2, <2>3, CommandStep, Zenon
<1> QED BY <1>2, <1>3

(* The steps of start and stop.  CallSucceeds and CallFails close the      *)
(* handle.                                                                 *)
LEMMA StartStopSteps ==
    ASSUME HandleIInv, NEW a \in Admin,
           \/ StartOpen(a) \/ StartCall(a) \/ StopOpen(a) \/ StopControl(a)
           \/ WaitState(a) \/ WaitDeleted(a) \/ CallRefused(a)
    PROVE  HandleIInv'
<1>1. cmd[a].pc # "idle"
  BY DEF StartOpen, StartCall, StopOpen, StopControl, WaitState, WaitDeleted, CallRefused, CmdAt
<1>2. cmd[a] \in CommandState
  BY <1>1 DEF HandleIInv, NoCommand
<1>3. scm' \in ServiceState
  BY Zenon DEF StartOpen, StartCall, StopOpen, StopControl, WaitState, WaitDeleted, CallRefused,
         Launch, HandleIInv, ServiceState
<1>4. ASSUME CallSucceeds(a) \/ CallFails(a) PROVE HandleIInv'
  <2>1. PICK pc \in Closed : CmdGoto(a, pc) /\ CloseHandle(a)
    BY <1>2, <1>4, Zenon DEF CallSucceeds, CallFails, CommandState
  <2> QED BY <1>1, <1>3, <2>1, GotoForm, Zenon DEF CloseHandle
<1>5. ASSUME NEW pc \in Open, CmdGoto(a, pc), OpenHandle(a) \/ UNCHANGED handles
      PROVE  HandleIInv'
  <2>1. handles' \ {a} = handles \ {a}
    BY <1>5 DEF OpenHandle
  <2>2. pc \notin Closed
    BY DEF Open, Closed
  <2> QED BY <1>1, <1>3, <1>5, <2>1, <2>2, GotoForm, Zenon
<1>6. CASE StartOpen(a) \/ StartCall(a) \/ StopOpen(a) \/ StopControl(a) \/ WaitState(a) \/ WaitDeleted(a)
  BY <1>4, <1>5, <1>6, Zenon
     DEF StartOpen, StartCall, StopOpen, StopControl, WaitState, WaitDeleted, Open
<1>7. CASE CallRefused(a)
  <2>1. PICK pc \in Closed : CmdGoto(a, pc) /\ CloseHandle(a)
    <3>1. cmd[a].err \in Closed /\ "failed" \in Closed
      BY <1>2 DEF CommandState, Closed
    <3> QED BY <1>7, <3>1, Zenon DEF CallRefused
  <2> QED BY <1>1, <1>3, <2>1, GotoForm DEF CloseHandle
<1> QED BY <1>6, <1>7

(* The steps of install and uninstall: the handle is closed before the     *)
(* service's deletion is waited for.                                       *)
LEMMA InstallSteps ==
    ASSUME HandleIInv, NEW a \in Admin,
           \/ InstallOpen(a) \/ InstallConfigure(a) \/ InstallMarked(a)
           \/ InstallRestart(a) \/ InstallCreate(a) \/ UninstallDelete(a)
    PROVE  HandleIInv'
<1>1. cmd[a].pc # "idle"
  BY DEF InstallOpen, InstallConfigure, InstallMarked, InstallRestart, InstallCreate,
         UninstallDelete, CmdAt
<1>2. cmd[a] \in CommandState
  BY <1>1 DEF HandleIInv, NoCommand
<1>3. scm' \in ServiceState
  BY Zenon DEF InstallOpen, InstallConfigure, InstallMarked, InstallRestart, InstallCreate,
         UninstallDelete, HandleIInv, ServiceState, NoService, NoExe
<1>4. ASSUME NEW pc \in Closed, NEW ok \in Closed, NEW err \in Closed,
             CmdGoto(a, pc) \/ CmdCall(a, pc, ok, err),
             CloseHandle(a) \/ (UNCHANGED handles /\ cmd[a].pc \in Closed)
      PROVE  HandleIInv'
  <2>1. a \notin handles' /\ handles' \ {a} = handles \ {a}
    BY <1>4 DEF CloseHandle, HandleIInv
  <2> QED BY <1>1, <1>3, <1>4, <2>1, GotoForm, Zenon
<1>5. ASSUME NEW ok \in Closed, NEW err \in Closed, CmdCall(a, "start", ok, err),
             OpenHandle(a) \/ CloseHandle(a) \/ UNCHANGED handles
      PROVE  HandleIInv'
  <2>1. handles' \ {a} = handles \ {a}
    BY <1>5 DEF OpenHandle, CloseHandle
  <2>2. "start" \in Open /\ "start" \notin Closed
    BY DEF Open, Closed
  <2> QED BY <1>1, <1>3, <1>5, <2>1, <2>2, GotoForm, Zenon
<1>6. {"create", "recreate", "waitDeleted", "done", "failed", "stop", "restart", "open", "delete"} \subseteq Closed
  BY DEF Closed
<1>7. CASE InstallOpen(a) /\ OpenHandle(a)
           /\ \E found \in {scm.state, "unknown"} :
                 cmd' = [cmd EXCEPT ![a].pc = "configure", ![a].found = found]
  <2>1. PICK found \in {scm.state, "unknown"} :
                cmd' = [cmd EXCEPT ![a].pc = "configure", ![a].found = found]
    BY <1>7, Zenon
  <2> DEFINE c == [cmd[a] EXCEPT !.pc = "configure", !.found = found]
  <2>2. found \in {"none", "unknown", "stopped", "start_pending", "running", "stop_pending"}
    BY DEF HandleIInv, ServiceState
  <2>3. c \in CommandState /\ c.pc = "configure"
    BY <1>2, <2>2, Zenon DEF CommandState, Open
  <2>4. cmd' = [cmd EXCEPT ![a] = c]
    BY <2>1, Zenon DEF HandleIInv
  <2>5. handles' \ {a} = handles \ {a} /\ "configure" \notin Closed \cup {"idle"}
    BY <1>7, SMTT(30) DEF OpenHandle, Closed
  <2> HIDE DEF c
  <2> QED BY <1>3, <2>3, <2>4, <2>5, CommandStep, Zenon
<1>8. CASE InstallOpen(a)
  BY <1>4, <1>6, <1>7, <1>8 DEF InstallOpen, CmdAt
<1>9. CASE InstallConfigure(a) \/ InstallMarked(a)
  BY <1>4, <1>5, <1>6, <1>9, SMTT(30) DEF InstallConfigure, InstallMarked
<1>10. CASE InstallRestart(a) \/ InstallCreate(a)
  BY <1>4, <1>5, <1>6, <1>10 DEF InstallRestart, InstallCreate, CmdAt
<1>11. CASE UninstallDelete(a)
  BY <1>4, <1>6, <1>11 DEF UninstallDelete, CmdAt
<1> QED BY <1>8, <1>9, <1>10, <1>11

(* A command begins and ends without a handle. *)
LEMMA CommandSteps ==
    ASSUME HandleIInv, NEW a \in Admin,
           \/ \E name \in {"install", "uninstall", "start", "stop"} : Command(a, name)
           \/ CommandOver(a)
    PROVE  HandleIInv'
<1>1. ASSUME NEW name \in {"install", "uninstall", "start", "stop"}, Command(a, name)
      PROVE  HandleIInv'
  <2> DEFINE c == cmd'[a]
  <2>1. c \in CommandState /\ cmd' = [cmd EXCEPT ![a] = c]
    BY <1>1 DEF Command, CommandState, Closed, Open, HandleIInv
  <2>2. a \notin handles' /\ handles' = handles /\ scm' \in ServiceState
    BY <1>1 DEF Command, HandleIInv, NoCommand
  <2> HIDE DEF c
  <2> QED BY <2>1, <2>2, CommandStep, Zenon
<1>2. CASE CommandOver(a)
  <2>1. a \notin handles' /\ handles' = handles /\ scm' \in ServiceState
    BY <1>2 DEF CommandOver, HandleIInv, Closed
  <2> QED BY <1>2, <2>1, CommandStep, Zenon DEF CommandOver
<1> QED BY <1>1, <1>2

(* The service manager, the service's process and the viewer leave the     *)
(* commands and their handles alone.                                       *)
LEMMA ManagerSteps ==
    ASSUME HandleIInv, AutoStart \/ ProcessRuns \/ ProcessEnds \/ EntryDeleted \/ ViewService
    PROVE  HandleIInv'
<1>1. cmd' = cmd /\ \A a \in Admin : a \in handles' <=> a \in handles
  BY ViewerAssumption DEF AutoStart, ProcessRuns, ProcessEnds, EntryDeleted, ViewService
<1>2. scm \in ServiceState
  BY DEF HandleIInv
<1>3. CASE AutoStart \/ ProcessRuns \/ ProcessEnds
  <2>1. scm' \in ServiceState
    BY <1>2, <1>3, Zenon DEF AutoStart, ProcessRuns, ProcessEnds, Launch, ServiceState
  <2> QED BY <1>1, <2>1 DEF HandleIInv
<1>4. CASE EntryDeleted \/ ViewService
  <2>1. scm' \in ServiceState
    BY <1>2, <1>4 DEF EntryDeleted, ViewService, NoService, ServiceState
  <2> QED BY <1>1, <2>1 DEF HandleIInv
<1> QED BY <1>3, <1>4

(* However the commands interleave, none of them holds a handle outside    *)
(* the call it has opened it in.                                           *)
THEOREM HandleInvariant == SvcSpec => []HandleIInv
<1>1. HandleIInv /\ [SvcNext]_svcVars => HandleIInv'
  <2> SUFFICES ASSUME HandleIInv, [SvcNext]_svcVars PROVE HandleIInv'
    OBVIOUS
  <2>1. CASE UNCHANGED svcVars
    BY <2>1 DEF svcVars, HandleIInv
  <2>2. CASE SvcNext
    <3>1. CASE AutoStart \/ ProcessRuns \/ ProcessEnds \/ EntryDeleted \/ ViewService
      BY <3>1, ManagerSteps, Zenon
    <3>2. ASSUME NEW a \in Admin,
                 \/ \E name \in {"install", "uninstall", "start", "stop"} : Command(a, name)
                 \/ AdminStep(a)
          PROVE  HandleIInv'
      BY <3>2, StartStopSteps, InstallSteps, CommandSteps DEF AdminStep
    <3> QED BY <2>2, <3>1, <3>2 DEF SvcNext
  <2> QED BY <2>1, <2>2
<1> QED BY <1>1, HandleInitial, PTL DEF SvcSpec

(* However many install and uninstall commands run at the same time, the   *)
(* ones that wait for the service's deletion do not hold it up.            *)
THEOREM DeletionWaitsForOthers == SvcSpec => []WaitsForOthers
<1>1. HandleIInv => WaitsForOthers
  BY DEF HandleIInv, WaitsForOthers, Closed
<1> QED BY <1>1, HandleInvariant, PTL

-----------------------------------------------------------------------------
(* AppHostService: what an install finds when it is over *)

Stopping == {"stop", "control", "waitStopped"}
Starting == {"restart", "start", "startCall", "waitRunning", "waitEnd"}
Alive == {"start_pending", "running"}

(* Where an install goes on after the call it is in. *)
InstallForm(pc, ok, err) ==
    /\ err = "failed" /\ pc # "delete"
    /\ pc \in Stopping => ok = "restart"
    /\ pc \in Starting \ {"restart"} => ok = "done"
    /\ pc = "waitDeleted" => ok \in {"create", "recreate"}

(* What the service s is to an install of a that nobody has overtaken:     *)
(* once configured it has the executable of a; from the Start on, what     *)
(* runs is that executable; and before, it has not come up since Query.    *)
InstallSees(pc, found, s, a) ==
    /\ pc \in Stopping \cup Starting => s.reg = "none" \/ s.exe = a
    /\ pc \in Starting /\ s.state \in Alive => s.runs = a
    /\ pc = "configure" =>
          \/ found = "running"
          \/ found = "stopped" /\ s.state = "stopped"
          \/ found = "stop_pending" /\ s.state \in {"stop_pending", "stopped"}

RunIInv ==
    /\ scm.reg = "none" => scm.state = "stopped"
    /\ \A a \in Admin : cmd[a].name = "install" =>
          /\ InstallForm(cmd[a].pc, cmd[a].ok, cmd[a].err)
          /\ a \in raced \/ InstallSees(cmd[a].pc, cmd[a].found, scm, a)

(* A step of the service that brings up nothing and configures nothing,    *)
(* and the start of its process.                                           *)
NotUp(s, t) ==
    /\ t.reg # "none" => s.reg # "none" /\ t.exe = s.exe
    /\ t.state \in Alive => s.state \in Alive /\ t.runs = s.runs
    /\ t.state = "stop_pending" => s.state \in {"running", "stop_pending"}

Comes(s, t) ==
    /\ s.reg = "ok" /\ t.reg = "ok" /\ t.exe = s.exe
    /\ t.state = "start_pending" /\ t.runs = s.exe

(* Neither disturbs an install, unless it is about to configure a service  *)
(* that comes up.                                                          *)
LEMMA SeesOn ==
    ASSUME NEW pc, NEW found, NEW s, NEW t \in ServiceState, NEW a,
           InstallSees(pc, found, s, a),
           NotUp(s, t) \/ (Comes(s, t) /\ pc # "configure")
    PROVE  InstallSees(pc, found, t, a)
<1>1. CASE NotUp(s, t)
  <2>1. t.state \in {"stopped", "stop_pending"} \cup Alive
    BY Zenon DEF ServiceState, Alive
  <2> QED BY <1>1, <2>1 DEF InstallSees, NotUp, Alive
<1>2. CASE Comes(s, t) /\ pc # "configure"
  BY <1>2, Zenon DEF InstallSees, Comes, Starting
<1> QED BY <1>1, <1>2, Zenon

(* A step of one command, and of the service with it. *)
LEMMA OneInstallStep ==
    ASSUME HandleIInv, RunIInv, NEW a \in Admin, NEW c, cmd' = [cmd EXCEPT ![a] = c],
           c.name = "install" =>
               /\ InstallForm(c.pc, c.ok, c.err)
               /\ a \in raced' \/ InstallSees(c.pc, c.found, scm', a),
           scm' \in ServiceState, scm'.reg = "none" => scm'.state = "stopped",
           raced \ {a} \subseteq raced',
           \/ NotUp(scm, scm')
           \/ Comes(scm, scm') /\ {b \in Admin : cmd[b].pc = "configure"} \subseteq raced'
           \/ Installing \ {a} \subseteq raced'
    PROVE  RunIInv'
<1>1. cmd'[a] = c
  BY Zenon DEF HandleIInv
<1>2. ASSUME NEW b \in Admin, b # a, cmd[b].name = "install"
      PROVE  /\ cmd'[b] = cmd[b] /\ InstallForm(cmd[b].pc, cmd[b].ok, cmd[b].err)
             /\ b \in raced' \/ InstallSees(cmd[b].pc, cmd[b].found, scm', b)
  <2>1. /\ cmd'[b] = cmd[b] /\ InstallForm(cmd[b].pc, cmd[b].ok, cmd[b].err)
        /\ b \in raced' \/ InstallSees(cmd[b].pc, cmd[b].found, scm, b)
    BY <1>2, Zenon DEF HandleIInv, RunIInv
  <2>2. CASE Installing \ {a} \subseteq raced'
    BY <1>2, <2>1, <2>2, Zenon DEF Installing
  <2>3. CASE NotUp(scm, scm')
    BY <2>1, <2>3, SeesOn, Zenon
  <2>4. CASE Comes(scm, scm') /\ {d \in Admin : cmd[d].pc = "configure"} \subseteq raced'
    BY <2>1, <2>4, SeesOn, Zenon
  <2> QED BY <2>2, <2>3, <2>4, Zenon
<1>3. ASSUME NEW b \in Admin, cmd'[b].name = "install"
      PROVE  /\ InstallForm(cmd'[b].pc, cmd'[b].ok, cmd'[b].err)
             /\ b \in raced' \/ InstallSees(cmd'[b].pc, cmd'[b].found, scm', b)
  <2>1. CASE b = a
    BY <1>1, <1>3, <2>1, Zenon
  <2>2. CASE b # a
    <3>1. cmd'[b] = cmd[b]
      BY <2>2, ZenonT(30) DEF HandleIInv
    <3> QED BY <1>2, <1>3, <2>2, <3>1, SMTT(30)
  <2> QED BY <2>1, <2>2, Zenon
<1> QED BY <1>3, Zenon DEF RunIInv

(* The manager and the service's process by themselves. *)
LEMMA ManagerKeepsInstalls ==
    ASSUME HandleIInv, RunIInv,
           AutoStart \/ ProcessRuns \/ ProcessEnds \/ EntryDeleted \/ ViewService
    PROVE  RunIInv'
<1>0. scm \in ServiceState /\ scm' \in ServiceState /\ cmd' = cmd /\ raced \subseteq raced'
  <2>1. HandleIInv'
    BY ManagerSteps, Zenon
  <2> QED
    BY <2>1 DEF HandleIInv, AutoStart, Launch, ProcessRuns, ProcessEnds, EntryDeleted, ViewService
<1>1. /\ scm'.reg = "none" => scm'.state = "stopped"
      /\ \/ NotUp(scm, scm')
         \/ Comes(scm, scm') /\ {b \in Admin : cmd[b].pc = "configure"} \subseteq raced'
  <2>1. CASE AutoStart
    BY <1>0, <2>1 DEF AutoStart, Launch, Comes, ServiceState
  <2>2. CASE ProcessRuns
    BY <1>0, <2>2 DEF ProcessRuns, NotUp, Alive, ServiceState, RunIInv
  <2>3. CASE ProcessEnds
    BY <1>0, <2>3, Zenon DEF ProcessEnds, NotUp, Alive, ServiceState, RunIInv
  <2>4. CASE EntryDeleted
    BY <2>4, Zenon DEF EntryDeleted, NotUp, Alive, NoService
  <2>5. CASE ViewService
    BY <2>5, Zenon DEF ViewService, NotUp, RunIInv
  <2> QED BY <2>1, <2>2, <2>3, <2>4, <2>5, Zenon
<1>3. ASSUME NEW b \in Admin, cmd[b].name = "install", b \notin raced'
      PROVE  InstallSees(cmd[b].pc, cmd[b].found, scm', b)
  BY <1>0, <1>1, <1>3, SeesOn DEF RunIInv
<1> QED BY <1>0, <1>1, <1>3 DEF RunIInv

(* How a step may touch the service and the history. *)
TouchesWell(a) ==
    /\ scm' \in ServiceState /\ (scm'.reg = "none" => scm'.state = "stopped")
    /\ raced \ {a} \subseteq raced'
    /\ \/ NotUp(scm, scm')
       \/ Comes(scm, scm') /\ {b \in Admin : cmd[b].pc = "configure"} \subseteq raced'
       \/ Installing \ {a} \subseteq raced'

(* A command that goes on within its call, and one that makes a call. *)
LEMMA GotoInstall ==
    ASSUME HandleIInv, RunIInv, NEW a \in Admin, cmd[a] \in CommandState, NEW pc,
           CmdGoto(a, pc), TouchesWell(a),
           cmd[a].name = "install" =>
               /\ InstallForm(pc, cmd[a].ok, cmd[a].err)
               /\ a \in raced' \/ InstallSees(pc, cmd[a].found, scm', a)
    PROVE  RunIInv'
<1> DEFINE c == [cmd[a] EXCEPT !.pc = pc]
<1>1. /\ c.name = cmd[a].name /\ c.pc = pc /\ c.ok = cmd[a].ok /\ c.err = cmd[a].err
      /\ c.found = cmd[a].found
  BY DEF CommandState
<1>2. cmd' = [cmd EXCEPT ![a] = c]
  BY Zenon DEF CmdGoto, HandleIInv
<1> HIDE DEF c
<1>3. c.name = "install" =>
         /\ InstallForm(c.pc, c.ok, c.err)
         /\ a \in raced' \/ InstallSees(c.pc, c.found, scm', a)
  BY <1>1
<1> QED BY <1>2, <1>3, OneInstallStep, Zenon DEF TouchesWell

LEMMA CallInstall ==
    ASSUME HandleIInv, RunIInv, NEW a \in Admin, cmd[a] \in CommandState, NEW pc, NEW ok, NEW err,
           CmdCall(a, pc, ok, err), TouchesWell(a),
           cmd[a].name = "install" =>
               /\ InstallForm(pc, ok, err)
               /\ a \in raced' \/ InstallSees(pc, "none", scm', a)
    PROVE  RunIInv'
<1> DEFINE c == [cmd[a] EXCEPT !.pc = pc, !.ok = ok, !.err = err, !.found = "none"]
<1>1. c.name = cmd[a].name /\ c.pc = pc /\ c.ok = ok /\ c.err = err /\ c.found = "none"
  BY DEF CommandState
<1>2. cmd' = [cmd EXCEPT ![a] = c]
  BY Zenon DEF CmdCall, HandleIInv
<1> HIDE DEF c
<1>3. c.name = "install" =>
         /\ InstallForm(c.pc, c.ok, c.err)
         /\ a \in raced' \/ InstallSees(c.pc, c.found, scm', a)
  BY <1>1, Zenon
<1> QED BY <1>2, <1>3, OneInstallStep, Zenon DEF TouchesWell

(* A step that leaves the service alone. *)
LEMMA TouchesNothing ==
    ASSUME HandleIInv, RunIInv, NEW a \in Admin, scm' = scm, raced \ {a} \subseteq raced'
    PROVE  TouchesWell(a)
BY DEF TouchesWell, HandleIInv, RunIInv, NotUp

(* start and stop, on their own or within an install. *)
LEMMA StartStopInstall ==
    ASSUME HandleIInv, RunIInv, NEW a \in Admin,
           \/ StartOpen(a) \/ StartCall(a) \/ StopOpen(a) \/ StopControl(a)
           \/ WaitState(a) \/ WaitDeleted(a) \/ CallRefused(a)
    PROVE  RunIInv'
<1> DEFINE c == cmd[a]
<1>1. c \in CommandState
  <2>1. c.pc # "idle"
    BY Zenon DEF StartOpen, StartCall, StopOpen, StopControl, WaitState, WaitDeleted, CallRefused, CmdAt
  <2>2. c \in {NoCommand} \cup CommandState /\ NoCommand.pc = "idle"
    BY Zenon DEF HandleIInv, NoCommand
  <2> QED BY <2>1, <2>2, Zenon
<1>2. c.name = "install" =>
         InstallForm(c.pc, c.ok, c.err) /\ (a \in raced \/ InstallSees(c.pc, c.found, scm, a))
  BY DEF RunIInv
<1>3. scm \in ServiceState
  BY DEF HandleIInv
<1>4. ASSUME scm' = scm, raced' = raced PROVE TouchesWell(a)
  BY <1>4, TouchesNothing, Zenon
<1>5. CASE StartOpen(a)
  <2>1. PICK pc : /\ CmdGoto(a, pc)
                  /\ pc \in {c.ok, "waitRunning", "waitEnd", "startCall"}
    BY <1>5 DEF StartOpen, CallSucceeds
  <2>2. c.pc = "start" /\ scm' = scm /\ raced' = raced
    BY <1>5, Zenon DEF StartOpen, CmdAt
  <2>3. c.name = "install" =>
          InstallForm(pc, c.ok, c.err) /\ (a \in raced' \/ InstallSees(pc, c.found, scm', a))
    BY <1>2, <2>1, <2>2, Zenon DEF InstallForm, InstallSees, Starting, Stopping
  <2> QED BY <1>1, <1>4, <2>1, <2>2, <2>3, GotoInstall, ZenonT(30)
<1>6. CASE StartCall(a)
  <2>1. CmdGoto(a, "waitRunning") /\ c.pc = "startCall"
    BY <1>6 DEF StartCall, CmdAt
  <2>2. \/ scm' = scm /\ raced' = raced
        \/ Comes(scm, scm') /\ raced' = raced \cup {b \in Admin : cmd[b].pc = "configure"}
           /\ scm' \in ServiceState /\ scm'.reg = "ok"
    BY <1>3, <1>6, ZenonT(30) DEF StartCall, Launch, Comes, ServiceState
  <2>3. TouchesWell(a)
    BY <1>4, <2>2, ZenonT(30) DEF TouchesWell
  <2>4. c.name = "install" =>
          /\ InstallForm("waitRunning", c.ok, c.err)
          /\ a \in raced' \/ InstallSees("waitRunning", c.found, scm', a)
    BY <1>2, <2>1, <2>2 DEF InstallForm, InstallSees, Starting, Stopping, Comes
  <2> QED BY <1>1, <2>1, <2>3, <2>4, GotoInstall, ZenonT(30)
<1>7. CASE StopOpen(a)
  <2>1. PICK pc : /\ CmdGoto(a, pc)
                  /\ (pc = c.ok /\ scm.state = "stopped") \/ pc \in {"waitStopped", "control"}
    BY <1>7 DEF StopOpen, CallSucceeds
  <2>2. c.pc = "stop" /\ scm' = scm /\ raced' = raced
    BY <1>7, Zenon DEF StopOpen, CmdAt
  <2>3. c.name = "install" =>
          InstallForm(pc, c.ok, c.err) /\ (a \in raced' \/ InstallSees(pc, c.found, scm', a))
    BY <1>2, <2>1, <2>2, ZenonT(30) DEF InstallForm, InstallSees, Starting, Stopping, Alive
  <2> QED BY <1>1, <1>4, <2>1, <2>2, <2>3, GotoInstall, ZenonT(30)
<1>8. CASE StopControl(a)
  <2>1. CmdGoto(a, "waitStopped") /\ c.pc = "control" /\ raced' = raced
    BY <1>8 DEF StopControl, CmdAt
  <2>2. /\ scm' \in ServiceState /\ NotUp(scm, scm') /\ scm'.reg = scm.reg /\ scm'.exe = scm.exe
        /\ scm'.reg = "none" => scm'.state = "stopped"
    BY <1>3, <1>8 DEF StopControl, NotUp, ServiceState, Alive, RunIInv
  <2>3. TouchesWell(a)
    BY <2>1, <2>2, Zenon DEF TouchesWell
  <2>4. c.name = "install" =>
          /\ InstallForm("waitStopped", c.ok, c.err)
          /\ a \in raced' \/ InstallSees("waitStopped", c.found, scm', a)
    BY <1>2, <2>1, <2>2, Zenon DEF InstallForm, InstallSees, Starting, Stopping
  <2> QED BY <1>1, <2>1, <2>3, <2>4, GotoInstall, SMTT(30)
<1>9. CASE WaitState(a)
  <2>1. PICK pc : /\ CmdGoto(a, pc)
                  /\ \/ c.pc = "waitRunning" /\ pc = c.ok
                     \/ c.pc = "waitStopped" /\ pc = c.ok /\ scm.state = "stopped"
                     \/ c.pc = "waitEnd" /\ pc = "startCall"
                     \/ c.pc \in {"waitRunning", "waitStopped", "waitEnd"} /\ pc = c.err
    BY <1>9, Zenon DEF WaitState, CallSucceeds, CallFails, CmdAt
  <2>2. scm' = scm /\ raced' = raced
    BY <1>9, Zenon DEF WaitState
  <2>3. c.name = "install" =>
          InstallForm(pc, c.ok, c.err) /\ (a \in raced' \/ InstallSees(pc, c.found, scm', a))
    BY <1>2, <2>1, <2>2, Zenon DEF InstallForm, InstallSees, Starting, Stopping, Alive
  <2> QED BY <1>1, <1>4, <2>1, <2>2, <2>3, GotoInstall, ZenonT(30)
<1>10. CASE WaitDeleted(a)
  <2>1. PICK pc : CmdGoto(a, pc) /\ c.pc = "waitDeleted" /\ pc \in {c.ok, c.err}
    BY <1>10, Zenon DEF WaitDeleted, CallSucceeds, CallFails, CmdAt
  <2>2. scm' = scm /\ raced' = raced
    BY <1>10 DEF WaitDeleted
  <2>3. c.name = "install" =>
          InstallForm(pc, c.ok, c.err) /\ (a \in raced' \/ InstallSees(pc, c.found, scm', a))
    BY <1>2, <2>1, <2>2, Zenon DEF InstallForm, InstallSees, Starting, Stopping
  <2> QED BY <1>1, <1>4, <2>1, <2>2, <2>3, GotoInstall, ZenonT(30)
<1>11. CASE CallRefused(a)
  <2>1. PICK pc : CmdGoto(a, pc) /\ pc \in {"failed", c.err}
    BY <1>11, ZenonT(30) DEF CallRefused
  <2>2. scm' = scm /\ raced' = raced
    BY <1>11, ZenonT(30) DEF CallRefused
  <2>3. c.name = "install" =>
          InstallForm(pc, c.ok, c.err) /\ (a \in raced' \/ InstallSees(pc, c.found, scm', a))
    BY <1>2, <2>1, <2>2, Zenon DEF InstallForm, InstallSees, Starting, Stopping
  <2> QED BY <1>1, <1>4, <2>1, <2>2, <2>3, GotoInstall, ZenonT(30)
<1> QED BY <1>5, <1>6, <1>7, <1>8, <1>9, <1>10, <1>11, Zenon

(* install and uninstall. *)
LEMMA InstallInstall ==
    ASSUME HandleIInv, RunIInv, NEW a \in Admin,
           \/ InstallOpen(a) \/ InstallConfigure(a) \/ InstallMarked(a)
           \/ InstallRestart(a) \/ InstallCreate(a) \/ UninstallDelete(a)
    PROVE  RunIInv'
<1> DEFINE c == cmd[a]
<1>1. c \in CommandState
  <2>1. c.pc # "idle"
    BY Zenon DEF InstallOpen, InstallConfigure, InstallMarked, InstallRestart,
               InstallCreate, UninstallDelete, CmdAt
  <2>2. c \in {NoCommand} \cup CommandState /\ NoCommand.pc = "idle"
    BY Zenon DEF HandleIInv, NoCommand
  <2> QED BY <2>1, <2>2, Zenon
<1>2. c.name = "install" =>
         InstallForm(c.pc, c.ok, c.err) /\ (a \in raced \/ InstallSees(c.pc, c.found, scm, a))
  BY DEF RunIInv
<1>3. scm \in ServiceState
  BY DEF HandleIInv
<1>4. ASSUME scm' = scm, raced \subseteq raced' PROVE TouchesWell(a)
  BY <1>4, TouchesNothing, Zenon
<1>5. InstallForm("waitDeleted", "create", "failed") /\ InstallForm("waitDeleted", "recreate", "failed")
      /\ InstallForm("start", "done", "failed") /\ InstallForm("stop", "restart", "failed")
  BY Zenon DEF InstallForm, Starting, Stopping
<1>6. ASSUME NEW ok \in {"create", "recreate"}, CmdCall(a, "waitDeleted", ok, "failed"),
             scm' = scm, raced' = raced
      PROVE  RunIInv'
  <2>1. InstallSees("waitDeleted", "none", scm', a)
    BY DEF InstallSees, Starting, Stopping
  <2> QED BY <1>1, <1>4, <1>5, <1>6, <2>1, CallInstall, Zenon
<1>7. CASE InstallOpen(a)
  <2>0. c.pc = "open" /\ scm' = scm /\ raced \subseteq raced'
    BY <1>7, Zenon DEF InstallOpen, CmdAt
  <2>1. CASE CmdGoto(a, "create")
    <3>1. c.name = "install" => InstallForm("create", c.ok, c.err)
      BY <1>2, Zenon DEF InstallForm, Starting, Stopping
    <3>2. InstallSees("create", c.found, scm', a)
      BY Zenon DEF InstallSees, Starting, Stopping
    <3> QED BY <1>1, <1>4, <2>0, <2>1, <3>1, <3>2, GotoInstall, Zenon
  <2>2. CASE CmdCall(a, "waitDeleted", "create", "failed") /\ raced' = raced
    BY <1>6, <2>0, <2>2
  <2>3. ASSUME NEW found \in {scm.state, "unknown"},
               cmd' = [cmd EXCEPT ![a].pc = "configure", ![a].found = found],
               raced' = IF scm.state = "start_pending" \/ found = "unknown"
                        THEN raced \cup {a} ELSE raced
        PROVE  RunIInv'
    <3> DEFINE d == [c EXCEPT !.pc = "configure", !.found = found]
    <3>1. d.name = c.name /\ d.pc = "configure" /\ d.ok = c.ok /\ d.err = c.err /\ d.found = found
      BY <1>1 DEF CommandState
    <3>2. cmd' = [cmd EXCEPT ![a] = d]
      BY <2>3, Zenon DEF HandleIInv
    <3>3. c.name = "install" => InstallForm("configure", c.ok, c.err)
      BY <1>2 DEF InstallForm, Starting, Stopping
    <3>4. a \in raced' \/ InstallSees("configure", found, scm', a)
      BY <1>3, <2>0, <2>3, Zenon DEF InstallSees, Starting, Stopping, ServiceState
    <3> HIDE DEF d
    <3>5. TouchesWell(a)
      BY <1>4, <2>0, Zenon
    <3>6. d.name = "install" =>
             InstallForm(d.pc, d.ok, d.err) /\ (a \in raced' \/ InstallSees(d.pc, d.found, scm', a))
      BY <3>1, <3>3, <3>4, Zenon
    <3> QED BY <3>2, <3>5, <3>6, OneInstallStep, Zenon DEF TouchesWell
  <2> QED BY <1>7, <2>1, <2>2, <2>3 DEF InstallOpen
<1>8. CASE InstallConfigure(a)
  <2>0. c.pc = "configure" /\ raced' = raced \cup (Installing \ {a}) /\ scm' = [scm EXCEPT !.exe = a]
    BY <1>8 DEF InstallConfigure, CmdAt
  <2>1. scm' \in ServiceState /\ scm'.exe = a /\ scm'.reg = "ok" /\ scm'.state = scm.state
    BY <1>3, <1>8 DEF InstallConfigure, ServiceState
  <2>2. TouchesWell(a)
    BY <2>0, <2>1, ZenonT(30) DEF TouchesWell
  <2>3. CASE c.found = "running"
    <3>1. CmdCall(a, "stop", "restart", "failed")
      BY <1>8, <2>3, Zenon DEF InstallConfigure
    <3>2. InstallSees("stop", "none", scm', a)
      BY <2>1, Zenon DEF InstallSees, Starting, Stopping
    <3> QED BY <1>1, <1>5, <2>2, <3>1, <3>2, CallInstall, Zenon
  <2>4. CASE c.found # "running"
    <3>1. CmdCall(a, "start", "done", "failed")
      BY <1>8, <2>4 DEF InstallConfigure
    <3>2. c.name = "install" => a \in raced' \/ InstallSees("start", "none", scm', a)
      BY <1>2, <2>0, <2>1, <2>4, Zenon DEF InstallSees, Starting, Stopping, Alive
    <3> QED BY <1>1, <1>5, <2>2, <3>1, <3>2, CallInstall, Zenon
  <2> QED BY <2>3, <2>4
<1>9. CASE InstallMarked(a)
  BY <1>6, <1>9, Zenon DEF InstallMarked
<1>10. CASE InstallRestart(a)
  <2>1. c.pc = "restart" /\ CmdCall(a, "start", "done", "failed") /\ scm' = scm /\ raced' = raced
    BY <1>10, ZenonT(30) DEF InstallRestart, CmdAt
  <2>2. c.name = "install" => a \in raced' \/ InstallSees("start", "none", scm', a)
    BY <1>2, <2>1 DEF InstallSees, Starting, Stopping
  <2> QED BY <1>1, <1>4, <1>5, <2>1, <2>2, CallInstall, Zenon
<1>11. CASE InstallCreate(a)
  <2>1. CASE CmdCall(a, "waitDeleted", "recreate", "failed") /\ UNCHANGED <<scm, raced>>
    BY <1>6, <2>1
  <2>2. CASE /\ scm' = [NoService EXCEPT !.reg = "ok", !.exe = a]
             /\ CmdCall(a, "start", "done", "failed")
             /\ raced' = raced \cup (Installing \ {a})
    <3>1. scm' \in ServiceState /\ scm'.exe = a /\ scm'.reg = "ok" /\ scm'.state = "stopped"
      BY <2>2, Zenon DEF NoService, ServiceState
    <3>2. TouchesWell(a)
      BY <2>2, <3>1, ZenonT(30) DEF TouchesWell
    <3>3. InstallSees("start", "none", scm', a)
      BY <3>1, SMTT(30) DEF InstallSees, Starting, Stopping, Alive
    <3> QED BY <1>1, <1>5, <2>2, <3>2, <3>3, CallInstall, Zenon
  <2> QED BY <1>11, <2>1, <2>2, Zenon DEF InstallCreate
<1>12. CASE UninstallDelete(a)
  <2>1. c.name # "install"
    BY <1>2, <1>12, SMTT(30) DEF UninstallDelete, CmdAt, InstallForm
  <2>2. /\ scm' \in ServiceState /\ NotUp(scm, scm')
        /\ scm'.reg = "none" => scm'.state = "stopped"
    BY <1>3, <1>12 DEF UninstallDelete, NotUp, ServiceState, RunIInv
  <2>3. TouchesWell(a)
    BY <1>12, <2>2, SMTT(30) DEF TouchesWell, UninstallDelete
  <2>4. CASE CmdGoto(a, "done")
    BY <1>1, <2>1, <2>3, <2>4, GotoInstall, ZenonT(30)
  <2>5. CASE CmdCall(a, "waitDeleted", "done", "failed")
    BY <1>1, <2>1, <2>3, <2>5, CallInstall, Zenon
  <2> QED BY <1>12, <2>4, <2>5 DEF UninstallDelete
<1> QED BY <1>7, <1>8, <1>9, <1>10, <1>11, <1>12, Zenon

(* A command begins, and ends. *)
LEMMA CommandInstall ==
    ASSUME HandleIInv, RunIInv, NEW a \in Admin,
           \/ \E name \in {"install", "uninstall", "start", "stop"} : Command(a, name)
           \/ CommandOver(a)
    PROVE  RunIInv'
<1>0. scm' = scm /\ raced \ {a} \subseteq raced'
  BY DEF Command, CommandOver
<1>1. TouchesWell(a)
  BY <1>0, TouchesNothing
<1>2. ASSUME NEW name \in {"install", "uninstall", "start", "stop"}, Command(a, name)
      PROVE  RunIInv'
  <2> DEFINE c == cmd'[a]
  <2>1. cmd' = [cmd EXCEPT ![a] = c] /\ c.name = name
    BY <1>2 DEF Command, HandleIInv
  <2>2. name = "install" => c.pc = "open" /\ c.err = "failed"
    BY <1>2, Zenon DEF Command, HandleIInv
  <2> HIDE DEF c
  <2>3. c.name = "install" => InstallForm(c.pc, c.ok, c.err) /\ InstallSees(c.pc, c.found, scm', a)
    BY <2>1, <2>2 DEF InstallForm, InstallSees, Starting, Stopping
  <2> QED BY <1>1, <2>1, <2>3, OneInstallStep, Zenon DEF TouchesWell
<1>3. CASE CommandOver(a)
  <2>1. cmd' = [cmd EXCEPT ![a] = NoCommand] /\ NoCommand.name # "install"
    BY <1>3, Zenon DEF CommandOver, NoCommand
  <2> QED BY <1>1, <2>1, OneInstallStep, Zenon DEF TouchesWell
<1> QED BY <1>2, <1>3

(* An install that nobody has overtaken ends only by seeing the service    *)
(* running.                                                                *)
LEMMA InstallEnds ==
    ASSUME HandleIInv, RunIInv, NEW a \in Admin, a \notin raced, cmd[a].name = "install",
           cmd[a].pc # "done", cmd'[a].pc = "done", SvcNext
    PROVE  scm.state = "running" /\ scm.runs = a
<1> DEFINE c == cmd[a]
<1>1. InstallForm(c.pc, c.ok, c.err) /\ InstallSees(c.pc, c.found, scm, a)
  BY Zenon DEF RunIInv
<1>2. c \in CommandState
  BY DEF HandleIInv, NoCommand
<1>3. cmd' # cmd
  OBVIOUS
<1>4. PICK b \in Admin : AdminStep(b) \/ \E name \in {"install", "uninstall", "start", "stop"} : Command(b, name)
  BY <1>3 DEF SvcNext, AutoStart, ProcessRuns, ProcessEnds, EntryDeleted, ViewService
<1>5. \A pc : CmdGoto(a, pc) => cmd'[a].pc = pc
  BY <1>2 DEF CmdGoto, HandleIInv, CommandState
<1>6. \A pc, ok, err : CmdCall(a, pc, ok, err) => cmd'[a].pc = pc
  BY <1>2 DEF CmdCall, HandleIInv, CommandState
<1>7. b = a
  <2> SUFFICES ASSUME b # a PROVE cmd'[a] = cmd[a]
    OBVIOUS
  <2>1. \E d : cmd' = [cmd EXCEPT ![b] = d]
    <3>1. \A pc : CmdGoto(b, pc) => \E d : cmd' = [cmd EXCEPT ![b] = d]
      BY DEF CmdGoto
    <3>2. \A pc, ok, err : CmdCall(b, pc, ok, err) => \E d : cmd' = [cmd EXCEPT ![b] = d]
      BY DEF CmdCall
    <3>3. CASE StartOpen(b) \/ StartCall(b) \/ StopOpen(b) \/ StopControl(b) \/ WaitState(b)
               \/ WaitDeleted(b) \/ CallRefused(b)
      BY <3>1, <3>3, Zenon DEF StartOpen, StartCall, StopOpen, StopControl, WaitState, WaitDeleted,
                        CallRefused, CallSucceeds, CallFails
    <3>4. CASE InstallOpen(b)
      BY <3>1, <3>2, <3>4, Zenon DEF InstallOpen
    <3>5. CASE InstallConfigure(b) \/ InstallMarked(b) \/ InstallRestart(b) \/ InstallCreate(b)
               \/ UninstallDelete(b)
      BY <3>1, <3>2, <3>5, Zenon DEF InstallConfigure, InstallMarked, InstallRestart,
                              InstallCreate, UninstallDelete
    <3>6. CASE CommandOver(b)
      BY <3>6 DEF CommandOver
    <3>7. CASE \E name \in {"install", "uninstall", "start", "stop"} : Command(b, name)
      BY <3>7 DEF Command
    <3> QED BY <1>4, <3>3, <3>4, <3>5, <3>6, <3>7, Zenon DEF AdminStep
  <2> QED BY <2>1 DEF HandleIInv
<1>8. CASE StartOpen(a)
  <2>1. c.pc = "start" /\ (CmdGoto(a, "waitRunning") \/ CmdGoto(a, "waitEnd")
                           \/ CmdGoto(a, "startCall") \/ scm.state = "running")
    BY <1>8, Zenon DEF StartOpen, CmdAt
  <2> QED BY <1>1, <1>5, <2>1, Zenon DEF InstallSees, Starting, Alive, InstallForm
<1>9. CASE WaitState(a)
  <2>1. \/ c.pc = "waitRunning" /\ scm.state = "running"
        \/ c.pc = "waitStopped" /\ CmdGoto(a, c.ok)
        \/ CmdGoto(a, "startCall")
        \/ CmdGoto(a, c.err)
    BY <1>9, ZenonT(30) DEF WaitState, CallSucceeds, CallFails, CmdAt
  <2> QED BY <1>1, <1>5, <2>1, Zenon DEF InstallSees, Starting, Stopping, Alive, InstallForm
<1>10. CASE StartCall(a) \/ StopControl(a) \/ CallRefused(a)
  <2>1. CmdGoto(a, "waitRunning") \/ CmdGoto(a, "waitStopped") \/ CmdGoto(a, "failed") \/ CmdGoto(a, c.err)
    BY <1>10 DEF StartCall, StopControl, CallRefused
  <2> QED BY <1>1, <1>5, <2>1, SMTT(30) DEF InstallForm
<1>11. CASE StopOpen(a)
  <2>1. c.pc = "stop" /\ (CmdGoto(a, "waitStopped") \/ CmdGoto(a, "control") \/ CmdGoto(a, c.ok))
    BY <1>11, ZenonT(30) DEF StopOpen, CallSucceeds, CmdAt
  <2> QED BY <1>1, <1>5, <2>1, Zenon DEF InstallForm, Stopping
<1>12. CASE WaitDeleted(a)
  <2>1. c.pc = "waitDeleted" /\ (CmdGoto(a, c.ok) \/ CmdGoto(a, c.err))
    BY <1>12, Zenon DEF WaitDeleted, CallSucceeds, CallFails, CmdAt
  <2> QED BY <1>1, <1>5, <2>1, Zenon DEF InstallForm
<1>13. CASE InstallOpen(a)
  <2>1. CASE \E found \in {scm.state, "unknown"} :
                cmd' = [cmd EXCEPT ![a].pc = "configure", ![a].found = found]
    BY <1>2, <2>1, ZenonT(100) DEF HandleIInv, CommandState
  <2> QED BY <1>5, <1>6, <1>13, <2>1, Zenon DEF InstallOpen
<1>14. CASE InstallConfigure(a) \/ InstallMarked(a) \/ InstallRestart(a) \/ InstallCreate(a)
  BY <1>6, <1>14, Zenon DEF InstallConfigure, InstallMarked, InstallRestart, InstallCreate
<1>15. CASE UninstallDelete(a)
  BY <1>1, <1>15, Zenon DEF UninstallDelete, CmdAt, InstallForm
<1>16. CASE CommandOver(a)
  BY <1>16 DEF CommandOver, NoCommand, HandleIInv
<1>17. CASE \E name \in {"install", "uninstall", "start", "stop"} : Command(a, name)
  BY <1>17 DEF Command, NoCommand
<1> QED
  BY <1>4, <1>7, <1>8, <1>9, <1>10, <1>11, <1>12, <1>13, <1>14, <1>15, <1>16, <1>17, ZenonT(30) DEF AdminStep

(* However many commands run at the same time, and whatever the service    *)
(* does by itself, an install that returns nil and was not overtaken has   *)
(* the service run the executable it was called from.                      *)
THEOREM InstalledRunsItself == SvcSpec => InstallRunsItself
<1>1. SvcInit => RunIInv
  BY DEF SvcInit, RunIInv, NoCommand, NoService
<1>2. HandleIInv /\ RunIInv /\ [SvcNext]_svcVars => RunIInv'
  <2> SUFFICES ASSUME HandleIInv, RunIInv, [SvcNext]_svcVars PROVE RunIInv'
    OBVIOUS
  <2>1. CASE UNCHANGED svcVars
    BY <2>1, SMTT(30) DEF svcVars, RunIInv
  <2>2. CASE AutoStart \/ ProcessRuns \/ ProcessEnds \/ EntryDeleted \/ ViewService
    BY <2>2, ManagerKeepsInstalls, Zenon
  <2>3. ASSUME NEW a \in Admin,
               \/ \E name \in {"install", "uninstall", "start", "stop"} : Command(a, name)
               \/ AdminStep(a)
        PROVE  RunIInv'
    BY <2>3, StartStopInstall, InstallInstall, CommandInstall, Zenon DEF AdminStep
  <2> QED BY <2>1, <2>2, <2>3, SMTT(30) DEF SvcNext
<1>3. HandleIInv /\ RunIInv /\ [SvcNext]_svcVars =>
         [\A a \in Admin \ raced :
             cmd[a].name = "install" /\ cmd[a].pc # "done" /\ cmd'[a].pc = "done" =>
                 scm.state = "running" /\ scm.runs = a]_svcVars
  BY InstallEnds
<1> QED BY <1>1, <1>2, <1>3, HandleInvariant, PTL DEF SvcSpec, InstallRunsItself
=============================================================================
