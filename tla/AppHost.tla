------------------------------ MODULE AppHost -------------------------------
(***************************************************************************)
(* internal/privilege on Windows: a process without system privileges has  *)
(* its Apply and Restore calls carried out by the AppHost service, one     *)
(* request per named-pipe connection.  Every connection is served by a     *)
(* goroutine of its own; nothing in the service serialises them.  A client *)
(* whose pipe breaks restarts the service and sends the request again.     *)
(*                                                                         *)
(* A member of Client is a process that makes one request after another;   *)
(* job[c] is the call the service executes for it.  Stopping and starting  *)
(* the service are atomic (StopPending and StartPending are waited for).   *)
(***************************************************************************)
EXTENDS SystemChange

CONSTANTS
    Client,         \* unprivileged processes
    Request,        \* the requests they make: <<op, target>>
    TakeTurns       \* TRUE: a client asks when no other request is in progress

VARIABLES
    client,         \* client[c]: where runAppHostRequestPlatform of c is
    req,            \* req[c]: its request
    pipe,           \* pipe[c]: the connection of c
    service         \* state of the Windows service

appVars == <<client, req, pipe, service>>
appHostVars == <<sysVars, appVars>>

ASSUME ClientAssumption ==
    /\ Client \subseteq Actor
    /\ Request \subseteq ({"apply"} \X Mode) \cup ({"restore"} \X Kind)
    /\ TakeTurns \in BOOLEAN

(* The request is on its way, being executed, answered, or the connection  *)
(* is broken.                                                              *)
PipeState == {"none", "open", "handling", "ok", "err", "broken"}

NoRequest == <<"none", "none">>

appSysOut == <<settings, hostsLines, rollback, user, lost>>

AppInit ==
    /\ SysInit
    /\ client = [c \in Client |-> "idle"]
    /\ req = [c \in Client |-> NoRequest]
    /\ pipe = [c \in Client |-> "none"]
    /\ service \in {"stopped", "running"}

ClientGoto(c, pc) == client' = [client EXCEPT ![c] = pc]

(* The call returns, with or without an error. *)
RequestOver(c) ==
    /\ ClientGoto(c, "idle")
    /\ req' = [req EXCEPT ![c] = NoRequest]
    /\ pipe' = [pipe EXCEPT ![c] = "none"]

-----------------------------------------------------------------------------
(* The client: runAppHostRequestPlatform *)

Ask(c, r) ==
    /\ client[c] = "idle"
    /\ TakeTurns => \A d \in Client : client[d] = "idle"
    /\ ClientGoto(c, "health")
    /\ req' = [req EXCEPT ![c] = r]
    /\ UNCHANGED <<pipe, service>> /\ UNCHANGED sysVars

\* ensureAppHostStarted: a health request, which may also miss its timeout.
Health(c) ==
    /\ client[c] = "health"
    /\ \/ service = "running" /\ ClientGoto(c, "connect")
       \/ ClientGoto(c, "startService")
    /\ UNCHANGED <<req, pipe, service>> /\ UNCHANGED sysVars

\* ... StartAppHostService, and health requests until one is answered.
StartService(c) ==
    /\ client[c] = "startService"
    /\ \/ /\ service' = "running"
          /\ ClientGoto(c, "connect")
          /\ UNCHANGED <<req, pipe>>
       \/ RequestOver(c) /\ service' \in {service, "running"}
    /\ UNCHANGED sysVars

\* openAppHostPipe retries while there is no pipe, up to its deadline.
Connect(c) ==
    /\ client[c] \in {"connect", "reconnect"}
    /\ \/ /\ service = "running"
          /\ pipe' = [pipe EXCEPT ![c] = "open"]
          /\ ClientGoto(c, IF client[c] = "connect" THEN "wait" ELSE "rewait")
          /\ UNCHANGED req
       \/ RequestOver(c)
    /\ UNCHANGED service /\ UNCHANGED sysVars

\* Mutant: the request is sent again for as long as the pipe breaks.
ReadAnswerForever(c) ==
    /\ client[c] \in {"wait", "rewait"}
    /\ \/ pipe[c] \in {"ok", "err"} /\ RequestOver(c)
       \/ /\ pipe[c] = "broken"
          /\ ClientGoto(c, "restart")
          /\ pipe' = [pipe EXCEPT ![c] = "none"]
          /\ UNCHANGED req
    /\ UNCHANGED service /\ UNCHANGED sysVars

\* readPipeFrame and parseAppHostResponse; only a disconnect is retried.
ReadAnswer(c) ==
    /\ client[c] \in {"wait", "rewait"}
    /\ \/ pipe[c] \in {"ok", "err"} /\ RequestOver(c)
       \/ /\ pipe[c] = "broken"
          /\ \/ RequestOver(c)
             \/ /\ client[c] = "wait"
                /\ ClientGoto(c, "restart")
                /\ pipe' = [pipe EXCEPT ![c] = "none"]
                /\ UNCHANGED req
    /\ UNCHANGED service /\ UNCHANGED sysVars

\* The service process ends, and with it every handler it was running.
ServiceEnds ==
    /\ service' = "stopped"
    /\ job' = [a \in Actor |-> IF a \in Client THEN Idle ELSE job[a]]
    /\ pipe' \in {f \in [Client -> PipeState] : \A c \in Client :
                     \/ pipe[c] \in {"none", "broken"} /\ f[c] = pipe[c]
                     \/ pipe[c] \in {"open", "handling"} /\ f[c] = "broken"
                     \/ pipe[c] \in {"ok", "err"} /\ f[c] \in {pipe[c], "broken"}}
    /\ UNCHANGED appSysOut

\* restartAppHostService: the error of the stop is ignored ...
RestartStop(c) ==
    /\ client[c] = "restart"
    /\ \/ service = "running" /\ ServiceEnds
       \/ UNCHANGED <<service, pipe>> /\ UNCHANGED sysVars
    /\ ClientGoto(c, "restarted")
    /\ UNCHANGED req

\* ... the error of the start is not.
RestartStart(c) ==
    /\ client[c] = "restarted"
    /\ \/ service' = "running" /\ ClientGoto(c, "reconnect") /\ UNCHANGED <<req, pipe>>
       \/ RequestOver(c) /\ UNCHANGED service
    /\ UNCHANGED sysVars

\* The client process is killed; the service notices nothing.
ClientDies(c) ==
    /\ client[c] \notin {"idle", "dead"}
    /\ ClientGoto(c, "dead")
    /\ UNCHANGED <<req, pipe, service>> /\ UNCHANGED sysVars

\* Its last request is through, and another process takes its place.
ClientReplaced(c) ==
    /\ client[c] = "dead"
    /\ pipe[c] \notin {"open", "handling"}
    /\ RequestOver(c)
    /\ UNCHANGED service /\ UNCHANGED sysVars

-----------------------------------------------------------------------------
(* The service: handlePipe *)

\* Read and validate the request, then executeHelperRequest.
Handle(c) ==
    /\ pipe[c] = "open"
    /\ \/ /\ pipe' = [pipe EXCEPT ![c] = "handling"]
          /\ \/ req[c][1] = "apply" /\ CallApply(c, req[c][2])
             \/ req[c][1] = "restore" /\ CallRestore(c, req[c][2])
       \/ pipe' = [pipe EXCEPT ![c] = "err"] /\ UNCHANGED job
    /\ UNCHANGED <<client, req, service>> /\ UNCHANGED appSysOut

Execute(c) == pipe[c] = "handling" /\ Working(c) /\ UNCHANGED appVars

\* Mutant: the error of the request is dropped.
AnswerAlwaysOk(c) ==
    /\ pipe[c] = "handling"
    /\ job[c].pc \in Returned
    /\ pipe' = [pipe EXCEPT ![c] = "ok"]
    /\ job' = [job EXCEPT ![c] = Idle]
    /\ UNCHANGED <<client, req, service>> /\ UNCHANGED appSysOut

\* ErrNoState is an error like any other here.  The answer may get lost.
Answer(c) ==
    /\ pipe[c] = "handling"
    /\ job[c].pc \in Returned
    /\ pipe' = [pipe EXCEPT ![c] = IF job[c].pc = "ok" THEN "ok" ELSE "err"]
       \/ pipe' = [pipe EXCEPT ![c] = "broken"]
    /\ job' = [job EXCEPT ![c] = Idle]
    /\ UNCHANGED <<client, req, service>> /\ UNCHANGED appSysOut

\* `apphost stop`, or a crash of the service.
ServiceDies ==
    /\ service = "running"
    /\ ServiceEnds
    /\ UNCHANGED <<client, req>>

ClientStep(c) ==
    \/ Health(c) \/ StartService(c) \/ Connect(c) \/ ReadAnswer(c)
    \/ RestartStop(c) \/ RestartStart(c)

HandlerStep(c) == Handle(c) \/ Execute(c) \/ Answer(c)

AppNext ==
    \/ \E c \in Client : \/ \E r \in Request : Ask(c, r)
                         \/ ClientStep(c) \/ HandlerStep(c)
                         \/ ClientDies(c) \/ ClientReplaced(c)
    \/ ServiceDies

(* Clients and handlers are scheduled; the calls a handler makes go on     *)
(* (a write that stays in the same place is no progress) and end, as its   *)
(* context has a deadline.                                                 *)
AppFairness ==
    \A c \in Client : /\ WF_appHostVars(ClientStep(c))
                      /\ WF_<<job, appVars>>(HandlerStep(c))

AppSpec == AppInit /\ [][AppNext]_appHostVars /\ AppFairness

-----------------------------------------------------------------------------
(* An OK that reaches the client is about its own request, even if that    *)
(* was sent twice: an applied mode has its rollback state on disk, a       *)
(* restored one has none left.                                             *)
AnswerIsTrue ==
    \A c \in Client : client[c] \in {"wait", "rewait"} /\ pipe[c] = "ok" =>
        IF req[c][1] = "apply" THEN Holds(rollback) /\ rollback.kind = KindOf(req[c][2])
                               ELSE rollback = NoFile

(* Every request ends, whatever the service does under it: clients whose   *)
(* pipes break restart it under each other, each breaking the pipe of the  *)
(* other, but a request is sent again only once.                           *)
RequestEnds ==
    \A c \in Client : []<>(client[c] \in {"idle", "dead"})
=============================================================================
