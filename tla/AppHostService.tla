--------------------------- MODULE AppHostService ----------------------------
(***************************************************************************)
(* `apphost install | uninstall | start | stop` (the service functions of  *)
(* internal/privilege/privilege_windows.go): administrators drive the      *)
(* Windows service manager, each with an executable of their own, while    *)
(* the service starts, stops and fails by itself, the manager starts it,   *)
(* and somebody may be looking at it in Services.msc.                      *)
(*                                                                         *)
(* A service that is deleted while handles on it are open, or while it     *)
(* runs, stays marked for deletion until the last handle is closed and its *)
(* process has ended; meanwhile its name cannot be used.  OpenService and  *)
(* the Query after it are one step: nothing happens to a service between   *)
(* them that could not as well happen before.  AppHost takes starting and  *)
(* stopping the service for atomic; this module looks into them.           *)
(***************************************************************************)
EXTENDS FiniteSets

CONSTANTS
    Admin,          \* commands run at the same time, and their executables
    OldExe          \* the executable of an earlier installation

VARIABLES
    scm,            \* the service manager's entry
    handles,        \* who holds a handle on the service
    cmd,            \* cmd[a]: the command of a and where it is
    raced           \* history: installs that did not see the service as it
                    \* was when they configured it, or saw it starting

svcVars == <<scm, handles, cmd, raced>>

Viewer == "Services.msc"
NoExe == "none"

ASSUME ViewerAssumption == Viewer \notin Admin

NoCommand == [name |-> "none", pc |-> "idle"]
NoService == [reg |-> "none", state |-> "stopped", exe |-> NoExe, runs |-> NoExe]

SvcInit ==
    /\ \/ scm = NoService
       \/ scm \in {[reg |-> "ok", state |-> "stopped", exe |-> OldExe, runs |-> NoExe],
                   [reg |-> "ok", state |-> "running", exe |-> OldExe, runs |-> OldExe]}
    /\ handles = {}
    /\ cmd = [a \in Admin |-> NoCommand]
    /\ raced = {}

-----------------------------------------------------------------------------
(* The service manager and the service's process (external), but for       *)
(* Execute, which reports the states.                                      *)

\* The process of the service is created from the executable on record.
Launch ==
    /\ scm' = [scm EXCEPT !.state = "start_pending", !.runs = scm.exe]
    /\ raced' = raced \cup {a \in Admin : cmd[a].pc = "configure"}

\* The manager's own start, at boot or for a client.
AutoStart ==
    /\ scm.reg = "ok" /\ scm.state = "stopped"
    /\ Launch
    /\ UNCHANGED <<handles, cmd>>

\* Execute reports Running once its goroutine is started.
ProcessRuns ==
    /\ scm.state = "start_pending"
    /\ scm' = [scm EXCEPT !.state = "running"]
    /\ UNCHANGED <<handles, cmd, raced>>

\* Execute returns after a Stop, at most ten seconds later, or because
\* RunAppHostConsole failed.
ProcessEnds ==
    /\ scm.state # "stopped"
    /\ scm' = [scm EXCEPT !.state = "stopped", !.runs = NoExe]
    /\ UNCHANGED <<handles, cmd, raced>>

EntryDeleted ==
    /\ scm.reg = "marked" /\ scm.state = "stopped" /\ handles = {}
    /\ scm' = NoService
    /\ UNCHANGED <<handles, cmd, raced>>

ViewService ==
    /\ scm.reg # "none"
    /\ handles' = IF Viewer \in handles THEN handles \ {Viewer} ELSE handles \cup {Viewer}
    /\ UNCHANGED <<scm, cmd, raced>>

-----------------------------------------------------------------------------
(* A command is a sequence of calls; "ok" and "err" in its record say      *)
(* where it goes on when the call it is in returns.                        *)

CmdAt(a, pc) == cmd[a].pc = pc
CmdGoto(a, pc) == cmd' = [cmd EXCEPT ![a].pc = pc]
OpenHandle(a) == handles' = handles \cup {a}
CloseHandle(a) == handles' = handles \ {a}

\* The call returns nil, or an error; either closes its handle.
CallSucceeds(a) == CmdGoto(a, cmd[a].ok) /\ CloseHandle(a)
CallFails(a) == CmdGoto(a, cmd[a].err) /\ CloseHandle(a)

\* The installs in progress.
Installing == {a \in Admin : cmd[a].name = "install"}

CmdCall(a, pc, ok, err) ==
    cmd' = [cmd EXCEPT ![a] = [@ EXCEPT !.pc = pc, !.ok = ok, !.err = err, !.found = "none"]]

Command(a, name) ==
    /\ cmd[a] = NoCommand
    /\ cmd' = [cmd EXCEPT ![a] =
           [name |-> name, found |-> "none",
            pc |-> CASE name = "install" -> "open" [] name = "start" -> "start" [] OTHER -> "stop",
            ok |-> IF name = "uninstall" THEN "delete" ELSE "done",
            err |-> IF name = "uninstall" THEN "delete" ELSE "failed"]]
    /\ UNCHANGED <<scm, handles, raced>>

CommandOver(a) ==
    /\ cmd[a].pc \in {"done", "failed"}
    /\ cmd' = [cmd EXCEPT ![a] = NoCommand]
    /\ raced' = raced \ {a}
    /\ UNCHANGED <<scm, handles>>

\* Any call to the manager may fail, and any wait may be cancelled.
CallRefused(a) ==
    /\ cmd[a].pc \in {"open", "configure", "create", "recreate", "delete",
                      "start", "startCall", "stop", "control"}
    /\ CmdGoto(a, IF CmdAt(a, "delete") THEN "failed" ELSE cmd[a].err)
    /\ CloseHandle(a)
    /\ UNCHANGED <<scm, raced>>

-----------------------------------------------------------------------------
(* StartAppHostService *)

\* A service that is stopped is started, and so is one whose Query fails.
StartOpen(a) ==
    /\ CmdAt(a, "start") /\ scm.reg # "none"
    /\ \/ scm.state = "running" /\ CallSucceeds(a)
       \/ scm.state = "start_pending" /\ CmdGoto(a, "waitRunning") /\ OpenHandle(a)
       \/ scm.state = "stop_pending" /\ CmdGoto(a, "waitEnd") /\ OpenHandle(a)
       \/ CmdGoto(a, "startCall") /\ OpenHandle(a)
    /\ UNCHANGED <<scm, raced>>

\* An instance that runs already is no error.
StartCall(a) ==
    /\ CmdAt(a, "startCall")
    /\ \/ scm.reg = "ok" /\ scm.state = "stopped" /\ Launch
       \/ scm.state # "stopped" /\ UNCHANGED <<scm, raced>>
    /\ CmdGoto(a, "waitRunning")
    /\ UNCHANGED handles

(* StopAppHostService *)

\* Any other service, and one whose Query fails, is sent the control.
StopOpen(a) ==
    /\ CmdAt(a, "stop") /\ scm.reg # "none"
    /\ \/ scm.state = "stopped" /\ CallSucceeds(a)
       \/ scm.state = "stop_pending" /\ CmdGoto(a, "waitStopped") /\ OpenHandle(a)
       \/ CmdGoto(a, "control") /\ OpenHandle(a)
    /\ UNCHANGED <<scm, raced>>

\* Only a running service takes the control; one that has ended is no error.
StopControl(a) ==
    /\ CmdAt(a, "control")
    /\ \/ scm.state = "running" /\ scm' = [scm EXCEPT !.state = "stop_pending"]
       \/ scm.state = "stopped" /\ UNCHANGED scm
    /\ CmdGoto(a, "waitStopped")
    /\ UNCHANGED <<handles, raced>>

(* waitForServiceState *)

WaitState(a) ==
    /\ \/ CmdAt(a, "waitRunning") /\ scm.state = "running" /\ CallSucceeds(a)
       \/ CmdAt(a, "waitStopped") /\ scm.state = "stopped" /\ CallSucceeds(a)
       \/ CmdAt(a, "waitEnd") /\ scm.state = "stopped" /\ CmdGoto(a, "startCall") /\ UNCHANGED handles
       \/ cmd[a].pc \in {"waitRunning", "waitStopped", "waitEnd"} /\ CallFails(a)
    /\ UNCHANGED <<scm, raced>>

-----------------------------------------------------------------------------
(* InstallAppHostService *)

\* A marked service may be refused, or opened all the same.  The Query after
\* it may fail.
InstallOpen(a) ==
    /\ CmdAt(a, "open")
    /\ \/ scm.reg = "none" /\ CmdGoto(a, "create") /\ UNCHANGED <<handles, raced>>
       \/ scm.reg = "marked" /\ CmdCall(a, "waitDeleted", "create", "failed")
          /\ UNCHANGED <<handles, raced>>
       \/ /\ scm.reg # "none"
          /\ \E found \in {scm.state, "unknown"} :
                /\ cmd' = [cmd EXCEPT ![a].pc = "configure", ![a].found = found]
                /\ raced' = IF scm.state = "start_pending" \/ found = "unknown"
                            THEN raced \cup {a} ELSE raced
          /\ OpenHandle(a)
    /\ UNCHANGED scm

\* Mutant: the service is not restarted after the update.
InstallConfigureInPlace(a) ==
    /\ CmdAt(a, "configure") /\ scm.reg = "ok"
    /\ scm' = [scm EXCEPT !.exe = a]
    /\ CmdCall(a, "start", "done", "failed")
    /\ raced' = raced \cup (Installing \ {a})
    /\ CloseHandle(a)

\* configureAppHostService; a service that ran is stopped first, then started.
InstallConfigure(a) ==
    /\ CmdAt(a, "configure") /\ scm.reg = "ok"
    /\ scm' = [scm EXCEPT !.exe = a]
    /\ IF cmd[a].found = "running"
       THEN CmdCall(a, "stop", "restart", "failed")
       ELSE CmdCall(a, "start", "done", "failed")
    /\ raced' = raced \cup (Installing \ {a})
    /\ CloseHandle(a)

InstallMarked(a) ==
    /\ CmdAt(a, "configure") /\ scm.reg = "marked"
    /\ CmdCall(a, "waitDeleted", "create", "failed")
    /\ CloseHandle(a)
    /\ UNCHANGED <<scm, raced>>

\* The Stop of a restart has returned: the Start after it ends the command.
InstallRestart(a) ==
    /\ CmdAt(a, "restart")
    /\ CmdCall(a, "start", "done", "failed")
    /\ UNCHANGED <<scm, handles, raced>>

\* createAppHostService: one more try after a service marked for deletion has
\* gone.  The new handle is kept until the service has started.
InstallCreate(a) ==
    /\ cmd[a].pc \in {"create", "recreate"}
    /\ \/ /\ scm.reg = "none"
          /\ scm' = [NoService EXCEPT !.reg = "ok", !.exe = a]
          /\ CmdCall(a, "start", "done", "failed")
          /\ raced' = raced \cup (Installing \ {a})
          /\ OpenHandle(a)
       \/ /\ scm.reg = "marked" /\ CmdAt(a, "create")
          /\ CmdCall(a, "waitDeleted", "recreate", "failed")
          /\ UNCHANGED <<scm, handles, raced>>

(* UninstallAppHostService *)

\* Mutant: the handle is still open while the deletion is waited for.
UninstallDeleteHolding(a) ==
    /\ CmdAt(a, "delete")
    /\ \/ /\ scm.reg = "none"
          /\ CmdGoto(a, "done") /\ UNCHANGED <<scm, handles>>
       \/ /\ scm.reg = "ok"
          /\ scm' = [scm EXCEPT !.reg = "marked"]
          /\ CmdCall(a, "waitDeleted", "done", "failed") /\ OpenHandle(a)
    /\ UNCHANGED raced

\* The error of Stop is ignored.  The handle is closed before the wait.
UninstallDelete(a) ==
    /\ CmdAt(a, "delete")
    /\ \/ /\ scm.reg = "none"
          /\ CmdGoto(a, "done") /\ UNCHANGED scm
       \/ /\ scm.reg = "ok"
          /\ scm' = [scm EXCEPT !.reg = "marked"]
          /\ CmdCall(a, "waitDeleted", "done", "failed")
       \/ /\ scm.reg = "marked"
          /\ UNCHANGED scm
          /\ CmdCall(a, "waitDeleted", "done", "failed")
    /\ UNCHANGED <<handles, raced>>

\* waitForAppHostServiceDeleted opens and closes a handle each time it looks: one
\* step here, since in between it waits for nobody and only puts EntryDeleted off.
WaitDeleted(a) ==
    /\ CmdAt(a, "waitDeleted")
    /\ \/ scm.reg = "none" /\ CallSucceeds(a)
       \/ scm.reg # "none" /\ CallFails(a)
    /\ UNCHANGED <<scm, raced>>

-----------------------------------------------------------------------------
AdminStep(a) ==
    \/ StartOpen(a) \/ StartCall(a) \/ StopOpen(a) \/ StopControl(a) \/ WaitState(a)
    \/ InstallOpen(a) \/ InstallConfigure(a) \/ InstallMarked(a)
    \/ InstallRestart(a) \/ InstallCreate(a)
    \/ UninstallDelete(a) \/ WaitDeleted(a) \/ CallRefused(a) \/ CommandOver(a)

SvcNext ==
    \/ AutoStart \/ ProcessRuns \/ ProcessEnds \/ EntryDeleted \/ ViewService
    \/ \E a \in Admin :
          \/ \E name \in {"install", "uninstall", "start", "stop"} : Command(a, name)
          \/ AdminStep(a)

SvcSpec == SvcInit /\ [][SvcNext]_svcVars

-----------------------------------------------------------------------------
(* `apphost install` that returns nil has the service run the executable   *)
(* it was called from, whatever the service did before.  The exceptions    *)
(* are in the history: it restarts only a service its one Query saw        *)
(* running, so one that was starting then, or was started before the new   *)
(* configuration was in, goes on with the old executable; and another      *)
(* install may have come in between.                                       *)
InstallRunsItself ==
    [][\A a \in Admin \ raced :
          cmd[a].name = "install" /\ cmd[a].pc # "done" /\ cmd'[a].pc = "done" =>
              scm.state = "running" /\ scm.runs = a]_svcVars

(* Nobody who waits for a service to be deleted is what keeps it: the      *)
(* handles that hold up a deletion belong to others, or to calls with a    *)
(* deadline of their own.                                                  *)
WaitsForOthers ==
    scm.reg = "marked" /\ scm.state = "stopped" /\ handles # {} =>
        \E h \in handles : h \in Admin => cmd[h].pc # "waitDeleted"
=============================================================================
