----------------------------- MODULE Lifecycle ------------------------------
(***************************************************************************)
(* cmd/steam-accelerator and internal/runtime: `start` runs the engine in  *)
(* the foreground, serves a control endpoint and publishes a state file;   *)
(* `stop` and `status` find the process through that file; `restore` works *)
(* on the rollback file alone.                                             *)
(*                                                                         *)
(* A member of Proc is one invocation of `start`, a member of Cmd a shell  *)
(* from which the other commands are issued, one after the other.  The     *)
(* state file is identified with the process that wrote it (its address    *)
(* and token lead to that process only).                                   *)
(***************************************************************************)
EXTENDS Engine

CONSTANTS
    Cmd,            \* shells that issue stop, status and restore
    SlowControl,    \* TRUE: a control request may miss its 2s timeout
    RestoreAlone    \* TRUE: `restore` is never used alongside a `start`

VARIABLES
    cli,            \* cli[p]: where runStart of p is
    seen,           \* seen[p]: the state runningFromState has read
    control,        \* control[p]: the control server of p is listening
    stateFile,      \* the process the state file names, "none" or "torn"
    cmd             \* cmd[c]: the stop or status command in progress

cliVars == <<cli, seen, control, stateFile, cmd>>
lifeVars == <<sysVars, engVars, cliVars>>

ASSUME CmdAssumption ==
    /\ Cmd \subseteq Actor
    /\ Cmd \cap Thread = {}
    /\ Proc \cap {"none", "torn"} = {}
    /\ SlowControl \in BOOLEAN
    /\ RestoreAlone \in BOOLEAN

Gone(p) == cli[p] \in {"off", "gone"}

NoCmd == [op |-> "none", of |-> "none"]

LifeInit ==
    /\ EngInit
    /\ cli = [p \in Proc |-> "off"]
    /\ seen = [p \in Proc |-> "none"]
    /\ control = [p \in Proc |-> FALSE]
    /\ stateFile = "none"
    /\ cmd = [c \in Cmd |-> NoCmd]

CliGoto(p, pc) == cli' = [cli EXCEPT ![p] = pc]

RemoveState == stateFile' = "none"

-----------------------------------------------------------------------------
(* runStart *)

\* Flags, configuration and its validation.
Launch(p) ==
    /\ cli[p] = "off"
    /\ RestoreAlone => \A c \in Cmd : job[c] = Idle
    /\ CliGoto(p, "check")
    /\ UNCHANGED <<seen, control, stateFile, cmd>>
    /\ UNCHANGED sysVars /\ UNCHANGED engVars

\* runningFromState: read the file.  An unreadable one does not stop `start`.
CheckRead(p) ==
    /\ cli[p] = "check"
    /\ \/ /\ stateFile \in {"none", "torn"}
          /\ CliGoto(p, "engine")
          /\ Set(Main(p), "start")
          /\ UNCHANGED seen
       \/ /\ stateFile \in Proc
          /\ CliGoto(p, "query")
          /\ seen' = [seen EXCEPT ![p] = stateFile]
          /\ UNCHANGED thr
    /\ UNCHANGED <<control, stateFile, cmd, mode, fields, running, ctx, port>>
    /\ UNCHANGED sysVars

Answers(q) == control[q]
Misses(q) == ~control[q] \/ SlowControl

\* ... and ask the process it names.  No answer makes the file stale.
CheckQuery(p) ==
    /\ cli[p] = "query"
    /\ \/ /\ Answers(seen[p])
          /\ CliGoto(p, "failed")
          /\ UNCHANGED <<stateFile, thr>>
       \/ /\ Misses(seen[p])
          /\ RemoveState
          /\ CliGoto(p, "engine")
          /\ Set(Main(p), "start")
    /\ seen' = [seen EXCEPT ![p] = "none"]
    /\ UNCHANGED <<control, cmd, mode, fields, running, ctx, port>>
    /\ UNCHANGED sysVars

EngineFailed(p) ==
    /\ cli[p] = "engine"
    /\ thr[Main(p)].pc = "startFailed"
    /\ CliGoto(p, "failed")
    /\ UNCHANGED <<seen, control, stateFile, cmd>>
    /\ UNCHANGED sysVars /\ UNCHANGED engVars

\* GenerateToken and NewControlServer; their errors return without eng.Stop.
MakeToken(p) ==
    /\ cli[p] = "engine"
    /\ thr[Main(p)].pc = "started"
    /\ CliGoto(p, "control") \/ CliGoto(p, "failed")
    /\ UNCHANGED <<seen, control, stateFile, cmd>>
    /\ UNCHANGED sysVars /\ UNCHANGED engVars

ControlStart(p) ==
    /\ cli[p] = "control"
    /\ \/ /\ control' = [control EXCEPT ![p] = TRUE]
          /\ CliGoto(p, "publish")
          /\ UNCHANGED thr
       \/ /\ CliGoto(p, "aborting")
          /\ Set(Main(p), "stop")
          /\ UNCHANGED control
    /\ UNCHANGED <<seen, stateFile, cmd, mode, fields, running, ctx, port>>
    /\ UNCHANGED sysVars

\* WriteState; on an error the control server and the engine are stopped.
PublishState(p) ==
    /\ cli[p] = "publish"
    /\ \/ /\ stateFile' = p
          /\ CliGoto(p, "serving")
          /\ UNCHANGED <<control, thr>>
       \/ /\ stateFile' \in {stateFile, "torn"}
          /\ control' = [control EXCEPT ![p] = FALSE]
          /\ CliGoto(p, "aborting")
          /\ Set(Main(p), "stop")
    /\ UNCHANGED <<seen, cmd, mode, fields, running, ctx, port>>
    /\ UNCHANGED sysVars

\* <-ctx.Done(), control.Stop, and the call of eng.Stop.
ServeUntilDone(p) ==
    /\ cli[p] = "serving"
    /\ ctx[p]
    /\ control' = [control EXCEPT ![p] = FALSE]
    /\ CliGoto(p, "stopping")
    /\ Set(Main(p), "stop")
    /\ UNCHANGED <<seen, stateFile, cmd, mode, fields, running, ctx, port>>
    /\ UNCHANGED sysVars

\* eng.Stop has returned; the deferred RemoveState runs.
StopFinished(p) ==
    /\ cli[p] = "stopping"
    /\ thr[Main(p)].pc = "stopped"
    /\ RemoveState
    /\ CliGoto(p, IF thr[Main(p)].err THEN "failed" ELSE "done")
    /\ UNCHANGED <<seen, control, cmd>>
    /\ UNCHANGED sysVars /\ UNCHANGED engVars

AbortFinished(p) ==
    /\ cli[p] = "aborting"
    /\ thr[Main(p)].pc = "stopped"
    /\ CliGoto(p, "failed")
    /\ UNCHANGED <<seen, control, stateFile, cmd>>
    /\ UNCHANGED sysVars /\ UNCHANGED engVars

\* main returns, whatever the goroutine is doing.
Exit(p) ==
    /\ cli[p] \in {"failed", "done"}
    /\ Die(p)
    /\ control' = [control EXCEPT ![p] = FALSE]
    /\ CliGoto(p, "gone")
    /\ UNCHANGED <<seen, stateFile, cmd>>

Kill(p) ==
    /\ ~Gone(p)
    /\ Die(p)
    /\ control' = [control EXCEPT ![p] = FALSE]
    /\ CliGoto(p, "gone")
    /\ seen' = [seen EXCEPT ![p] = "none"]
    /\ UNCHANGED <<stateFile, cmd>>

\* Ctrl-C, once signal.NotifyContext is in place.
Interrupt(p) ==
    /\ cli[p] \notin {"off", "check", "query", "gone"}
    /\ ~ctx[p]
    /\ ctx' = [ctx EXCEPT ![p] = TRUE]
    /\ UNCHANGED <<mode, thr, fields, running, port>>
    /\ UNCHANGED sysVars /\ UNCHANGED cliVars

-----------------------------------------------------------------------------
(* runStop and runStatus *)

\* ReadState; without a readable file the command ends here.
CmdRead(c) ==
    /\ cmd[c] = NoCmd
    /\ job[c] = Idle
    /\ stateFile \in Proc
    /\ \E op \in {"post", "query"} :
          cmd' = [cmd EXCEPT ![c] = [op |-> op, of |-> stateFile]]
    /\ UNCHANGED <<cli, seen, control, stateFile>>
    /\ UNCHANGED sysVars /\ UNCHANGED engVars

\* Mutant: the handler answers and does not cancel the context.
StopPostIgnored(c) ==
    /\ cmd[c].op = "post"
    /\ \/ /\ Answers(cmd[c].of)
          /\ cmd' = [cmd EXCEPT ![c].op = "poll"]
          /\ UNCHANGED stateFile
       \/ /\ Misses(cmd[c].of)
          /\ RemoveState
          /\ cmd' = [cmd EXCEPT ![c] = NoCmd]
    /\ UNCHANGED <<cli, seen, control>> /\ UNCHANGED engVars
    /\ UNCHANGED sysVars

\* postStop: handleStop cancels the context; no answer makes the file stale.
StopPost(c) ==
    LET q == cmd[c].of
    IN  /\ cmd[c].op = "post"
        /\ \/ /\ Answers(q)
              /\ ctx' = [ctx EXCEPT ![q] = TRUE]
              /\ cmd' = [cmd EXCEPT ![c].op = "poll"]
              /\ UNCHANGED stateFile
           \/ /\ Misses(q)
              /\ ctx' \in {ctx, [ctx EXCEPT ![q] = @ \/ control[q]]}
              /\ RemoveState
              /\ cmd' = [cmd EXCEPT ![c] = NoCmd]
        /\ UNCHANGED <<cli, seen, control, mode, thr, fields, running, port>>
        /\ UNCHANGED sysVars

\* Poll until there is no answer or the 5s are over; remove the file either way.
StopPoll(c) ==
    /\ cmd[c].op = "poll"
    /\ RemoveState
    /\ cmd' = [cmd EXCEPT ![c] = NoCmd]
    /\ UNCHANGED <<cli, seen, control>>
    /\ UNCHANGED sysVars /\ UNCHANGED engVars

StatusQuery(c) ==
    /\ cmd[c].op = "query"
    /\ \/ Answers(cmd[c].of) /\ UNCHANGED stateFile
       \/ Misses(cmd[c].of) /\ RemoveState
    /\ cmd' = [cmd EXCEPT ![c] = NoCmd]
    /\ UNCHANGED <<cli, seen, control>>
    /\ UNCHANGED sysVars /\ UNCHANGED engVars

-----------------------------------------------------------------------------
(* runRestore *)

RestoreCall(c) ==
    /\ cmd[c] = NoCmd
    /\ RestoreAlone => \A p \in Proc : Gone(p)
    /\ RestoreAlone => \A d \in Cmd : job[d] = Idle
    /\ CallRestore(c, "any")
    /\ UNCHANGED sysOut /\ UNCHANGED engVars /\ UNCHANGED cliVars

\* It returns, or is killed.
RestoreEnds(c) ==
    /\ job[c] # Idle
    /\ job' = [job EXCEPT ![c] = Idle]
    /\ UNCHANGED sysOut /\ UNCHANGED engVars /\ UNCHANGED cliVars

CmdStep(c) ==
    \/ CmdRead(c) \/ StopPost(c) \/ StopPoll(c) \/ StatusQuery(c)
    \/ RestoreCall(c) \/ RestoreEnds(c)
    \/ InCall(c) /\ UNCHANGED cliVars

ProcStep(p) ==
    \/ CheckRead(p) \/ CheckQuery(p) \/ EngineFailed(p) \/ MakeToken(p)
    \/ ControlStart(p) \/ PublishState(p) \/ ServeUntilDone(p)
    \/ StopFinished(p) \/ AbortFinished(p) \/ Exit(p)

EngineStep(p) == EngStep(p) /\ UNCHANGED cliVars

LifeNext ==
    \/ \E p \in Proc : Launch(p) \/ ProcStep(p) \/ EngineStep(p) \/ Interrupt(p) \/ Kill(p)
    \/ \E c \in Cmd : CmdStep(c)

LifeSpec == LifeInit /\ [][LifeNext]_lifeVars

(* Threads are scheduled, calls return or fail (see EngSpec), and the stop *)
(* command's polling loop has a deadline.                                  *)
LifeFairness ==
    /\ \A p \in Proc :
          /\ WF_lifeVars(ProcStep(p))
          /\ WF_lifeVars(StartingUp(p) /\ UNCHANGED cliVars)
          /\ WF_lifeVars(WatchWakes(p) /\ UNCHANGED cliVars)
          /\ \A t \in {Main(p), Watch(p)} :
                /\ WF_lifeVars(Stopping(t) /\ UNCHANGED cliVars)
                /\ WF_lifeVars(InCall(t) /\ UNCHANGED cliVars)
    /\ \A c \in Cmd : WF_lifeVars(StopPost(c) \/ StopPoll(c))

-----------------------------------------------------------------------------
(* However two `start` commands interleave, and although the check of the  *)
(* state file is not atomic and a slow answer is taken for none, at most   *)
(* one engine gets to run: Start listens before it does anything else.     *)
OneEngineRuns ==
    \A p, q \in Proc : running[p] /\ running[q] => p = q

(* Whatever the processes and the shell do, one Apply or Restore at most   *)
(* is in progress: a new Start gets past its listen call only after the    *)
(* old Stop, which restores first, has closed its servers.  This is the    *)
(* premise under which SystemChange is shown to lose nothing.              *)
OneCallAtATime ==
    \A a, b \in Actor : job[a] # Idle /\ job[b] # Idle => a = b

(* A serving process that is told to stop, by `stop` or by a signal, is    *)
(* gone in the end.                                                        *)
StopCompletes ==
    \A p \in Proc : cli[p] = "serving" /\ ctx[p] ~> cli[p] = "gone"

(* A `stop` command that finds a process through the state file gets it    *)
(* stopped, control requests being answered in time.                       *)
StopCommandStops ==
    \A c \in Cmd, p \in Proc : cmd[c] = [op |-> "post", of |-> p] ~> Gone(p)

(* A `start` that ends without an error has given the system back: "stop   *)
(* restores the previous system setting".                                  *)
GracefulExitRestores ==
    \A p \in Proc :
        cli[p] = "done" /\ TakesOver(mode[p]) =>
            \A q \in PartsOf(KindOf(mode[p])) \ lost : settings[q] = user[q]
=============================================================================
