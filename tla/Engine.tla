------------------------------- MODULE Engine -------------------------------
(***************************************************************************)
(* internal/engine: Start brings up the local servers of a mode and then   *)
(* takes the system over; Stop gives the system back and then closes the   *)
(* servers.  Start leaves a goroutine behind that calls Stop when the      *)
(* context is cancelled, so Stop may run on two threads at once.           *)
(*                                                                         *)
(* Every process has a main thread, the caller of Start and Stop, and that *)
(* goroutine.  All processes run with the same configured addresses, so a  *)
(* server can listen only if no other process holds its port.              *)
(***************************************************************************)
EXTENDS SystemChange

CONSTANTS
    Proc,           \* processes
    RunMode         \* modes the engines are started in

VARIABLES
    mode,           \* mode[p]: cfg.Mode
    thr,            \* thr[t]: where a thread is, and its local variables
    fields,         \* fields[p]: the servers in e.proxy, e.pac, e.reverse, e.dnsIntercept
    running,        \* running[p]: e.running
    ctx,            \* ctx[p]: the context passed to Start is cancelled
    port            \* port[s]: the process listening at the address of s

engVars == <<mode, thr, fields, running, ctx, port>>

Server == {"proxy", "pac", "reverse", "dns"}

Thread == Proc \X {"main", "watch"}
Main(p) == <<p, "main">>
Watch(p) == <<p, "watch">>

ASSUME ProcAssumption == Thread \subseteq Actor /\ "free" \notin Proc

ASSUME RunModeAssumption ==
    /\ RunMode \subseteq Mode \cup {"proxy_only", "dns_manual"}

\* Mutant: the system is taken over before the servers listen.
StartPlanApplyFirst(m) ==
    CASE m = "proxy_only" -> <<"build", "proxy">>
      [] m = "system"     -> <<"build", "apply", "proxy">>
      [] m = "pac"        -> <<"build", "apply", "proxy", "pac">>
      [] m = "hosts"      -> <<"build", "prepare", "apply", "reverse">>
      [] m = "dns_manual" -> <<"build", "reverse", "dns">>
      [] m = "dns"        -> <<"build", "preflight", "apply", "reverse", "dns">>

(* What Start does for each mode, in order.  build: matcher, providers,    *)
(* resolver, dialer.  prepare: root CA check and hosts.Preflight.          *)
StartPlan(m) ==
    CASE m = "proxy_only" -> <<"build", "proxy">>
      [] m = "system"     -> <<"build", "proxy", "apply">>
      [] m = "pac"        -> <<"build", "proxy", "pac", "apply">>
      [] m = "hosts"      -> <<"build", "reverse", "prepare", "apply">>
      [] m = "dns_manual" -> <<"build", "reverse", "dns">>
      [] m = "dns"        -> <<"build", "preflight", "reverse", "dns", "apply">>

Needed(m) == Server \cap {StartPlan(m)[i] : i \in 1..Len(StartPlan(m))}

TakesOver(m) == m \in {"system", "pac", "hosts", "dns"}

(* Start's error paths and Stop both close servers in this order. *)
StopOrder == <<"pac", "dns", "reverse", "proxy">>

FirstToStop(h) ==
    StopOrder[CHOOSE i \in 1..Len(StopOrder) :
                /\ StopOrder[i] \in h
                /\ \A j \in 1..(i-1) : StopOrder[j] \notin h]

Fresh == [pc |-> "off", step |-> 1, held |-> {}, retried |-> FALSE, err |-> FALSE]

Set(t, pc) == thr' = [thr EXCEPT ![t].pc = pc]

sysOut == <<settings, hostsLines, rollback, user, lost>>

EngInit ==
    /\ SysInit
    /\ mode \in [Proc -> RunMode]
    /\ thr = [t \in Thread |-> Fresh]
    /\ fields = [p \in Proc |-> {}]
    /\ running = [p \in Proc |-> FALSE]
    /\ ctx = [p \in Proc |-> FALSE]
    /\ port = [s \in Server |-> "free"]

-----------------------------------------------------------------------------
(* Start, on the main thread *)

\* The running check, under the mutex that is released again at once.
StartCheck(p) ==
    /\ thr[Main(p)].pc = "start"
    /\ Set(Main(p), IF running[p] THEN "startFailed" ELSE "starting")
    /\ UNCHANGED <<mode, fields, running, ctx, port, job>> /\ UNCHANGED sysOut

PlanStep(p) == StartPlan(mode[p])[thr[Main(p)].step]

InPlan(p) ==
    /\ thr[Main(p)].pc = "starting"
    /\ thr[Main(p)].step <= Len(StartPlan(mode[p]))

\* Building, preparing and preflighting change nothing here.
StartPrepare(p) ==
    /\ InPlan(p)
    /\ PlanStep(p) \in {"build", "prepare", "preflight"}
    /\ thr' = [thr EXCEPT ![Main(p)].step = @ + 1]
    /\ UNCHANGED <<mode, fields, running, ctx, port, job>> /\ UNCHANGED sysOut

\* Mutant: the address is shared (SO_REUSEADDR).
StartListenShared(p) ==
    /\ InPlan(p)
    /\ PlanStep(p) \in Server
    /\ port' = [port EXCEPT ![PlanStep(p)] = p]
    /\ thr' = [thr EXCEPT ![Main(p)].step = @ + 1,
                          ![Main(p)].held = @ \cup {PlanStep(p)}]
    /\ UNCHANGED <<mode, fields, running, ctx, job>> /\ UNCHANGED sysOut

StartListen(p) ==
    /\ InPlan(p)
    /\ PlanStep(p) \in Server
    /\ port[PlanStep(p)] = "free"
    /\ port' = [port EXCEPT ![PlanStep(p)] = p]
    /\ thr' = [thr EXCEPT ![Main(p)].step = @ + 1,
                          ![Main(p)].held = @ \cup {PlanStep(p)}]
    /\ UNCHANGED <<mode, fields, running, ctx, job>> /\ UNCHANGED sysOut

\* An error of any of these, the address being in use among them.
StartStepFails(p) ==
    /\ InPlan(p)
    /\ PlanStep(p) # "apply"
    /\ Set(Main(p), "undo")
    /\ UNCHANGED <<mode, fields, running, ctx, port, job>> /\ UNCHANGED sysOut

\* applySystemProxy, applySystemDNS or hosts.Apply.
StartApplyCall(p) ==
    /\ InPlan(p)
    /\ PlanStep(p) = "apply"
    /\ CallApply(Main(p), mode[p])
    /\ Set(Main(p), "applying")
    /\ UNCHANGED <<mode, fields, running, ctx, port>> /\ UNCHANGED sysOut

StartApplied(p) ==
    /\ thr[Main(p)].pc = "applying"
    /\ job[Main(p)].pc = "ok"
    /\ job' = [job EXCEPT ![Main(p)] = Idle]
    /\ thr' = [thr EXCEPT ![Main(p)].pc = "starting", ![Main(p)].step = @ + 1]
    /\ UNCHANGED <<mode, fields, running, ctx, port>> /\ UNCHANGED sysOut

\* prepareHostsForStart and privilege.ApplySystemDNS run a refused Apply once
\* more through the elevated helper.  A refusal is met at the first write.
StartApplyRetry(p) ==
    /\ thr[Main(p)].pc = "applying"
    /\ job[Main(p)].pc = "err"
    /\ mode[p] \in {"hosts", "dns"}
    /\ ~thr[Main(p)].retried
    /\ job[Main(p)].next = 1
    /\ job' = [job EXCEPT ![Main(p)] = Idle]
    /\ thr' = [thr EXCEPT ![Main(p)].pc = "starting", ![Main(p)].retried = TRUE]
    /\ UNCHANGED <<mode, fields, running, ctx, port>> /\ UNCHANGED sysOut

\* Only the DNS branch restores what a failed Apply has done.
StartApplyFailed(p) ==
    /\ thr[Main(p)].pc = "applying"
    /\ job[Main(p)].pc = "err"
    /\ job' = [job EXCEPT ![Main(p)] = Idle]
    /\ thr' = [thr EXCEPT ![Main(p)].pc = IF mode[p] = "dns" THEN "undoCall" ELSE "undo",
                          ![Main(p)].retried = FALSE]
    /\ UNCHANGED <<mode, fields, running, ctx, port>> /\ UNCHANGED sysOut

StartUndoRestoreCall(p) ==
    /\ thr[Main(p)].pc = "undoCall"
    /\ CallRestore(Main(p), "dns")
    /\ Set(Main(p), "undoRestore")
    /\ UNCHANGED <<mode, fields, running, ctx, port>> /\ UNCHANGED sysOut

\* RestoreSystemDNS, too, goes to the helper once if refused.
StartUndoRestoreRetry(p) ==
    /\ thr[Main(p)].pc = "undoRestore"
    /\ job[Main(p)].pc = "err"
    /\ ~thr[Main(p)].retried
    /\ job' = [job EXCEPT ![Main(p)] = Idle]
    /\ thr' = [thr EXCEPT ![Main(p)].pc = "undoCall", ![Main(p)].retried = TRUE]
    /\ UNCHANGED <<mode, fields, running, ctx, port>> /\ UNCHANGED sysOut

\* Its error goes into the one Start returns, and the servers are closed.
StartUndoRestored(p) ==
    /\ thr[Main(p)].pc = "undoRestore"
    /\ job[Main(p)].pc \in Returned
    /\ job' = [job EXCEPT ![Main(p)] = Idle]
    /\ Set(Main(p), "undo")
    /\ UNCHANGED <<mode, fields, running, ctx, port>> /\ UNCHANGED sysOut

\* Mutant: the error path stops one server only.
StartUndoOne(p) ==
    LET h == thr[Main(p)].held
    IN  /\ thr[Main(p)].pc = "undo"
        /\ port' = IF h = {} THEN port ELSE [port EXCEPT ![FirstToStop(h)] = "free"]
        /\ Set(Main(p), "startFailed")
        /\ UNCHANGED <<mode, fields, running, ctx, job>> /\ UNCHANGED sysOut

StartUndo(p) ==
    LET h == thr[Main(p)].held
    IN  /\ thr[Main(p)].pc = "undo"
        /\ \/ /\ h # {}
              /\ port' = [port EXCEPT ![FirstToStop(h)] = "free"]
              /\ thr' = [thr EXCEPT ![Main(p)].held = @ \ {FirstToStop(h)}]
           \/ /\ h = {}
              /\ Set(Main(p), "startFailed")
              /\ UNCHANGED port
        /\ UNCHANGED <<mode, fields, running, ctx, job>> /\ UNCHANGED sysOut

\* Mutant: no goroutine waits for the context.
StartPublishUnwatched(p) ==
    /\ thr[Main(p)].pc = "starting"
    /\ thr[Main(p)].step = Len(StartPlan(mode[p])) + 1
    /\ fields' = [fields EXCEPT ![p] = thr[Main(p)].held]
    /\ running' = [running EXCEPT ![p] = TRUE]
    /\ thr' = [thr EXCEPT ![Main(p)] = [Fresh EXCEPT !.pc = "started"]]
    /\ UNCHANGED <<mode, ctx, port, job>> /\ UNCHANGED sysOut

\* Publish the servers under the mutex and spawn the goroutine.
StartPublish(p) ==
    /\ thr[Main(p)].pc = "starting"
    /\ thr[Main(p)].step = Len(StartPlan(mode[p])) + 1
    /\ fields' = [fields EXCEPT ![p] = thr[Main(p)].held]
    /\ running' = [running EXCEPT ![p] = TRUE]
    /\ thr' = [thr EXCEPT ![Main(p)] = [Fresh EXCEPT !.pc = "started"],
                          ![Watch(p)] = [Fresh EXCEPT !.pc = "wait"]]
    /\ UNCHANGED <<mode, ctx, port, job>> /\ UNCHANGED sysOut

\* <-ctx.Done() in the goroutine.
WatchWakes(p) ==
    /\ thr[Watch(p)].pc = "wait"
    /\ ctx[p]
    /\ Set(Watch(p), "stop")
    /\ UNCHANGED <<mode, fields, running, ctx, port, job>> /\ UNCHANGED sysOut

-----------------------------------------------------------------------------
(* Stop, on either thread *)

\* Mutant: Stop reads the servers and leaves them in the engine.
StopSwapKeeps(t) ==
    /\ thr[t].pc = "stop"
    /\ running' = [running EXCEPT ![t[1]] = FALSE]
    /\ thr' = [thr EXCEPT ![t] = [Fresh EXCEPT
                  !.held = fields[t[1]],
                  !.pc = IF fields[t[1]] = {} THEN "stopped"
                         ELSE IF TakesOver(mode[t[1]]) THEN "restore"
                         ELSE "closing"]]
    /\ UNCHANGED <<mode, fields, ctx, port, job>> /\ UNCHANGED sysOut

\* Mutant: the thread that finds no servers waits for some.
StopSwapWaits(t) ==
    /\ thr[t].pc = "stop" /\ fields[t[1]] # {}
    /\ fields' = [fields EXCEPT ![t[1]] = {}]
    /\ running' = [running EXCEPT ![t[1]] = FALSE]
    /\ thr' = [thr EXCEPT ![t] = [Fresh EXCEPT
                  !.held = fields[t[1]],
                  !.pc = IF TakesOver(mode[t[1]]) THEN "restore" ELSE "closing"]]
    /\ UNCHANGED <<mode, ctx, port, job>> /\ UNCHANGED sysOut

\* Take the servers out of the engine under the mutex; the thread that finds
\* none returns at once.
StopSwap(t) ==
    /\ thr[t].pc = "stop"
    /\ fields' = [fields EXCEPT ![t[1]] = {}]
    /\ running' = [running EXCEPT ![t[1]] = FALSE]
    /\ thr' = [thr EXCEPT ![t] = [Fresh EXCEPT
                  !.held = fields[t[1]],
                  !.pc = IF fields[t[1]] = {} THEN "stopped"
                         ELSE IF TakesOver(mode[t[1]]) THEN "restore"
                         ELSE "closing"]]
    /\ UNCHANGED <<mode, ctx, port, job>> /\ UNCHANGED sysOut

StopRestoreCall(t) ==
    /\ thr[t].pc = "restore"
    /\ CallRestore(t, KindOf(mode[t[1]]))
    /\ Set(t, "restoring")
    /\ UNCHANGED <<mode, fields, running, ctx, port>> /\ UNCHANGED sysOut

\* RestoreHosts and RestoreSystemDNS also go to the helper once if refused.
StopRestoreRetry(t) ==
    /\ thr[t].pc = "restoring"
    /\ job[t].pc = "err"
    /\ mode[t[1]] \in {"hosts", "dns"}
    /\ ~thr[t].retried
    /\ job' = [job EXCEPT ![t] = Idle]
    /\ thr' = [thr EXCEPT ![t].pc = "restore", ![t].retried = TRUE]
    /\ UNCHANGED <<mode, fields, running, ctx, port>> /\ UNCHANGED sysOut

\* Mutant: Stop does not report that restoring failed.
StopRestoredQuietly(t) ==
    /\ thr[t].pc = "restoring"
    /\ job[t].pc \in Returned
    /\ Set(t, "closing")
    /\ job' = [job EXCEPT ![t] = Idle]
    /\ UNCHANGED <<mode, fields, running, ctx, port>> /\ UNCHANGED sysOut

\* ErrNoState is not an error, but the helper cannot tell it from one.
StopRestored(t) ==
    /\ thr[t].pc = "restoring"
    /\ job[t].pc \in Returned
    /\ \E e \in BOOLEAN :
          /\ job[t].pc = "ok" => ~e
          /\ job[t].pc = "err" => e
          /\ job[t].pc = "nostate" /\ e => mode[t[1]] \in {"hosts", "dns"}
          /\ thr' = [thr EXCEPT ![t].pc = "closing", ![t].err = e]
    /\ job' = [job EXCEPT ![t] = Idle]
    /\ UNCHANGED <<mode, fields, running, ctx, port>> /\ UNCHANGED sysOut

\* The Stop of one server: its listeners close even when it returns an error.
StopServer(t) ==
    LET s == FirstToStop(thr[t].held)
    IN  /\ thr[t].pc = "closing"
        /\ thr[t].held # {}
        /\ port' = [port EXCEPT ![s] = "free"]
        /\ \E e \in {thr[t].err, TRUE} :
              thr' = [thr EXCEPT ![t].held = @ \ {s}, ![t].err = e]
        /\ UNCHANGED <<mode, fields, running, ctx, job>> /\ UNCHANGED sysOut

StopReturn(t) ==
    /\ thr[t].pc = "closing"
    /\ thr[t].held = {}
    /\ Set(t, "stopped")
    /\ UNCHANGED <<mode, fields, running, ctx, port, job>> /\ UNCHANGED sysOut

Stopping(t) ==
    \/ StopSwap(t) \/ StopRestoreCall(t) \/ StopRestoreRetry(t) \/ StopRestored(t)
    \/ StopServer(t) \/ StopReturn(t)

StartingUp(p) ==
    \/ StartCheck(p) \/ StartPrepare(p) \/ StartListen(p) \/ StartStepFails(p)
    \/ StartApplyCall(p) \/ StartApplied(p) \/ StartApplyRetry(p)
    \/ StartApplyFailed(p) \/ StartUndoRestoreCall(p) \/ StartUndoRestoreRetry(p)
    \/ StartUndoRestored(p) \/ StartUndo(p) \/ StartPublish(p)

InCall(t) == Working(t) /\ UNCHANGED engVars

-----------------------------------------------------------------------------
(* The engine on its own: a caller that starts, cancels and stops it. *)

Finished(t) == thr[t].pc \in {"off", "startFailed", "stopped"}

\* engine.New and Start, once the previous engine of p is gone.
CallStart(p) ==
    /\ Finished(Main(p)) /\ Finished(Watch(p))
    /\ \E m \in RunMode : mode' = [mode EXCEPT ![p] = m]
    /\ thr' = [thr EXCEPT ![Main(p)] = [Fresh EXCEPT !.pc = "start"],
                          ![Watch(p)] = Fresh]
    /\ ctx' = [ctx EXCEPT ![p] = FALSE]
    /\ UNCHANGED <<fields, running, port, job>> /\ UNCHANGED sysOut

CallStop(p) ==
    /\ thr[Main(p)].pc = "started"
    /\ Set(Main(p), "stop")
    /\ UNCHANGED <<mode, fields, running, ctx, port, job>> /\ UNCHANGED sysOut

\* A signal, or the control server's stop request.
Cancel(p) ==
    /\ thr[Main(p)].pc # "off"
    /\ ~ctx[p]
    /\ ctx' = [ctx EXCEPT ![p] = TRUE]
    /\ UNCHANGED <<mode, thr, fields, running, port, job>> /\ UNCHANGED sysOut

\* Everything the process held goes with it.
Die(p) ==
    /\ thr' = [t \in Thread |-> IF t[1] = p THEN Fresh ELSE thr[t]]
    /\ job' = [a \in Actor |-> IF a \in {Main(p), Watch(p)} THEN Idle ELSE job[a]]
    /\ fields' = [fields EXCEPT ![p] = {}]
    /\ running' = [running EXCEPT ![p] = FALSE]
    /\ ctx' = [ctx EXCEPT ![p] = FALSE]
    /\ port' = [s \in Server |-> IF port[s] = p THEN "free" ELSE port[s]]
    /\ UNCHANGED mode /\ UNCHANGED sysOut

EngineCrash(p) == thr[Main(p)].pc # "off" /\ Die(p)

EngStep(p) ==
    \/ StartingUp(p) \/ WatchWakes(p)
    \/ \E t \in {Main(p), Watch(p)} : Stopping(t) \/ InCall(t)

EngNext ==
    \E p \in Proc : EngStep(p) \/ CallStart(p) \/ CallStop(p) \/ Cancel(p) \/ EngineCrash(p)

allVars == <<sysVars, engVars>>

(* Every thread that can take a step of its own takes one: a call either   *)
(* returns or fails, since the server shutdowns and the helper requests    *)
(* carry a deadline.                                                       *)
EngSpec ==
    /\ EngInit
    /\ [][EngNext]_allVars
    /\ \A p \in Proc : /\ WF_allVars(StartingUp(p))
                       /\ WF_allVars(WatchWakes(p))
                       /\ \A t \in {Main(p), Watch(p)} :
                             WF_allVars(Stopping(t)) /\ WF_allVars(InCall(t))

-----------------------------------------------------------------------------
(* A part of the system is taken over only at a time when every server of  *)
(* the mode that takes it listens: Start brings them up before it applies, *)
(* and what Stop and the error paths write is the user's, or lost already. *)
PointsAtListeners ==
    [][\A q \in Taken' \ (Taken \cup lost) :
          \E p \in Proc : /\ TakesOver(mode[p]) /\ q \in PartsOf(KindOf(mode[p]))
                          /\ \A s \in Needed(mode[p]) : port[s] = p]_allVars

(* A failure must not leave the machine with "the system DNS pointed at    *)
(* the local server and the service not running" (docs/zh/roadmap.md:145): *)
(* the DNS server closes, other than with its process, only when no        *)
(* interface is pointed at it.                                             *)
DnsClosesUnused ==
    [][\A p \in Proc :
          port["dns"] = p /\ port'["dns"] # p /\ thr'[Main(p)].pc # "off" =>
              \A q \in DnsParts : settings'[q] # "loopback"]_allVars

(* When Stop is about to close a server and has no error to report, the    *)
(* settings of its mode are the user's again, lost parts excepted: nobody  *)
(* is left pointed at a server about to go away without being told.        *)
ClosesOnlyWhatIsRestored ==
    \A t \in Thread :
        /\ thr[t].pc = "closing" /\ thr[t].held # {}
        /\ ~thr[t].err /\ TakesOver(mode[t[1]])
        =>
            \A q \in PartsOf(KindOf(mode[t[1]])) \ lost : settings[q] = user[q]

(* A Start that fails leaves no server of its own listening.               *)
FailedStartReleases ==
    \A p \in Proc : thr[Main(p)].pc = "startFailed" => \A s \in Server : port[s] # p

(* A running engine whose context is cancelled gives up every port: either *)
(* thread's Stop comes to an end.                                          *)
CancelStops ==
    \A p \in Proc : running[p] /\ ctx[p] ~> \A s \in Server : port[s] # p
=============================================================================
