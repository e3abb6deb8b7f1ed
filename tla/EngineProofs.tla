---------------------------- MODULE EngineProofs ----------------------------
(***************************************************************************)
(* Theorems about Engine, and about Lifecycle, which puts the commands     *)
(* around it, for every set of processes, modes and users.                 *)
(*                                                                         *)
(* The argument is about ports.  A process listens at exactly the servers  *)
(* its main thread, its goroutine and the fields of its engine hold        *)
(* between them, and only one of the three holds any at a time (PortIInv). *)
(***************************************************************************)
EXTENDS Lifecycle, SystemChangeProofs

MainPc == {"off", "start", "starting", "applying", "undoCall", "undoRestore",
           "undo", "startFailed", "started", "stop", "restore", "restoring",
           "closing", "stopped"}

WatchPc == {"off", "wait", "stop", "restore", "restoring", "closing", "stopped"}

ThreadState == [pc      : MainPc \cup WatchPc,
                step    : Nat \ {0},
                held    : SUBSET Server,
                retried : BOOLEAN,
                err     : BOOLEAN]

(* The servers Start has brought up before step n of its plan. *)
PlanServers(m, n) == Server \cap {StartPlan(m)[i] : i \in 1..(n-1)}

(* The server Stop closes last. *)
LastToStop(m) == IF "proxy" \in Needed(m) THEN "proxy" ELSE "reverse"

EngTypeOK ==
    /\ mode \in [Proc -> RunMode]
    /\ thr \in [Thread -> ThreadState]
    /\ fields \in [Proc -> SUBSET Server]
    /\ running \in [Proc -> BOOLEAN]
    /\ ctx \in [Proc -> BOOLEAN]
    /\ port \in [Server -> Proc \cup {"free"}]

(* What the thread x knows of the servers it holds, in mode m. *)
ThreadOk(m, x) ==
    /\ x.pc \in {"off", "start", "startFailed", "started", "wait", "stop", "stopped"} =>
          x.held = {}
    /\ x.pc \in {"off", "start"} => x.step = 1
    /\ x.pc = "starting" =>
          /\ x.step <= Len(StartPlan(m)) + 1
          /\ x.held = PlanServers(m, x.step)
    /\ x.pc = "applying" =>
          /\ x.step <= Len(StartPlan(m))
          /\ x.held = PlanServers(m, x.step)
          /\ StartPlan(m)[x.step] = "apply"
    /\ x.pc \in {"undoCall", "undoRestore", "restore", "restoring"} =>
          x.held = Needed(m) /\ TakesOver(m)
    /\ x.pc = "closing" => x.held = {} \/ LastToStop(m) \in x.held
    /\ x.held \subseteq Needed(m)

(* The main thread x, the goroutine y and the fields f of one engine in    *)
(* mode m.                                                                 *)
ProcOk(m, x, y, f) ==
    /\ x.pc \in MainPc /\ y.pc \in WatchPc
    /\ ThreadOk(m, x) /\ ThreadOk(m, y)
    /\ x.pc \in {"off", "start", "starting", "applying", "undoCall", "undoRestore",
                 "undo", "startFailed"} => y.pc = "off" /\ f = {}
    /\ x.pc \in {"restore", "restoring", "closing", "stopped"} => f = {}
    /\ y.pc \in {"restore", "restoring", "closing", "stopped"} => f = {}
    /\ f \in {{}, Needed(m)}
    /\ x.held = {} \/ y.held = {}

ProcInv(p) ==
    /\ ProcOk(mode[p], thr[Main(p)], thr[Watch(p)], fields[p])
    /\ running[p] <=> fields[p] # {}
    /\ \A s \in Server :
          port[s] = p <=> s \in thr[Main(p)].held \cup thr[Watch(p)].held \cup fields[p]

PortIInv == EngTypeOK /\ \A p \in Proc : ProcInv(p)

-----------------------------------------------------------------------------
(* Facts about threads and plans. *)

(* The two threads of a process are distinct from each other and from the  *)
(* threads of any other process.                                           *)
LEMMA ThreadFacts ==
    ASSUME NEW p \in Proc
    PROVE  /\ Main(p) \in Thread /\ Watch(p) \in Thread
           /\ Main(p)[1] = p /\ Watch(p)[1] = p
           /\ Main(p) # Watch(p)
           /\ Main(p) \in Actor /\ Watch(p) \in Actor
           /\ \A q \in Proc : q # p => /\ Main(q) # Main(p) /\ Main(q) # Watch(p)
                                       /\ Watch(q) # Main(p) /\ Watch(q) # Watch(p)
  BY ProcAssumption DEF Main, Watch, Thread

(* Every thread is one of the two of its process. *)
LEMMA ThreadIsOne ==
    ASSUME NEW t \in Thread
    PROVE  t[1] \in Proc /\ t \in {Main(t[1]), Watch(t[1])}
  BY DEF Thread, Main, Watch

LEMMA Within ==
    ASSUME NEW n \in Nat \ {0}, NEW k \in Nat \ {0}, n <= k
    PROVE  n \in 1..k
  OBVIOUS

(* The plan of every mode, spelt out. *)
LEMMA PlanFacts ==
    ASSUME NEW m \in RunMode
    PROVE  /\ Len(StartPlan(m)) \in Nat \ {0}
           /\ PlanServers(m, 1) = {}
           /\ PlanServers(m, Len(StartPlan(m)) + 1) = Needed(m)
           /\ Needed(m) # {} /\ Needed(m) \subseteq Server
           /\ \A n \in 1..Len(StartPlan(m)) :
                 /\ StartPlan(m)[n] = "apply" =>
                       n = Len(StartPlan(m)) /\ PlanServers(m, n) = Needed(m) /\ TakesOver(m)
                 /\ StartPlan(m)[n] \in {"build", "prepare", "preflight", "apply"} =>
                       PlanServers(m, n + 1) = PlanServers(m, n)
                 /\ StartPlan(m)[n] \in Server =>
                       PlanServers(m, n + 1) = PlanServers(m, n) \cup {StartPlan(m)[n]}
  <1>1. m \in {"pac", "system", "hosts", "dns", "proxy_only", "dns_manual"}
    BY ModeAssumption, RunModeAssumption
  <1> DEFINE P == StartPlan(m)
  <1>2. /\ Len(P) \in Nat \ {0}
        /\ \E i \in 1..Len(P) : P[i] \in Server
        /\ \A n \in 1..Len(P) : P[n] = "apply" => n = Len(P) /\ TakesOver(m)
    <2>1. CASE m = "pac"
      BY <2>1 DEF StartPlan, TakesOver, Server
    <2>2. CASE m = "system"
      BY <2>2 DEF StartPlan, TakesOver, Server
    <2>3. CASE m = "hosts"
      BY <2>3 DEF StartPlan, TakesOver, Server
    <2>4. CASE m = "dns"
      BY <2>4 DEF StartPlan, TakesOver, Server
    <2>5. CASE m = "proxy_only"
      BY <2>5 DEF StartPlan, TakesOver, Server
    <2>6. CASE m = "dns_manual"
      BY <2>6 DEF StartPlan, TakesOver, Server
    <2> QED BY <1>1, <2>1, <2>2, <2>3, <2>4, <2>5, <2>6
  <1> HIDE DEF P
  <1>3. PlanServers(m, 1) = {} /\ PlanServers(m, Len(P) + 1) = Needed(m)
    BY <1>2 DEF PlanServers, Needed, P
  <1>4. Needed(m) # {} /\ Needed(m) \subseteq Server
    BY <1>2 DEF Needed, P
  <1>5. ASSUME NEW n \in 1..Len(P)
        PROVE  PlanServers(m, n + 1) = PlanServers(m, n) \cup (Server \cap {P[n]})
    <2>1. 1..(n + 1 - 1) = (1..(n - 1)) \cup {n}
      BY <1>2
    <2> QED BY <2>1 DEF PlanServers, P
  <1>6. "apply" \notin Server /\ "build" \notin Server /\ "prepare" \notin Server
          /\ "preflight" \notin Server
    BY DEF Server
  <1>7. ASSUME NEW n \in 1..Len(P), P[n] = "apply"
        PROVE  PlanServers(m, n) = Needed(m)
    <2>1. n = Len(P) /\ Server \cap {P[n]} = {}
      BY <1>2, <1>6, <1>7
    <2>2. PlanServers(m, n + 1) = PlanServers(m, n)
      BY <1>5, <2>1, Zenon
    <2> QED BY <1>3, <2>1, <2>2
  <1>8. ASSUME NEW n \in 1..Len(P)
        PROVE  /\ P[n] = "apply" =>
                     n = Len(P) /\ PlanServers(m, n) = Needed(m) /\ TakesOver(m)
               /\ P[n] \in {"build", "prepare", "preflight", "apply"} =>
                     PlanServers(m, n + 1) = PlanServers(m, n)
               /\ P[n] \in Server =>
                     PlanServers(m, n + 1) = PlanServers(m, n) \cup {P[n]}
    <2>1. P[n] \in {"build", "prepare", "preflight", "apply"} => Server \cap {P[n]} = {}
      BY <1>6
    <2>2. P[n] \in Server => Server \cap {P[n]} = {P[n]}
      OBVIOUS
    <2> QED BY <1>2, <1>5, <1>7, <2>1, <2>2, Zenon
  <1> QED BY <1>2, <1>3, <1>4, <1>8 DEF P

LEMMA PlanStarts ==
    ASSUME NEW m \in RunMode, NEW x, x.pc = "starting", x.step = 1, x.held = {}
    PROVE  ThreadOk(m, x)
  <1>1. Len(StartPlan(m)) \in Nat /\ PlanServers(m, 1) = {}
    BY PlanFacts, Zenon
  <1>2. 1 <= Len(StartPlan(m)) + 1
    BY <1>1, SMTT(30)
  <1>3. x.step <= Len(StartPlan(m)) + 1 /\ x.held = PlanServers(m, x.step)
    BY <1>1, <1>2, Zenon
  <1> QED BY <1>3, SMTT(30) DEF ThreadOk

LEMMA PlanPrepares ==
    ASSUME NEW m \in RunMode, NEW n \in Nat \ {0}, n <= Len(StartPlan(m)),
           StartPlan(m)[n] \in {"build", "prepare", "preflight"}
    PROVE  PlanServers(m, n + 1) = PlanServers(m, n) /\ n + 1 <= Len(StartPlan(m)) + 1
  <1>1. Len(StartPlan(m)) \in Nat
    BY PlanFacts, Zenon
  <1>2. n \in 1..Len(StartPlan(m)) /\ n + 1 <= Len(StartPlan(m)) + 1
    BY <1>1, SMTT(30)
  <1>3. StartPlan(m)[n] \in {"build", "prepare", "preflight", "apply"}
    BY Zenon
  <1> QED BY <1>2, <1>3, PlanFacts, ZenonT(30)

(* Every mode has a server facing the clients, the one Stop closes last. *)
LEMMA LastFacts ==
    ASSUME NEW m \in RunMode
    PROVE  LastToStop(m) \in Needed(m)
  <1>1. m \in {"pac", "system", "hosts", "dns", "proxy_only", "dns_manual"}
    BY ModeAssumption, RunModeAssumption
  <1>2. CASE m \in {"pac", "system", "proxy_only"}
    <2>1. "proxy" \in Server /\ StartPlan(m)[2] = "proxy" /\ 2 \in 1..Len(StartPlan(m))
      BY <1>2 DEF StartPlan, Server
    <2> QED BY <2>1 DEF Needed, LastToStop
  <1>3. CASE m \in {"hosts", "dns_manual"}
    <2>1. "reverse" \in Server /\ StartPlan(m)[2] = "reverse" /\ 2 \in 1..Len(StartPlan(m))
      BY <1>3 DEF StartPlan, Server
    <2> QED BY <2>1 DEF Needed, LastToStop
  <1>4. CASE m = "dns"
    <2>1. "reverse" \in Server /\ StartPlan(m)[3] = "reverse" /\ 3 \in 1..Len(StartPlan(m))
      BY <1>4 DEF StartPlan, Server
    <2> QED BY <2>1 DEF Needed, LastToStop
  <1> QED BY <1>1, <1>2, <1>3, <1>4, ZenonT(30)

(* FirstToStop closes a server that is held, and the server of the mode    *)
(* that faces the clients only when no other is left.                      *)
LEMMA StopFacts ==
    ASSUME NEW h \in SUBSET Server, h # {}
    PROVE  /\ FirstToStop(h) \in h
           /\ \A m \in RunMode : h \subseteq Needed(m) /\ LastToStop(m) \in h
                 => h \ {FirstToStop(h)} = {} \/ LastToStop(m) \in h \ {FirstToStop(h)}
  <1> DEFINE First(i) == StopOrder[i] \in h /\ \A j \in 1..(i-1) : StopOrder[j] \notin h
             c == CHOOSE i \in 1..Len(StopOrder) : First(i)
  <1>1. /\ Len(StopOrder) = 4 /\ StopOrder[1] = "pac" /\ StopOrder[2] = "dns"
        /\ StopOrder[3] = "reverse" /\ StopOrder[4] = "proxy"
    BY DEF StopOrder
  <1>2. \E i \in 1..Len(StopOrder) : First(i)
    <2>1. CASE "pac" \in h
      <3>1. First(1)
        BY <2>1, <1>1
      <3> QED BY <3>1, <1>1
    <2>2. CASE "pac" \notin h /\ "dns" \in h
      <3>1. First(2)
        BY <2>2, <1>1
      <3> QED BY <3>1, <1>1
    <2>3. CASE "pac" \notin h /\ "dns" \notin h /\ "reverse" \in h
      <3>1. First(3)
        BY <2>3, <1>1
      <3> QED BY <3>1, <1>1
    <2>4. CASE "pac" \notin h /\ "dns" \notin h /\ "reverse" \notin h /\ "proxy" \in h
      <3>1. First(4)
        BY <2>4, <1>1
      <3> QED BY <3>1, <1>1
    <2> QED BY <2>1, <2>2, <2>3, <2>4, Zenon DEF Server
  <1>3. c \in 1..Len(StopOrder) /\ First(c) /\ FirstToStop(h) = StopOrder[c]
    BY <1>2, Zenon DEF FirstToStop
  <1> HIDE DEF c, First
  <1>a. c \in {1, 2, 3, 4} /\ FirstToStop(h) = StopOrder[c]
    BY <1>1, <1>3
  <1>4. ASSUME NEW m \in RunMode
        PROVE  "proxy" \notin Needed(m) \/ "reverse" \notin Needed(m)
    <2>1. m \in {"pac", "system", "hosts", "dns", "proxy_only", "dns_manual"}
      BY ModeAssumption, RunModeAssumption
    <2>2. CASE m \in {"pac", "system", "proxy_only"}
      BY <2>2 DEF Needed, StartPlan
    <2>3. CASE m \in {"hosts", "dns", "dns_manual"}
      BY <2>3 DEF Needed, StartPlan
    <2> QED BY <2>1, <2>2, <2>3
  <1>5. ASSUME FirstToStop(h) = "proxy"
        PROVE  h = {"proxy"}
    <2>1. c = 4
      BY <1>1, <1>a, <1>5, Zenon
    <2>2. 1 \in 1..(c-1) /\ 2 \in 1..(c-1) /\ 3 \in 1..(c-1)
      BY <2>1
    <2>3. "pac" \notin h /\ "dns" \notin h /\ "reverse" \notin h
      BY <1>1, <1>3, <2>2, Zenon DEF First
    <2> QED BY <2>3, Zenon DEF Server
  <1>6. ASSUME FirstToStop(h) = "reverse"
        PROVE  h \subseteq {"reverse", "proxy"}
    <2>1. c = 3
      BY <1>1, <1>a, <1>6, Zenon
    <2>2. 1 \in 1..(c-1) /\ 2 \in 1..(c-1)
      BY <2>1
    <2>3. "pac" \notin h /\ "dns" \notin h
      BY <1>1, <1>3, <2>2, Zenon DEF First
    <2> QED BY <2>3 DEF Server
  <1> QED BY <1>3, <1>4, <1>5, <1>6 DEF LastToStop, First

-----------------------------------------------------------------------------
(* Every step concerns one process. *)

(* A step of p that takes only free ports and gives up only its own leaves *)
(* the other processes as they are.                                        *)
LEMMA OneProcStep ==
    ASSUME PortIInv, NEW p \in Proc, EngTypeOK', ProcInv(p)',
           \A q \in Proc : q # p =>
              /\ mode'[q] = mode[q] /\ fields'[q] = fields[q] /\ running'[q] = running[q]
              /\ thr'[Main(q)] = thr[Main(q)] /\ thr'[Watch(q)] = thr[Watch(q)],
           \A s \in Server :
              port'[s] = port[s] \/ {port[s], port'[s]} \subseteq {p, "free"}
    PROVE  PortIInv'
  <1> SUFFICES ASSUME NEW q \in Proc, q # p
               PROVE  ProcInv(q)'
    BY DEF PortIInv
  <1>1. ProcInv(q)
    BY DEF PortIInv
  <1>2. \A s \in Server : port'[s] = q <=> port[s] = q
    BY ProcAssumption
  <1> QED BY <1>1, <1>2 DEF ProcInv

(* One thread of p moves to the state x, with what the engine has then.    *)
LEMMA ThreadStep ==
    ASSUME PortIInv, NEW p \in Proc, NEW t \in {Main(p), Watch(p)},
           NEW x \in ThreadState, thr' = [thr EXCEPT ![t] = x],
           UNCHANGED mode, ctx' \in [Proc -> BOOLEAN],
           fields' \in [Proc -> SUBSET Server], running' \in [Proc -> BOOLEAN],
           port' \in [Server -> Proc \cup {"free"}],
           \A q \in Proc : q # p => fields'[q] = fields[q] /\ running'[q] = running[q],
           running'[p] <=> fields'[p] # {},
           \A s \in Server :
              port'[s] = port[s] \/ {port[s], port'[s]} \subseteq {p, "free"},
           t = Main(p) =>
              /\ ProcOk(mode[p], x, thr[Watch(p)], fields'[p])
              /\ \A s \in Server :
                    port'[s] = p <=> s \in x.held \cup thr[Watch(p)].held \cup fields'[p],
           t = Watch(p) =>
              /\ ProcOk(mode[p], thr[Main(p)], x, fields'[p])
              /\ \A s \in Server :
                    port'[s] = p <=> s \in thr[Main(p)].held \cup x.held \cup fields'[p]
    PROVE  PortIInv'
  <1>1. t \in Thread /\ mode \in [Proc -> RunMode] /\ thr \in [Thread -> ThreadState]
    BY ThreadFacts DEF PortIInv, EngTypeOK
  <1>2. EngTypeOK'
    BY <1>1 DEF EngTypeOK
  <1>3. thr'[t] = x /\ \A u \in Thread : u # t => thr'[u] = thr[u]
    BY <1>1
  <1>4. ProcInv(p)'
    <2>1. CASE t = Main(p)
      <3>1. thr'[Main(p)] = x /\ thr'[Watch(p)] = thr[Watch(p)]
        BY <2>1, <1>3, ThreadFacts, Zenon
      <3> QED BY <2>1, <3>1, SMTT(30) DEF ProcInv
    <2>2. CASE t = Watch(p)
      <3>1. thr'[Watch(p)] = x /\ thr'[Main(p)] = thr[Main(p)]
        BY <2>2, <1>3, ThreadFacts, SMTT(30)
      <3> QED BY <2>2, <3>1, Zenon DEF ProcInv
    <2> QED BY <2>1, <2>2, Zenon
  <1>5. ASSUME NEW q \in Proc, q # p
        PROVE  /\ mode'[q] = mode[q] /\ fields'[q] = fields[q] /\ running'[q] = running[q]
               /\ thr'[Main(q)] = thr[Main(q)] /\ thr'[Watch(q)] = thr[Watch(q)]
    <2>1. Main(q) \in Thread /\ Watch(q) \in Thread /\ Main(q) # t /\ Watch(q) # t
      BY <1>5, ThreadFacts
    <2> QED BY <2>1, <1>3, <1>5, Zenon
  <1> QED BY <1>2, <1>4, <1>5, OneProcStep, Zenon

(* One thread of p moves and holds the servers it held.                    *)
LEMMA SameHeldStep ==
    ASSUME PortIInv, NEW p \in Proc, NEW t \in {Main(p), Watch(p)},
           NEW x \in ThreadState, thr' = [thr EXCEPT ![t] = x],
           x.held = thr[t].held,
           UNCHANGED <<mode, fields, running, port>>, ctx' \in [Proc -> BOOLEAN],
           t = Main(p) => ProcOk(mode[p], x, thr[Watch(p)], fields[p]),
           t = Watch(p) => ProcOk(mode[p], thr[Main(p)], x, fields[p])
    PROVE  PortIInv'
  <1>1. EngTypeOK /\ ProcInv(p)
    BY DEF PortIInv
  <1>2. /\ UNCHANGED mode
        /\ fields' \in [Proc -> SUBSET Server] /\ running' \in [Proc -> BOOLEAN]
        /\ port' \in [Server -> Proc \cup {"free"}]
        /\ \A q \in Proc : q # p => fields'[q] = fields[q] /\ running'[q] = running[q]
        /\ \A s \in Server :
              port'[s] = port[s] \/ {port[s], port'[s]} \subseteq {p, "free"}
    BY <1>1, SMTT(30) DEF EngTypeOK
  <1>3. running'[p] <=> fields'[p] # {}
    BY <1>1, Zenon DEF ProcInv
  <1>4. t = Main(p) =>
              /\ ProcOk(mode[p], x, thr[Watch(p)], fields'[p])
              /\ \A s \in Server :
                    port'[s] = p <=> s \in x.held \cup thr[Watch(p)].held \cup fields'[p]
    BY <1>1, ZenonT(30) DEF ProcInv
  <1>5. t = Watch(p) =>
              /\ ProcOk(mode[p], thr[Main(p)], x, fields'[p])
              /\ \A s \in Server :
                    port'[s] = p <=> s \in thr[Main(p)].held \cup x.held \cup fields'[p]
    BY <1>1 DEF ProcInv
  <1> QED BY <1>2, <1>3, <1>4, <1>5, ThreadStep, Zenon

-----------------------------------------------------------------------------
(* Start *)

(* A thread that has just been given something to do. *)
LEMMA FreshFacts ==
    ASSUME NEW c \in MainPc \cup WatchPc, NEW h \in SUBSET Server
    PROVE  /\ [Fresh EXCEPT !.pc = c] \in ThreadState
           /\ [Fresh EXCEPT !.pc = c].pc = c
           /\ [Fresh EXCEPT !.pc = c].held = {}
           /\ [Fresh EXCEPT !.pc = c].step = 1
           /\ [Fresh EXCEPT !.held = h, !.pc = c] \in ThreadState
           /\ [Fresh EXCEPT !.held = h, !.pc = c].pc = c
           /\ [Fresh EXCEPT !.held = h, !.pc = c].held = h
           /\ Fresh \in ThreadState /\ Fresh.pc = "off" /\ Fresh.held = {} /\ Fresh.step = 1
  <1>1. "off" \in MainPc
    BY DEF MainPc
  <1>2. Fresh \in ThreadState /\ Fresh.pc = "off" /\ Fresh.held = {} /\ Fresh.step = 1
    BY <1>1 DEF Fresh, ThreadState
  <1> DEFINE x == [Fresh EXCEPT !.pc = c]
             y == [Fresh EXCEPT !.held = h, !.pc = c]
  <1>3. x \in ThreadState /\ x.pc = c /\ x.held = {} /\ x.step = 1
    BY <1>2 DEF ThreadState
  <1>4. y \in ThreadState /\ y.pc = c /\ y.held = h
    BY <1>2, Zenon DEF ThreadState
  <1> QED BY <1>2, <1>3, <1>4

(* What the invariant says of the main thread of p. *)
LEMMA MainFacts ==
    ASSUME PortIInv, NEW p \in Proc
    PROVE  /\ thr[Main(p)] \in ThreadState /\ thr[Watch(p)] \in ThreadState
           /\ mode[p] \in RunMode /\ fields[p] \subseteq Server
           /\ thr \in [Thread -> ThreadState]
           /\ ctx \in [Proc -> BOOLEAN]
           /\ ProcInv(p)
           /\ ProcOk(mode[p], thr[Main(p)], thr[Watch(p)], fields[p])
  BY ThreadFacts DEF PortIInv, EngTypeOK, ProcInv

(* The steps of Start that neither open nor close a server. *)
LEMMA StartQuietStep ==
    ASSUME PortIInv, NEW p \in Proc,
           \/ StartCheck(p) \/ StartPrepare(p) \/ StartStepFails(p)
           \/ StartApplyCall(p) \/ StartApplied(p) \/ StartApplyRetry(p)
           \/ StartApplyFailed(p) \/ StartUndoRestoreCall(p) \/ StartUndoRestoreRetry(p)
           \/ StartUndoRestored(p)
    PROVE  PortIInv'
  <1> DEFINE m == thr[Main(p)]
  <1>0. /\ m \in ThreadState /\ mode[p] \in RunMode /\ ctx \in [Proc -> BOOLEAN]
        /\ ProcOk(mode[p], m, thr[Watch(p)], fields[p])
        /\ running[p] <=> fields[p] # {}
    BY MainFacts, ZenonT(30) DEF ProcInv
  <1>u. UNCHANGED <<mode, fields, running, ctx, port>>
    BY DEF StartCheck, StartPrepare, StartStepFails, StartApplyCall, StartApplied,
           StartApplyRetry, StartApplyFailed, StartUndoRestoreCall, StartUndoRestoreRetry,
           StartUndoRestored
  <1>1. ASSUME NEW x \in ThreadState, thr' = [thr EXCEPT ![Main(p)] = x],
               x.held = m.held, ThreadOk(mode[p], x),
               m.pc \in {"start", "starting", "applying", "undoCall", "undoRestore"},
               x.pc \in {"starting", "applying", "undoCall", "undoRestore", "undo", "startFailed"}
        PROVE  PortIInv'
    <2>1. ProcOk(mode[p], x, thr[Watch(p)], fields[p])
      BY <1>0, <1>1 DEF ProcOk, MainPc
    <2>2. Main(p) # Watch(p)
      BY ThreadFacts
    <2> QED BY <1>0, <1>u, <1>1, <2>1, <2>2, SameHeldStep, ZenonT(30)
  <1>2. CASE StartCheck(p)
    <2> DEFINE x == [m EXCEPT !.pc = "starting"]
    <2>1. m.pc = "start" /\ m.held = {} /\ m.step = 1 /\ ~running[p]
      BY <1>0, <1>2, Zenon DEF StartCheck, ProcOk, ThreadOk
    <2>2. /\ x \in ThreadState /\ x.pc = "starting" /\ x.held = {} /\ x.step = 1
          /\ thr' = [thr EXCEPT ![Main(p)] = x]
      BY <1>0, <1>2, <2>1, ZenonT(30) DEF StartCheck, Set, ThreadState, MainPc
    <2> HIDE DEF x
    <2>3. ThreadOk(mode[p], x)
      <3>1. mode[p] \in RunMode
        BY <1>0, Zenon
      <3> QED BY <2>2, <3>1, PlanStarts, Zenon
    <2> QED BY <1>1, <2>1, <2>2, <2>3, ZenonT(30)
  <1>3. CASE StartPrepare(p)
    <2> DEFINE x == [m EXCEPT !.step = @ + 1]
    <2>1. /\ m.pc = "starting" /\ m.step <= Len(StartPlan(mode[p]))
          /\ m.held = PlanServers(mode[p], m.step)
          /\ StartPlan(mode[p])[m.step] \in {"build", "prepare", "preflight"}
          /\ m.step \in Nat \ {0}
      BY <1>0, <1>3, Zenon DEF StartPrepare, InPlan, PlanStep, ProcOk, ThreadOk, ThreadState
    <2>2. /\ x \in ThreadState /\ x.pc = "starting" /\ x.held = m.held /\ x.step = m.step + 1
          /\ thr' = [thr EXCEPT ![Main(p)] = x]
      BY <1>0, <1>3, <2>1 DEF StartPrepare, ThreadState
    <2> HIDE DEF x
    <2>3. PlanServers(mode[p], x.step) = x.held /\ x.step <= Len(StartPlan(mode[p])) + 1
      <3>1. mode[p] \in RunMode
        BY <1>0, Zenon
      <3>2. PlanServers(mode[p], m.step + 1) = PlanServers(mode[p], m.step)
            /\ m.step + 1 <= Len(StartPlan(mode[p])) + 1
        BY <2>1, <3>1, PlanPrepares, Zenon
      <3> QED BY <2>1, <2>2, <3>2, Zenon
    <2>4. ThreadOk(mode[p], x)
      BY <1>0, <2>1, <2>2, <2>3, Zenon DEF ThreadOk, ProcOk
    <2> QED BY <1>1, <2>1, <2>2, <2>4, Zenon
  <1>4. CASE StartStepFails(p)
    <2> DEFINE x == [m EXCEPT !.pc = "undo"]
    <2>1. m.pc = "starting"
      BY <1>4 DEF StartStepFails, InPlan
    <2>2. /\ x \in ThreadState /\ x.pc = "undo" /\ x.held = m.held
          /\ thr' = [thr EXCEPT ![Main(p)] = x]
      BY <1>0, <1>4, Zenon DEF StartStepFails, Set, ThreadState, MainPc
    <2> HIDE DEF x
    <2>3. ThreadOk(mode[p], x)
      BY <1>0, <2>2, Zenon DEF ThreadOk, ProcOk
    <2> QED BY <1>1, <2>1, <2>2, <2>3, Zenon
  <1>5. CASE StartApplyCall(p)
    <2> DEFINE x == [m EXCEPT !.pc = "applying"]
    <2>1. /\ m.pc = "starting" /\ m.step <= Len(StartPlan(mode[p]))
          /\ m.held = PlanServers(mode[p], m.step)
          /\ StartPlan(mode[p])[m.step] = "apply"
      BY <1>0, <1>5, Zenon DEF StartApplyCall, InPlan, PlanStep, ProcOk, ThreadOk
    <2>2. /\ x \in ThreadState /\ x.pc = "applying" /\ x.held = m.held /\ x.step = m.step
          /\ thr' = [thr EXCEPT ![Main(p)] = x]
      BY <1>0, <1>5, Zenon DEF StartApplyCall, Set, ThreadState, MainPc
    <2> HIDE DEF x
    <2>3. ThreadOk(mode[p], x)
      BY <1>0, <2>1, <2>2, Zenon DEF ThreadOk, ProcOk
    <2> QED BY <1>1, <2>1, <2>2, <2>3, Zenon
  <1>a. ASSUME m.pc = "applying"
        PROVE  /\ m.step <= Len(StartPlan(mode[p])) /\ m.step \in Nat \ {0}
               /\ m.held = PlanServers(mode[p], m.step)
               /\ m.held = Needed(mode[p]) /\ TakesOver(mode[p])
               /\ m.held = PlanServers(mode[p], m.step + 1)
    <2>1. /\ m.step <= Len(StartPlan(mode[p])) /\ m.step \in Nat \ {0}
          /\ m.held = PlanServers(mode[p], m.step)
          /\ StartPlan(mode[p])[m.step] = "apply"
      BY <1>0, <1>a, ZenonT(30) DEF ProcOk, ThreadOk, ThreadState
    <2>2. m.step \in 1..Len(StartPlan(mode[p]))
      BY <1>0, <2>1, PlanFacts
    <2> QED BY <1>0, <2>1, <2>2, PlanFacts, ZenonT(30)
  <1>6. CASE StartApplied(p)
    <2> DEFINE x == [m EXCEPT !.pc = "starting", !.step = @ + 1]
    <2>1. m.pc = "applying"
      BY <1>6, Zenon DEF StartApplied
    <2>a. m.step + 1 \in Nat \ {0}
      BY <1>a, <2>1
    <2>b. x \in ThreadState /\ x.pc = "starting" /\ x.held = m.held /\ x.step = m.step + 1
      BY <1>0, <2>a, Zenon DEF ThreadState, MainPc
    <2>c. thr' = [thr EXCEPT ![Main(p)] = x]
      BY <1>6, MainFacts, ThreadFacts, ZenonT(30) DEF StartApplied
    <2>2. /\ x \in ThreadState /\ x.pc = "starting" /\ x.held = m.held /\ x.step = m.step + 1
          /\ thr' = [thr EXCEPT ![Main(p)] = x]
      BY <2>b, <2>c, ZenonT(30)
    <2> HIDE DEF x
    <2>3. x.step <= Len(StartPlan(mode[p])) + 1
      BY <1>0, <1>a, <2>1, <2>2, PlanFacts, SMTT(30)
    <2>4. ThreadOk(mode[p], x)
      BY <1>0, <1>a, <2>1, <2>2, <2>3, Zenon DEF ThreadOk, ProcOk
    <2> QED BY <1>1, <2>1, <2>2, <2>4, Zenon
  <1>7. CASE StartApplyRetry(p)
    <2> DEFINE x == [m EXCEPT !.pc = "starting", !.retried = TRUE]
    <2>1. m.pc = "applying"
      BY <1>7 DEF StartApplyRetry
    <2>2. /\ x \in ThreadState /\ x.pc = "starting" /\ x.held = m.held /\ x.step = m.step
          /\ thr' = [thr EXCEPT ![Main(p)] = x]
      BY <1>0, <1>7, ZenonT(30) DEF StartApplyRetry, ThreadState, MainPc
    <2> HIDE DEF x
    <2>3. x.step <= Len(StartPlan(mode[p])) + 1
      BY <1>0, <1>a, <2>1, <2>2, PlanFacts, SMTT(30)
    <2>4. ThreadOk(mode[p], x)
      BY <1>0, <1>a, <2>1, <2>2, <2>3, Zenon DEF ThreadOk, ProcOk
    <2> QED BY <1>1, <2>1, <2>2, <2>4, Zenon
  <1>8. CASE StartApplyFailed(p)
    <2> DEFINE c == IF mode[p] = "dns" THEN "undoCall" ELSE "undo"
               x == [m EXCEPT !.pc = c, !.retried = FALSE]
    <2>1. m.pc = "applying" /\ c \in {"undoCall", "undo"}
      BY <1>8, SMTT(30) DEF StartApplyFailed
    <2>2. /\ x \in ThreadState /\ x.pc = c /\ x.held = m.held
          /\ thr' = [thr EXCEPT ![Main(p)] = x]
      BY <1>0, <1>8, <2>1 DEF StartApplyFailed, ThreadState, MainPc
    <2> HIDE DEF x, c
    <2>3. ThreadOk(mode[p], x)
      BY <1>0, <1>a, <2>1, <2>2, Zenon DEF ThreadOk, ProcOk
    <2> QED BY <1>1, <2>1, <2>2, <2>3, ZenonT(30)
  <1>9. CASE StartUndoRestoreCall(p) \/ StartUndoRestored(p)
    <2> DEFINE c == IF m.pc = "undoCall" THEN "undoRestore" ELSE "undo"
               x == [m EXCEPT !.pc = c]
    <2>1. m.pc \in {"undoCall", "undoRestore"} /\ c \in {"undoRestore", "undo"}
      BY <1>9, Zenon DEF StartUndoRestoreCall, StartUndoRestored
    <2>2. /\ x \in ThreadState /\ x.pc = c /\ x.held = m.held
          /\ thr' = [thr EXCEPT ![Main(p)] = x]
      BY <1>0, <1>9, <2>1, SMTT(30) DEF StartUndoRestoreCall, StartUndoRestored, Set, ThreadState, MainPc
    <2> HIDE DEF x, c
    <2>3. ThreadOk(mode[p], x)
      BY <1>0, <2>1, <2>2, Zenon DEF ThreadOk, ProcOk
    <2> QED BY <1>1, <2>1, <2>2, <2>3, ZenonT(30)
  <1>10. CASE StartUndoRestoreRetry(p)
    <2> DEFINE x == [m EXCEPT !.pc = "undoCall", !.retried = TRUE]
    <2>1. m.pc = "undoRestore"
      BY <1>10, Zenon DEF StartUndoRestoreRetry
    <2>2. /\ x \in ThreadState /\ x.pc = "undoCall" /\ x.held = m.held
          /\ thr' = [thr EXCEPT ![Main(p)] = x]
      BY <1>0, <1>10, ZenonT(30) DEF StartUndoRestoreRetry, ThreadState, MainPc
    <2> HIDE DEF x
    <2>3. ThreadOk(mode[p], x)
      BY <1>0, <2>1, <2>2, Zenon DEF ThreadOk, ProcOk
    <2> QED BY <1>1, <2>1, <2>2, <2>3, ZenonT(30)
  <1> QED BY <1>2, <1>3, <1>4, <1>5, <1>6, <1>7, <1>8, <1>9, <1>10, Zenon

(* A server that listens goes to the thread that started it. *)
LEMMA StartListenStep ==
    ASSUME PortIInv, NEW p \in Proc, StartListen(p)
    PROVE  PortIInv'
  <1> DEFINE m == thr[Main(p)]
             w == thr[Watch(p)]
             s0 == PlanStep(p)
             x == [m EXCEPT !.step = @ + 1, !.held = @ \cup {s0}]
  <1>0. /\ m \in ThreadState /\ mode[p] \in RunMode /\ ctx \in [Proc -> BOOLEAN]
        /\ ProcOk(mode[p], m, w, fields[p]) /\ ProcInv(p)
    BY MainFacts, ZenonT(30)
  <1>1. /\ m.pc = "starting" /\ m.step <= Len(StartPlan(mode[p]))
        /\ m.held = PlanServers(mode[p], m.step)
        /\ s0 = StartPlan(mode[p])[m.step] /\ s0 \in Server
        /\ m.step \in Nat \ {0} /\ m.held \subseteq Server
        /\ port[s0] = "free"
        /\ UNCHANGED <<mode, fields, running, ctx>>
    BY <1>0 DEF StartListen, InPlan, PlanStep, ProcOk, ThreadOk, ThreadState
  <1>2. port' = [port EXCEPT ![s0] = p]
    BY Zenon DEF StartListen
  <1>3. m.step + 1 \in Nat \ {0} /\ m.held \cup {s0} \in SUBSET Server
    BY <1>1
  <1>4. /\ x \in ThreadState /\ x.pc = "starting"
        /\ x.held = m.held \cup {s0} /\ x.step = m.step + 1
    BY <1>0, <1>1, <1>3, Zenon DEF ThreadState, MainPc
  <1>5. thr' = [thr EXCEPT ![Main(p)] = x]
    BY MainFacts, ThreadFacts, ZenonT(30) DEF StartListen
  <1> HIDE DEF x, s0
  <1>6. m.step \in 1..Len(StartPlan(mode[p]))
    BY <1>0, <1>1, PlanFacts, Within, ZenonT(30)
  <1>7. x.held = PlanServers(mode[p], x.step) /\ x.step <= Len(StartPlan(mode[p])) + 1
    <2>1. /\ PlanServers(mode[p], m.step + 1) =
               PlanServers(mode[p], m.step) \cup {StartPlan(mode[p])[m.step]}
          /\ Len(StartPlan(mode[p])) \in Nat
      BY <1>0, <1>1, <1>6, PlanFacts, ZenonT(30)
    <2> QED BY <2>1, <1>1, <1>4
  <1>8. s0 \in Needed(mode[p])
    BY <1>1, <1>6 DEF Needed
  <1>9. ProcOk(mode[p], x, w, fields[p])
    BY <1>0, <1>1, <1>4, <1>7, <1>8, Zenon DEF ProcOk, ThreadOk
  <1>10. EngTypeOK /\ "free" \notin Proc
    BY ProcAssumption DEF PortIInv
  <1>11. \A s \in Server : port'[s] = IF s = s0 THEN p ELSE port[s]
    BY <1>2, <1>10, Zenon DEF EngTypeOK
  <1>12. /\ \A s \in Server : port'[s] = port[s] \/ {port[s], port'[s]} \subseteq {p, "free"}
         /\ port' \in [Server -> Proc \cup {"free"}]
         /\ fields' \in [Proc -> SUBSET Server] /\ running' \in [Proc -> BOOLEAN]
         /\ \A q \in Proc : q # p => fields'[q] = fields[q] /\ running'[q] = running[q]
    BY <1>1, <1>2, <1>10, <1>11, ZenonT(30) DEF EngTypeOK
  <1>13. /\ running'[p] <=> fields'[p] # {}
         /\ \A s \in Server : port'[s] = p <=> s \in x.held \cup w.held \cup fields'[p]
    BY <1>0, <1>1, <1>4, <1>11, ZenonT(30) DEF ProcInv
  <1>14. Main(p) # Watch(p) /\ fields'[p] = fields[p] /\ UNCHANGED mode
         /\ ctx' \in [Proc -> BOOLEAN]
    BY <1>0, <1>1, ThreadFacts, Zenon
  <1> QED BY <1>4, <1>5, <1>9, <1>12, <1>13, <1>14, ThreadStep, ZenonT(30)

(* One server goes, at either thread. *)
LEMMA CloseStep ==
    ASSUME PortIInv, NEW p \in Proc, NEW t \in {Main(p), Watch(p)},
           NEW x \in ThreadState, thr' = [thr EXCEPT ![t] = x],
           NEW s0 \in thr[t].held, x.held = thr[t].held \ {s0},
           port' = [port EXCEPT ![s0] = "free"],
           UNCHANGED <<mode, fields, running, ctx>>,
           t = Main(p) => ProcOk(mode[p], x, thr[Watch(p)], fields[p]),
           t = Watch(p) => ProcOk(mode[p], thr[Main(p)], x, fields[p])
    PROVE  PortIInv'
  <1> DEFINE m == thr[Main(p)]
             w == thr[Watch(p)]
  <1>0. /\ m \in ThreadState /\ w \in ThreadState /\ mode[p] \in RunMode
        /\ ProcOk(mode[p], m, w, fields[p]) /\ ProcInv(p)
    BY MainFacts
  <1>1. EngTypeOK /\ "free" \notin Proc
    BY ProcAssumption DEF PortIInv
  <1>2. s0 \in Server
    BY <1>0, Zenon DEF ThreadState
  <1>3. \A s \in Server : port'[s] = IF s = s0 THEN "free" ELSE port[s]
    BY <1>1, <1>2, Zenon DEF EngTypeOK
  <1>4. port[s0] = p
    BY <1>0, <1>2, Zenon DEF ProcInv
  <1>5. /\ \A s \in Server : port'[s] = port[s] \/ {port[s], port'[s]} \subseteq {p, "free"}
        /\ port' \in [Server -> Proc \cup {"free"}]
        /\ fields' \in [Proc -> SUBSET Server] /\ running' \in [Proc -> BOOLEAN]
        /\ ctx' \in [Proc -> BOOLEAN] /\ UNCHANGED mode
        /\ \A q \in Proc : q # p => fields'[q] = fields[q] /\ running'[q] = running[q]
    BY <1>1, <1>2, <1>3, <1>4, Zenon DEF EngTypeOK
  <1>6. running'[p] <=> fields'[p] # {}
    BY <1>0, Zenon DEF ProcInv
  <1>7. t = Main(p) =>
           /\ ProcOk(mode[p], x, w, fields'[p])
           /\ \A s \in Server : port'[s] = p <=> s \in x.held \cup w.held \cup fields'[p]
    <2> SUFFICES ASSUME t = Main(p)
                 PROVE  \A s \in Server :
                           port'[s] = p <=> s \in x.held \cup w.held \cup fields'[p]
      OBVIOUS
    <2>1. w.held = {} /\ fields[p] = {}
      BY <1>0, ZenonT(30) DEF ProcOk, ThreadOk, MainPc
    <2> QED BY <1>0, <1>1, <1>3, <2>1, ZenonT(100) DEF ProcInv
  <1>8. t = Watch(p) =>
           /\ ProcOk(mode[p], m, x, fields'[p])
           /\ \A s \in Server : port'[s] = p <=> s \in m.held \cup x.held \cup fields'[p]
    <2> SUFFICES ASSUME t = Watch(p)
                 PROVE  \A s \in Server :
                           port'[s] = p <=> s \in m.held \cup x.held \cup fields'[p]
      OBVIOUS
    <2>1. m.held = {} /\ fields[p] = {}
      BY <1>0, Zenon DEF ProcOk, ThreadOk, WatchPc
    <2> QED BY <1>0, <1>1, <1>3, <2>1, ZenonT(30) DEF ProcInv
  <1> QED BY <1>5, <1>6, <1>7, <1>8, ThreadStep, ZenonT(100)

(* Start's error path closes the servers one by one. *)
LEMMA StartUndoStep ==
    ASSUME PortIInv, NEW p \in Proc, StartUndo(p)
    PROVE  PortIInv'
  <1> DEFINE m == thr[Main(p)]
             s0 == FirstToStop(m.held)
  <1>0. /\ m \in ThreadState /\ mode[p] \in RunMode /\ ctx \in [Proc -> BOOLEAN]
        /\ ProcOk(mode[p], m, thr[Watch(p)], fields[p])
        /\ m.held \subseteq Server /\ Main(p) # Watch(p)
    BY MainFacts, ThreadFacts, Zenon DEF ThreadState
  <1>1. m.pc = "undo" /\ UNCHANGED <<mode, fields, running, ctx>>
    BY DEF StartUndo
  <1>2. CASE m.held # {}
    <2> DEFINE x == [m EXCEPT !.held = @ \ {s0}]
    <2>1. s0 \in m.held
      BY <1>0, <1>2, StopFacts, Zenon
    <2>2. /\ x \in ThreadState /\ x.pc = "undo" /\ x.held = m.held \ {s0}
          /\ thr' = [thr EXCEPT ![Main(p)] = x]
          /\ port' = [port EXCEPT ![s0] = "free"]
      BY <1>0, <1>1, <1>2 DEF StartUndo, ThreadState
    <2> HIDE DEF x, s0
    <2>3. ThreadOk(mode[p], x)
      BY <1>0, <2>2, ZenonT(30) DEF ThreadOk, ProcOk
    <2>4. ProcOk(mode[p], x, thr[Watch(p)], fields[p])
      BY <1>0, <1>1, <2>2, <2>3 DEF ProcOk
    <2> QED BY <1>0, <1>1, <2>1, <2>2, <2>4, CloseStep, ZenonT(30)
  <1>3. CASE m.held = {}
    <2> DEFINE x == [m EXCEPT !.pc = "startFailed"]
    <2>1. /\ x \in ThreadState /\ x.pc = "startFailed" /\ x.held = m.held
          /\ thr' = [thr EXCEPT ![Main(p)] = x] /\ UNCHANGED port
      BY <1>0, <1>3 DEF StartUndo, ThreadState, MainPc, Set
    <2> HIDE DEF x
    <2>2. ProcOk(mode[p], x, thr[Watch(p)], fields[p])
      BY <1>0, <1>1, <1>3, <2>1, Zenon DEF ProcOk, ThreadOk, MainPc
    <2> QED BY <1>0, <1>1, <2>1, <2>2, SameHeldStep, Zenon
  <1> QED BY <1>2, <1>3, Zenon

(* Publishing moves the servers from the thread to the engine. *)
LEMMA StartPublishStep ==
    ASSUME PortIInv, NEW p \in Proc, StartPublish(p)
    PROVE  PortIInv'
  <1> DEFINE m == thr[Main(p)]
             x == [Fresh EXCEPT !.pc = "started"]
             y == [Fresh EXCEPT !.pc = "wait"]
  <1>0. /\ m \in ThreadState /\ mode[p] \in RunMode /\ ctx \in [Proc -> BOOLEAN]
        /\ ProcOk(mode[p], m, thr[Watch(p)], fields[p])
        /\ m.held \subseteq Server /\ EngTypeOK /\ ProcInv(p)
    BY MainFacts, ZenonT(30) DEF ThreadState, PortIInv
  <1>1. /\ m.pc = "starting" /\ m.held = Needed(mode[p])
        /\ Needed(mode[p]) # {} /\ fields[p] = {} /\ thr[Watch(p)].held = {}
    BY <1>0, PlanFacts DEF StartPublish, ProcOk, ThreadOk
  <1>2. /\ fields' = [fields EXCEPT ![p] = m.held] /\ running' = [running EXCEPT ![p] = TRUE]
        /\ UNCHANGED <<mode, ctx, port>>
        /\ thr' = [thr EXCEPT ![Main(p)] = x, ![Watch(p)] = y]
    BY Zenon DEF StartPublish
  <1>3. /\ x \in ThreadState /\ x.pc = "started" /\ x.held = {}
        /\ y \in ThreadState /\ y.pc = "wait" /\ y.held = {}
    <2>1. "started" \in MainPc /\ "wait" \in WatchPc
      BY DEF MainPc, WatchPc
    <2> QED BY <2>1, FreshFacts, Zenon
  <1> HIDE DEF x, y
  <1>4. EngTypeOK'
    BY <1>0, <1>2, <1>3, ZenonT(30) DEF EngTypeOK
  <1>5. /\ thr'[Main(p)] = x /\ thr'[Watch(p)] = y /\ mode'[p] = mode[p]
        /\ fields'[p] = Needed(mode[p]) /\ running'[p]
        /\ \A t \in Thread : t # Main(p) /\ t # Watch(p) => thr'[t] = thr[t]
    BY <1>0, <1>1, <1>2, ThreadFacts, ZenonT(30) DEF EngTypeOK
  <1>6. ProcOk(mode[p], x, y, Needed(mode[p]))
    BY <1>3 DEF ProcOk, ThreadOk, MainPc, WatchPc
  <1>7. ProcInv(p)'
    BY <1>0, <1>1, <1>2, <1>3, <1>5, <1>6, ZenonT(30) DEF ProcInv
  <1>8. ASSUME NEW q \in Proc, q # p
        PROVE  /\ mode'[q] = mode[q] /\ fields'[q] = fields[q] /\ running'[q] = running[q]
               /\ thr'[Main(q)] = thr[Main(q)] /\ thr'[Watch(q)] = thr[Watch(q)]
    BY <1>0, <1>2, <1>5, <1>8, ThreadFacts, SMTT(30) DEF EngTypeOK
  <1> QED BY <1>2, <1>4, <1>7, <1>8, OneProcStep, ZenonT(30)

(* The goroutine wakes, or the caller calls Stop. *)
LEMMA ToStopStep ==
    ASSUME PortIInv, NEW p \in Proc, NEW t \in {Main(p), Watch(p)},
           thr[t].pc \in {"started", "wait"}, Set(t, "stop"),
           UNCHANGED <<mode, fields, running, port>>, ctx' \in [Proc -> BOOLEAN]
    PROVE  PortIInv'
  <1> DEFINE m == thr[Main(p)]
             w == thr[Watch(p)]
             x == [thr[t] EXCEPT !.pc = "stop"]
  <1>0. /\ thr[t] \in ThreadState /\ mode[p] \in RunMode
        /\ ProcOk(mode[p], m, w, fields[p]) /\ Main(p) # Watch(p)
    BY MainFacts, ThreadFacts
  <1>1. thr[t].held = {}
    BY <1>0, Zenon DEF ProcOk, ThreadOk
  <1>2. /\ x \in ThreadState /\ x.pc = "stop" /\ x.held = thr[t].held
        /\ thr' = [thr EXCEPT ![t] = x]
    BY <1>0, Zenon DEF Set, ThreadState, MainPc
  <1> HIDE DEF x
  <1>3. t = Main(p) => ProcOk(mode[p], x, w, fields[p])
    BY <1>0, <1>1, <1>2, ZenonT(30) DEF ProcOk, ThreadOk, MainPc
  <1>4. t = Watch(p) => ProcOk(mode[p], m, x, fields[p])
    BY <1>0, <1>1, <1>2, Zenon DEF ProcOk, ThreadOk, WatchPc
  <1> QED BY <1>0, <1>2, <1>3, <1>4, SameHeldStep, ZenonT(30)

-----------------------------------------------------------------------------
(* Stop, on either thread *)

(* Taking the servers out of the engine hands them to the thread. *)
LEMMA StopSwapStep ==
    ASSUME PortIInv, NEW p \in Proc, NEW t \in {Main(p), Watch(p)}, StopSwap(t)
    PROVE  PortIInv'
  <1> DEFINE m == thr[Main(p)]
             w == thr[Watch(p)]
             c == IF fields[p] = {} THEN "stopped"
                  ELSE IF TakesOver(mode[p]) THEN "restore" ELSE "closing"
             x == [Fresh EXCEPT !.held = fields[p], !.pc = c]
  <1>0. /\ m \in ThreadState /\ w \in ThreadState /\ mode[p] \in RunMode
        /\ fields[p] \in SUBSET Server
        /\ ProcOk(mode[p], m, w, fields[p]) /\ Main(p) # Watch(p) /\ t[1] = p
        /\ EngTypeOK /\ ProcInv(p)
    BY MainFacts, ThreadFacts DEF PortIInv
  <1>1. /\ thr[t].pc = "stop"
        /\ thr' = [thr EXCEPT ![t] = x]
        /\ fields' = [fields EXCEPT ![p] = {}] /\ running' = [running EXCEPT ![p] = FALSE]
        /\ UNCHANGED <<mode, ctx, port>>
    BY <1>0, Zenon DEF StopSwap
  <1>2. c \in MainPc \cap WatchPc
    BY SMTT(30) DEF MainPc, WatchPc
  <1>4. /\ c \in {"stopped", "restore", "closing"}
        /\ c = "stopped" <=> fields[p] = {}
        /\ c = "restore" => TakesOver(mode[p])
        /\ fields[p] # {} => fields[p] = Needed(mode[p])
    BY <1>0, Zenon DEF ProcOk
  <1> HIDE DEF c
  <1>3. x \in ThreadState /\ x.pc = c /\ x.held = fields[p]
    <2>1. c \in MainPc \cup WatchPc /\ fields[p] \in SUBSET Server
      BY <1>0, <1>2
    <2>2. Fresh \in ThreadState
      BY <2>1, FreshFacts, Zenon
    <2> QED BY <2>1, <2>2, Zenon DEF ThreadState
  <1> HIDE DEF x
  <1>5. LastToStop(mode[p]) \in Needed(mode[p])
    BY <1>0, LastFacts, ZenonT(30)
  <1>6. ThreadOk(mode[p], x)
    BY <1>3, <1>4, <1>5 DEF ThreadOk
  <1>7. thr[t].held = {} /\ (fields[p] # {} => m.held = {} /\ w.held = {})
    <2>1. thr[t].held = {}
      BY <1>0, <1>1, ZenonT(30) DEF ProcOk, ThreadOk
    <2>2. fields[p] # {} => m.held = {}
      BY <1>0, ZenonT(30) DEF ProcOk, ThreadOk, MainPc
    <2>3. fields[p] # {} => w.held = {}
      BY <1>0, Zenon DEF ProcOk, ThreadOk, WatchPc
    <2> QED BY <2>1, <2>2, <2>3, Zenon
  <1>8. /\ fields' \in [Proc -> SUBSET Server] /\ running' \in [Proc -> BOOLEAN]
        /\ port' \in [Server -> Proc \cup {"free"}] /\ ctx' \in [Proc -> BOOLEAN]
        /\ UNCHANGED mode
        /\ \A q \in Proc : q # p => fields'[q] = fields[q] /\ running'[q] = running[q]
        /\ \A s \in Server : port'[s] = port[s] \/ {port[s], port'[s]} \subseteq {p, "free"}
        /\ fields'[p] = {} /\ (running'[p] <=> fields'[p] # {})
    BY <1>0, <1>1, Zenon DEF EngTypeOK
  <1>9. t = Main(p) =>
           /\ ProcOk(mode[p], x, w, fields'[p])
           /\ \A s \in Server : port'[s] = p <=> s \in x.held \cup w.held \cup fields'[p]
    <2> SUFFICES ASSUME t = Main(p)
                 PROVE  /\ ProcOk(mode[p], x, w, {})
                        /\ \A s \in Server : port[s] = p <=> s \in x.held \cup w.held
      BY <1>1, <1>8, Zenon
    <2>1. ProcOk(mode[p], x, w, {})
      BY <1>0, <1>2, <1>3, <1>4, <1>6, <1>7, Zenon DEF ProcOk
    <2> QED BY <2>1, <1>0, <1>3, <1>7, Zenon DEF ProcInv
  <1>10. t = Watch(p) =>
           /\ ProcOk(mode[p], m, x, fields'[p])
           /\ \A s \in Server : port'[s] = p <=> s \in m.held \cup x.held \cup fields'[p]
    <2> SUFFICES ASSUME t = Watch(p)
                 PROVE  /\ ProcOk(mode[p], m, x, {})
                        /\ \A s \in Server : port[s] = p <=> s \in m.held \cup x.held
      BY <1>1, <1>8, ZenonT(30)
    <2>1. ProcOk(mode[p], m, x, {})
      BY <1>0, <1>1, <1>2, <1>3, <1>4, <1>6, <1>7, Zenon DEF ProcOk
    <2> QED BY <2>1, <1>0, <1>3, <1>7, Zenon DEF ProcInv
  <1> QED BY <1>1, <1>3, <1>8, <1>9, <1>10, ThreadStep, ZenonT(30)

(* The steps of Stop that close no server. *)
LEMMA StopQuietStep ==
    ASSUME PortIInv, NEW p \in Proc, NEW t \in {Main(p), Watch(p)},
           StopRestoreCall(t) \/ StopRestoreRetry(t) \/ StopRestored(t) \/ StopReturn(t)
    PROVE  PortIInv'
  <1> DEFINE m == thr[Main(p)]
             w == thr[Watch(p)]
             y == thr[t]
  <1>0. /\ y \in ThreadState /\ mode[p] \in RunMode /\ ctx \in [Proc -> BOOLEAN]
        /\ ProcOk(mode[p], m, w, fields[p]) /\ Main(p) # Watch(p)
        /\ ThreadOk(mode[p], y)
    BY MainFacts, ThreadFacts, Zenon DEF ProcOk
  <1>1. UNCHANGED <<mode, fields, running, ctx, port>>
    BY Zenon DEF StopRestoreCall, StopRestoreRetry, StopRestored, StopReturn
  <1>2. ASSUME NEW x \in ThreadState, thr' = [thr EXCEPT ![t] = x],
               x.held = y.held, ThreadOk(mode[p], x),
               y.pc \in {"restore", "restoring", "closing"},
               x.pc \in {"restore", "restoring", "closing", "stopped"}
        PROVE  PortIInv'
    <2>1. t = Main(p) => ProcOk(mode[p], x, w, fields[p])
      BY <1>0, <1>2, ZenonT(30) DEF ProcOk, MainPc
    <2>2. t = Watch(p) => ProcOk(mode[p], m, x, fields[p])
      BY <1>0, <1>2, Zenon DEF ProcOk, WatchPc
    <2> QED BY <1>0, <1>1, <1>2, <2>1, <2>2, SameHeldStep, ZenonT(30)
  <1>3. CASE StopRestoreCall(t)
    <2> DEFINE x == [y EXCEPT !.pc = "restoring"]
    <2>1. /\ x \in ThreadState /\ x.pc = "restoring" /\ x.held = y.held
          /\ thr' = [thr EXCEPT ![t] = x] /\ y.pc = "restore"
      BY <1>0, <1>3 DEF StopRestoreCall, Set, ThreadState, MainPc
    <2> HIDE DEF x
    <2>2. ThreadOk(mode[p], x)
      BY <1>0, <2>1, Zenon DEF ThreadOk
    <2> QED BY <1>2, <2>1, <2>2, Zenon
  <1>4. CASE StopRestoreRetry(t)
    <2> DEFINE x == [y EXCEPT !.pc = "restore", !.retried = TRUE]
    <2>1. /\ x \in ThreadState /\ x.pc = "restore" /\ x.held = y.held
          /\ thr' = [thr EXCEPT ![t] = x] /\ y.pc = "restoring"
      BY <1>0, <1>4, Zenon DEF StopRestoreRetry, ThreadState, MainPc
    <2> HIDE DEF x
    <2>2. ThreadOk(mode[p], x)
      BY <1>0, <2>1, Zenon DEF ThreadOk
    <2> QED BY <1>2, <2>1, <2>2, Zenon
  <1>5. CASE StopRestored(t)
    <2>1. PICK e \in BOOLEAN : thr' = [thr EXCEPT ![t].pc = "closing", ![t].err = e]
      BY <1>5, Zenon DEF StopRestored
    <2> DEFINE x == [y EXCEPT !.pc = "closing", !.err = e]
    <2>2. /\ x \in ThreadState /\ x.pc = "closing" /\ x.held = y.held
          /\ thr' = [thr EXCEPT ![t] = x] /\ y.pc = "restoring"
      BY <1>0, <1>5, <2>1, ZenonT(30) DEF StopRestored, ThreadState, MainPc
    <2> HIDE DEF x
    <2>3. LastToStop(mode[p]) \in Needed(mode[p])
      BY <1>0, LastFacts
    <2>4. ThreadOk(mode[p], x)
      BY <1>0, <2>2, <2>3, Zenon DEF ThreadOk
    <2> QED BY <1>2, <2>2, <2>4, Zenon
  <1>6. CASE StopReturn(t)
    <2> DEFINE x == [y EXCEPT !.pc = "stopped"]
    <2>1. /\ x \in ThreadState /\ x.pc = "stopped" /\ x.held = y.held /\ y.held = {}
          /\ thr' = [thr EXCEPT ![t] = x] /\ y.pc = "closing"
      BY <1>0, <1>6, Zenon DEF StopReturn, Set, ThreadState, MainPc
    <2> HIDE DEF x
    <2>2. ThreadOk(mode[p], x)
      BY <1>0, <2>1, Zenon DEF ThreadOk
    <2> QED BY <1>2, <2>1, <2>2, Zenon
  <1> QED BY <1>3, <1>4, <1>5, <1>6, Zenon

(* Stop closes one of the servers it holds. *)
LEMMA StopServerStep ==
    ASSUME PortIInv, NEW p \in Proc, NEW t \in {Main(p), Watch(p)}, StopServer(t)
    PROVE  PortIInv'
  <1> DEFINE m == thr[Main(p)]
             w == thr[Watch(p)]
             y == thr[t]
             s0 == FirstToStop(y.held)
  <1>0. /\ y \in ThreadState /\ mode[p] \in RunMode
        /\ ProcOk(mode[p], m, w, fields[p]) /\ Main(p) # Watch(p)
        /\ ThreadOk(mode[p], y) /\ y.held \in SUBSET Server /\ y.err \in BOOLEAN
    BY MainFacts, ThreadFacts, Zenon DEF ProcOk, ThreadState
  <1>1. /\ y.pc = "closing" /\ y.held # {} /\ UNCHANGED <<mode, fields, running, ctx>>
        /\ port' = [port EXCEPT ![s0] = "free"]
    BY DEF StopServer
  <1>2. PICK e \in {y.err, TRUE} : thr' = [thr EXCEPT ![t].held = @ \ {s0}, ![t].err = e]
    BY Zenon DEF StopServer
  <1> DEFINE x == [y EXCEPT !.held = @ \ {s0}, !.err = e]
  <1>3. e \in BOOLEAN /\ y.held \ {s0} \in SUBSET Server
    BY <1>0, Zenon
  <1>4. x \in ThreadState /\ x.pc = "closing" /\ x.held = y.held \ {s0}
    BY <1>0, <1>1, <1>3, Zenon DEF ThreadState
  <1>5. thr' = [thr EXCEPT ![t] = x]
    BY <1>2, MainFacts, ThreadFacts, ZenonT(30)
  <1>6. /\ s0 \in y.held
        /\ y.held \ {s0} = {} \/ LastToStop(mode[p]) \in y.held \ {s0}
    BY <1>0, <1>1, StopFacts, Zenon DEF ThreadOk
  <1> HIDE DEF x, s0
  <1>7. ThreadOk(mode[p], x)
    BY <1>0, <1>1, <1>4, <1>6, ZenonT(30) DEF ThreadOk
  <1>8. t = Main(p) => ProcOk(mode[p], x, w, fields[p])
    BY <1>0, <1>1, <1>4, <1>7, ZenonT(30) DEF ProcOk
  <1>9. t = Watch(p) => ProcOk(mode[p], m, x, fields[p])
    BY <1>0, <1>1, <1>4, <1>7, Zenon DEF ProcOk
  <1> QED BY <1>1, <1>4, <1>5, <1>6, <1>8, <1>9, CloseStep, ZenonT(30)

-----------------------------------------------------------------------------
(* Starting, stopping and losing a process *)

(* A new engine, or a first one, is started; both threads had come to rest. *)
LEMMA ToStartStep ==
    ASSUME PortIInv, NEW p \in Proc, Finished(Main(p)), Finished(Watch(p)),
           NEW md \in RunMode, mode' = [mode EXCEPT ![p] = md],
           thr' = [thr EXCEPT ![Main(p)] = [Fresh EXCEPT !.pc = "start"],
                              ![Watch(p)] = Fresh],
           ctx' \in [Proc -> BOOLEAN], UNCHANGED <<fields, running, port>>
    PROVE  PortIInv'
  <1> DEFINE m == thr[Main(p)]
             w == thr[Watch(p)]
             x == [Fresh EXCEPT !.pc = "start"]
  <1>0. /\ EngTypeOK /\ ProcInv(p) /\ ProcOk(mode[p], m, w, fields[p])
        /\ thr \in [Thread -> ThreadState] /\ m.pc \in {"off", "startFailed", "stopped"}
        /\ w.pc \in {"off", "startFailed", "stopped"}
    BY MainFacts, ZenonT(30) DEF PortIInv, Finished
  <1>1. m.held = {} /\ w.held = {} /\ fields[p] = {}
    BY <1>0 DEF ProcOk, ThreadOk
  <1>2. "start" \in MainPc \cup WatchPc /\ {} \in SUBSET Server
    BY DEF MainPc
  <1>3. /\ x \in ThreadState /\ x.pc = "start" /\ x.held = {} /\ x.step = 1
        /\ Fresh \in ThreadState /\ Fresh.pc = "off" /\ Fresh.held = {} /\ Fresh.step = 1
    BY <1>2, FreshFacts, Zenon
  <1>4. thr' = [thr EXCEPT ![Main(p)] = x, ![Watch(p)] = Fresh]
    OBVIOUS
  <1> HIDE DEF x
  <1>5. EngTypeOK'
    BY <1>0, <1>3, <1>4, ZenonT(30) DEF EngTypeOK
  <1>6. /\ thr'[Main(p)] = x /\ thr'[Watch(p)] = Fresh /\ mode'[p] = md
        /\ fields'[p] = {} /\ running'[p] = running[p]
        /\ \A t \in Thread : t # Main(p) /\ t # Watch(p) => thr'[t] = thr[t]
    BY <1>0, <1>1, <1>4, ThreadFacts DEF EngTypeOK
  <1>7. ProcOk(md, x, Fresh, {})
    BY <1>3 DEF ProcOk, ThreadOk, MainPc, WatchPc
  <1>8. ProcInv(p)'
    BY <1>0, <1>1, <1>3, <1>6, <1>7, Zenon DEF ProcInv
  <1>9. ASSUME NEW q \in Proc, q # p
        PROVE  /\ mode'[q] = mode[q] /\ fields'[q] = fields[q] /\ running'[q] = running[q]
               /\ thr'[Main(q)] = thr[Main(q)] /\ thr'[Watch(q)] = thr[Watch(q)]
    BY <1>0, <1>6, <1>9, ThreadFacts, SMTT(30) DEF EngTypeOK
  <1> QED BY <1>5, <1>8, <1>9, OneProcStep, Zenon

(* A process that dies gives up every port. *)
LEMMA DieStep ==
    ASSUME PortIInv, NEW p \in Proc, Die(p)
    PROVE  PortIInv'
  <1>0. /\ EngTypeOK /\ thr \in [Thread -> ThreadState] /\ "free" \notin Proc
    BY ProcAssumption DEF PortIInv, EngTypeOK
  <1>1. "off" \in MainPc \cup WatchPc /\ {} \in SUBSET Server
    BY Zenon DEF MainPc
  <1>2. Fresh \in ThreadState /\ Fresh.pc = "off" /\ Fresh.held = {} /\ Fresh.step = 1
    BY <1>1, FreshFacts, Zenon
  <1>3. EngTypeOK'
    BY <1>0, <1>2 DEF EngTypeOK, Die
  <1>4. /\ thr'[Main(p)] = Fresh /\ thr'[Watch(p)] = Fresh /\ mode'[p] = mode[p]
        /\ fields'[p] = {} /\ ~running'[p]
        /\ \A s \in Server : port'[s] = IF port[s] = p THEN "free" ELSE port[s]
    BY <1>0, ThreadFacts, Zenon DEF Die, EngTypeOK
  <1>5. ProcOk(mode[p], Fresh, Fresh, {})
    BY <1>2, ZenonT(30) DEF ProcOk, ThreadOk, MainPc, WatchPc
  <1>6. ProcInv(p)'
    BY <1>0, <1>2, <1>4, <1>5, ZenonT(30) DEF ProcInv
  <1>7. ASSUME NEW q \in Proc, q # p
        PROVE  /\ mode'[q] = mode[q] /\ fields'[q] = fields[q] /\ running'[q] = running[q]
               /\ thr'[Main(q)] = thr[Main(q)] /\ thr'[Watch(q)] = thr[Watch(q)]
    BY <1>0, <1>7, ThreadFacts DEF Die, EngTypeOK
  <1> QED BY <1>3, <1>4, <1>6, <1>7, OneProcStep, Zenon

-----------------------------------------------------------------------------
(* Engines start with no server and every port free. *)
LEMMA PortInit == EngInit => PortIInv
  <1> SUFFICES ASSUME EngInit
               PROVE  PortIInv
    OBVIOUS
  <1>1. "off" \in MainPc \cup WatchPc /\ {} \in SUBSET Server /\ "free" \notin Proc
    BY ProcAssumption, Zenon DEF MainPc
  <1>2. Fresh \in ThreadState /\ Fresh.pc = "off" /\ Fresh.held = {} /\ Fresh.step = 1
    BY <1>1, FreshFacts, Zenon
  <1>3. EngTypeOK
    BY <1>2, Zenon DEF EngInit, EngTypeOK
  <1>4. ASSUME NEW p \in Proc
        PROVE  ProcInv(p)
    <2>1. /\ thr[Main(p)] = Fresh /\ thr[Watch(p)] = Fresh /\ fields[p] = {}
          /\ ~running[p] /\ \A s \in Server : port[s] = "free"
      BY ThreadFacts, ZenonT(30) DEF EngInit
    <2>2. ProcOk(mode[p], Fresh, Fresh, {})
      BY <1>2, Zenon DEF ProcOk, ThreadOk, MainPc, WatchPc
    <2> QED BY <1>1, <1>2, <2>1, <2>2, Zenon DEF ProcInv
  <1> QED BY <1>3, <1>4 DEF PortIInv

(* A step that leaves the engines alone. *)
LEMMA PortStutter ==
    ASSUME PortIInv, UNCHANGED engVars
    PROVE  PortIInv'
  BY DEF PortIInv, EngTypeOK, ProcInv, engVars

(* Every step an engine takes of its own. *)
LEMMA EngStepPort ==
    ASSUME PortIInv, NEW p \in Proc, EngStep(p)
    PROVE  PortIInv'
  <1>1. CASE StartingUp(p)
    BY <1>1, StartQuietStep, StartListenStep, StartUndoStep, StartPublishStep, Zenon DEF StartingUp
  <1>2. CASE WatchWakes(p)
    <2>1. ctx' \in [Proc -> BOOLEAN] /\ Watch(p) \in {Main(p), Watch(p)}
      BY <1>2 DEF WatchWakes, PortIInv, EngTypeOK
    <2> QED BY <1>2, <2>1, ToStopStep, Zenon DEF WatchWakes
  <1>3. ASSUME NEW t \in {Main(p), Watch(p)}, Stopping(t)
        PROVE  PortIInv'
    BY <1>3, StopSwapStep, StopQuietStep, StopServerStep, Zenon DEF Stopping
  <1>4. ASSUME NEW t \in {Main(p), Watch(p)}, InCall(t)
        PROVE  PortIInv'
    BY <1>4, PortStutter, Zenon DEF InCall
  <1> QED BY <1>1, <1>2, <1>3, <1>4, Zenon DEF EngStep

LEMMA PortNext == PortIInv /\ [EngNext]_allVars => PortIInv'
  <1> SUFFICES ASSUME PortIInv, [EngNext]_allVars
               PROVE  PortIInv'
    OBVIOUS
  <1>1. CASE UNCHANGED allVars
    BY <1>1, PortStutter DEF allVars
  <1>2. ASSUME NEW p \in Proc, EngStep(p)
        PROVE  PortIInv'
    BY <1>2, EngStepPort
  <1>3. ASSUME NEW p \in Proc, CallStart(p)
        PROVE  PortIInv'
    <2>1. ctx' \in [Proc -> BOOLEAN]
      BY <1>3, Zenon DEF CallStart, PortIInv, EngTypeOK
    <2> QED BY <1>3, <2>1, ToStartStep, Zenon DEF CallStart
  <1>4. ASSUME NEW p \in Proc, CallStop(p)
        PROVE  PortIInv'
    <2>1. ctx' \in [Proc -> BOOLEAN] /\ Main(p) \in {Main(p), Watch(p)}
      BY <1>4, ZenonT(30) DEF CallStop, PortIInv, EngTypeOK
    <2> QED BY <1>4, <2>1, ToStopStep, SMTT(30) DEF CallStop
  <1>5. ASSUME NEW p \in Proc, Cancel(p)
        PROVE  PortIInv'
    BY <1>5, Zenon DEF Cancel, PortIInv, EngTypeOK, ProcInv
  <1>6. ASSUME NEW p \in Proc, EngineCrash(p)
        PROVE  PortIInv'
    BY <1>6, DieStep, ZenonT(30) DEF EngineCrash
  <1> QED BY <1>1, <1>2, <1>3, <1>4, <1>5, <1>6, Zenon DEF EngNext

(* The ports a process listens at are always the ones its engine and its   *)
(* threads account for (Start, Stop and the goroutine of internal/engine). *)
THEOREM EngPorts == EngSpec => []PortIInv
  <1>1. EngSpec => EngInit /\ [][EngNext]_allVars
    BY PTL DEF EngSpec
  <1> QED BY <1>1, PortInit, PortNext, PTL

(* An engine at work, from Apply to Restore, listens at all its servers. *)
ServersUp ==
    \A p \in Proc :
        \/ running[p]
        \/ thr[Main(p)].pc \in {"applying", "undoCall", "undoRestore"}
        \/ \E t \in {Main(p), Watch(p)} : thr[t].pc \in {"restore", "restoring"}
        => \A s \in Needed(mode[p]) : port[s] = p

LEMMA PortsUp == PortIInv => ServersUp
  <1> SUFFICES ASSUME PortIInv, NEW p \in Proc,
                      \/ running[p]
                      \/ thr[Main(p)].pc \in {"applying", "undoCall", "undoRestore"}
                      \/ \E t \in {Main(p), Watch(p)} : thr[t].pc \in {"restore", "restoring"},
                      NEW s \in Needed(mode[p])
               PROVE  port[s] = p
    BY Zenon DEF ServersUp
  <1>1. /\ ProcInv(p) /\ ProcOk(mode[p], thr[Main(p)], thr[Watch(p)], fields[p])
        /\ mode[p] \in RunMode /\ thr[Main(p)] \in ThreadState
    BY MainFacts, Zenon
  <1>2. s \in Server
    BY <1>1, PlanFacts, Zenon
  <1>3. CASE running[p]
    BY <1>1, <1>2, <1>3, ZenonT(30) DEF ProcInv, ProcOk
  <1>4. CASE thr[Main(p)].pc = "applying"
    <2> DEFINE m == thr[Main(p)]
    <2>1. /\ m.step <= Len(StartPlan(mode[p])) /\ m.step \in Nat \ {0}
          /\ m.held = PlanServers(mode[p], m.step)
          /\ StartPlan(mode[p])[m.step] = "apply"
      BY <1>1, <1>4, ZenonT(30) DEF ProcOk, ThreadOk, ThreadState
    <2>2. Len(StartPlan(mode[p])) \in Nat
      BY <1>1, PlanFacts, ZenonT(30)
    <2>3. m.step \in 1..Len(StartPlan(mode[p]))
      BY <2>1, <2>2
    <2>4. thr[Main(p)].held = Needed(mode[p])
      BY <1>1, <2>1, <2>3, PlanFacts, Zenon
    <2> QED BY <1>1, <1>2, <2>4, Zenon DEF ProcInv
  <1>5. CASE thr[Main(p)].pc \in {"undoCall", "undoRestore", "restore", "restoring"}
    BY <1>1, <1>2, <1>5, ZenonT(30) DEF ProcInv, ProcOk, ThreadOk
  <1>6. CASE thr[Watch(p)].pc \in {"restore", "restoring"}
    BY <1>1, <1>2, <1>6, Zenon DEF ProcInv, ProcOk, ThreadOk
  <1> QED BY <1>3, <1>4, <1>5, <1>6, Zenon

(* A Start that returns an error has closed every server it opened.        *)
THEOREM EngFailedStart == EngSpec => []FailedStartReleases
  <1>1. PortIInv => FailedStartReleases
    <2> SUFFICES ASSUME PortIInv, NEW p \in Proc, thr[Main(p)].pc = "startFailed",
                        NEW s \in Server
                 PROVE  port[s] # p
      BY DEF FailedStartReleases
    <2>1. ProcInv(p) /\ ProcOk(mode[p], thr[Main(p)], thr[Watch(p)], fields[p])
      BY MainFacts, ZenonT(30)
    <2> QED BY <2>1, Zenon DEF ProcInv, ProcOk, ThreadOk
  <1> QED BY <1>1, EngPorts, PTL

-----------------------------------------------------------------------------
(* One call of Apply or Restore at a time *)

(* Either there is one process, or the modes in use all face the clients   *)
(* with the same server, the forward proxy or the reverse proxy: its port  *)
(* is what keeps a second engine out.                                      *)
SharedPort ==
    \/ \A p, q \in Proc : p = q
    \/ \A m, n \in RunMode : LastToStop(m) = LastToStop(n)

InCallPc == {"applying", "undoRestore", "restoring"}

(* A thread is in a call only where Start and Stop make one. *)
CallPhase(t) ==
    job[t] # Idle =>
        /\ thr[t].pc \in InCallPc
        /\ job[t].pc # "dispatch"
        /\ thr[t].pc = "restoring" =>
              job[t].op = "restore" /\ job[t].target = KindOf(mode[t[1]])
        /\ job[t].op = "apply" => thr[t].pc = "applying" /\ job[t].target = mode[t[1]]

CallIInv == \A t \in Thread : CallPhase(t)

OnlyThreadsCall == \A a \in Actor \ Thread : job[a] = Idle

HoldsLast(t) == LastToStop(mode[t[1]]) \in thr[t].held

(* Only one thread holds the server facing the clients. *)
LEMMA OneHoldsLast ==
    ASSUME SharedPort, PortIInv, NEW t \in Thread, NEW u \in Thread,
           HoldsLast(t), HoldsLast(u)
    PROVE  t = u
  <1> DEFINE p == t[1]
             q == u[1]
  <1>1. p \in Proc /\ q \in Proc /\ t \in {Main(p), Watch(p)} /\ u \in {Main(q), Watch(q)}
    BY ThreadIsOne, ZenonT(30)
  <1>2. /\ ProcInv(p) /\ ProcOk(mode[p], thr[Main(p)], thr[Watch(p)], fields[p])
        /\ ProcInv(q) /\ mode[p] \in RunMode /\ mode[q] \in RunMode
        /\ thr[Main(p)] \in ThreadState /\ thr[Watch(p)] \in ThreadState
    BY <1>1, MainFacts
  <1>3. LastToStop(mode[p]) \in Server /\ LastToStop(mode[q]) \in Server
    BY DEF LastToStop, Server
  <1>4. port[LastToStop(mode[p])] = p
    BY <1>1, <1>2, <1>3, ZenonT(30) DEF ProcInv, HoldsLast
  <1>5. port[LastToStop(mode[q])] = q
    BY <1>1, <1>2, <1>3, ZenonT(30) DEF ProcInv, HoldsLast
  <1>6. p = q
    BY <1>1, <1>2, <1>4, <1>5, ZenonT(30) DEF SharedPort
  <1>7. thr[t].held # {} /\ thr[u].held # {}
    BY DEF HoldsLast
  <1>8. thr[Main(p)].held = {} \/ thr[Watch(p)].held = {}
    BY <1>2, Zenon DEF ProcOk
  <1> QED BY <1>1, <1>6, <1>7, <1>8, Zenon

(* Whoever is about to call, is in a call or has just restored holds it. *)
LEMMA CallerHoldsLast ==
    ASSUME PortIInv, NEW p \in Proc, NEW t \in {Main(p), Watch(p)},
           \/ thr[t].pc \in InCallPc \cup {"undoCall", "restore"}
           \/ t = Main(p) /\ InPlan(p) /\ PlanStep(p) = "apply"
    PROVE  /\ HoldsLast(t)
           /\ TakesOver(mode[p]) /\ mode[p] \in Mode
  <1> DEFINE m == thr[Main(p)]
  <1>1. /\ ProcOk(mode[p], m, thr[Watch(p)], fields[p]) /\ t[1] = p
        /\ mode[p] \in RunMode /\ m \in ThreadState
    BY MainFacts, ThreadFacts, Zenon
  <1>2. LastToStop(mode[p]) \in Needed(mode[p])
    BY <1>1, LastFacts
  <1>3. thr[t].held = Needed(mode[p]) /\ TakesOver(mode[p])
    <2>1. CASE thr[t].pc \in {"undoCall", "undoRestore", "restore", "restoring"}
      BY <1>1, <2>1, ZenonT(30) DEF ProcOk, ThreadOk
    <2>2. CASE \/ thr[t].pc = "applying"
               \/ t = Main(p) /\ InPlan(p) /\ PlanStep(p) = "apply"
      <3>1. t = Main(p)
        BY <1>1, <2>2, Zenon DEF ProcOk, WatchPc
      <3>2. /\ m.step <= Len(StartPlan(mode[p])) /\ m.step \in Nat \ {0}
            /\ m.held = PlanServers(mode[p], m.step)
            /\ StartPlan(mode[p])[m.step] = "apply"
        BY <1>1, <2>2, <3>1, ZenonT(30) DEF ProcOk, ThreadOk, ThreadState, InPlan, PlanStep
      <3>3. m.step \in 1..Len(StartPlan(mode[p]))
        BY <1>1, <3>2, PlanFacts, Within, Zenon
      <3> QED BY <1>1, <3>1, <3>2, <3>3, PlanFacts, ZenonT(30)
    <2> QED BY <2>1, <2>2, Zenon DEF InCallPc
  <1>4. mode[p] \in Mode
    BY <1>1, <1>3, RunModeAssumption, ZenonT(30) DEF TakesOver
  <1> QED BY <1>1, <1>2, <1>3, <1>4, Zenon DEF HoldsLast

(* So whoever is about to call finds everybody else idle. *)
LEMMA CallerAlone ==
    ASSUME SharedPort, PortIInv, CallIInv, OnlyThreadsCall,
           NEW t \in Thread, HoldsLast(t), NEW a \in Actor, a # t
    PROVE  job[a] = Idle
  <1> SUFFICES ASSUME job[a] # Idle
               PROVE  FALSE
    OBVIOUS
  <1>1. a \in Thread /\ thr[a].pc \in InCallPc
    BY SMTT(30) DEF CallIInv, CallPhase, OnlyThreadsCall
  <1>2. a[1] \in Proc /\ a \in {Main(a[1]), Watch(a[1])}
    BY <1>1, ThreadIsOne, Zenon
  <1>3. HoldsLast(a)
    BY <1>1, <1>2, CallerHoldsLast, Zenon
  <1> QED BY <1>1, <1>3, OneHoldsLast, Zenon

(* A step of one thread, or of threads that are in no call. *)
LEMMA CallStep ==
    ASSUME CallIInv, UNCHANGED mode, NEW t \in Thread, CallPhase(t)',
           \A u \in Thread : u # t =>
              job'[u] = job[u] /\ (thr'[u] = thr[u] \/ job[u] = Idle)
    PROVE  CallIInv'
  BY DEF CallIInv, CallPhase

(* The steps of Start and Stop that make no call and return from none. *)
LEMMA NoCallStep ==
    ASSUME PortIInv, CallIInv, NEW p \in Proc,
           \/ StartCheck(p) \/ StartPrepare(p) \/ StartListen(p) \/ StartStepFails(p)
           \/ StartUndo(p) \/ StartPublish(p) \/ WatchWakes(p)
           \/ \E t \in {Main(p), Watch(p)} : StopSwap(t) \/ StopServer(t) \/ StopReturn(t)
    PROVE  UNCHANGED sysVars /\ CallIInv'
  <1>0. thr \in [Thread -> ThreadState] /\ Main(p) \in Thread /\ Watch(p) \in Thread
    BY MainFacts, ThreadFacts, ZenonT(30)
  <1>1. UNCHANGED sysVars /\ UNCHANGED mode
    BY ZenonT(30) DEF StartCheck, StartPrepare, StartListen, StartStepFails, StartUndo, StartPublish,
           WatchWakes, StopSwap, StopServer, StopReturn, sysVars, sysOut
  <1>2. ASSUME NEW t \in Thread, thr[t].pc \notin InCallPc,
               \A u \in Thread : u # t => thr'[u] = thr[u] \/ thr[u].pc \notin InCallPc
        PROVE  CallIInv'
    <2>1. \A u \in Thread : thr[u].pc \notin InCallPc => job[u] = Idle
      BY Zenon DEF CallIInv, CallPhase
    <2>2. job' = job
      BY <1>1, Zenon DEF sysVars
    <2>3. CallPhase(t)'
      BY <1>2, <2>1, <2>2, Zenon DEF CallPhase
    <2> QED BY <1>1, <1>2, <2>1, <2>2, <2>3, CallStep, Zenon
  <1>3. CASE \/ StartCheck(p) \/ StartPrepare(p) \/ StartListen(p) \/ StartStepFails(p)
             \/ StartUndo(p)
    <2>1. thr[Main(p)].pc \notin InCallPc
      BY <1>3, Zenon DEF StartCheck, StartPrepare, StartListen, StartStepFails, StartUndo, InPlan,
                  InCallPc
    <2>2. \A u \in Thread : u # Main(p) => thr'[u] = thr[u]
      BY <1>0, <1>3, Zenon DEF StartCheck, StartPrepare, StartListen, StartStepFails, StartUndo, Set
    <2> QED BY <1>0, <1>1, <1>2, <2>1, <2>2, ZenonT(30)
  <1>4. CASE StartPublish(p)
    <2>1. thr[Main(p)].pc \notin InCallPc /\ thr[Watch(p)].pc \notin InCallPc
      BY <1>4, MainFacts, Zenon DEF StartPublish, ProcOk, InCallPc
    <2>2. \A u \in Thread : u # Main(p) /\ u # Watch(p) => thr'[u] = thr[u]
      BY <1>0, <1>4, Zenon DEF StartPublish
    <2> QED BY <1>0, <1>1, <1>2, <2>1, <2>2, Zenon
  <1>5. CASE WatchWakes(p)
    <2>1. thr[Watch(p)].pc \notin InCallPc
      BY <1>5, Zenon DEF WatchWakes, InCallPc
    <2>2. \A u \in Thread : u # Watch(p) => thr'[u] = thr[u]
      BY <1>0, <1>5, Zenon DEF WatchWakes, Set
    <2> QED BY <1>0, <1>1, <1>2, <2>1, <2>2, ZenonT(30)
  <1>6. ASSUME NEW t \in {Main(p), Watch(p)}, StopSwap(t) \/ StopServer(t) \/ StopReturn(t)
        PROVE  CallIInv'
    <2>1. thr[t].pc \notin InCallPc
      BY <1>6, Zenon DEF StopSwap, StopServer, StopReturn, InCallPc
    <2>2. \A u \in Thread : u # t => thr'[u] = thr[u]
      BY <1>0, <1>6, ZenonT(30) DEF StopSwap, StopServer, StopReturn, Set
    <2> QED BY <1>0, <1>2, <2>1, <2>2, Zenon
  <1> QED BY <1>1, <1>3, <1>4, <1>5, <1>6, Zenon

(* A thread calls Apply or Restore: nobody else is in a call. *)
LEMMA MakeCallStep ==
    ASSUME SharedPort, PortIInv, CallIInv, SysIInv, NEW p \in Proc,
           NEW t \in {Main(p), Watch(p)},
           \/ t = Main(p) /\ (StartApplyCall(p) \/ StartUndoRestoreCall(p))
           \/ StopRestoreCall(t),
           (\E u \in Thread : HoldsLast(u)) => OnlyThreadsCall
    PROVE  /\ SysNext /\ CallIInv'
           /\ \A a \in Actor \ Thread : job'[a] = job[a]
  <1>0. /\ thr \in [Thread -> ThreadState] /\ t \in Thread /\ t \in Actor /\ t[1] = p
        /\ thr[t] \in ThreadState /\ job \in [Actor -> JobType]
    BY MainFacts, ThreadFacts, ZenonT(30) DEF SysIInv, SysTypeOK
  <1>1. HoldsLast(t) /\ TakesOver(mode[p]) /\ mode[p] \in Mode
    BY CallerHoldsLast, ZenonT(30) DEF StartApplyCall, StartUndoRestoreCall, StopRestoreCall
  <1>2. \A a \in Actor : a # t => job[a] = Idle
    BY <1>0, <1>1, CallerAlone, Zenon
  <1>3. job[t] = Idle
    BY Zenon DEF StartApplyCall, StartUndoRestoreCall, StopRestoreCall, CallApply, CallRestore
  <1>4. AllIdle
    <2>1. Idle.pc = "idle"
      BY Zenon DEF Idle
    <2> QED BY <1>2, <1>3, <2>1, Zenon DEF AllIdle
  <1>5. /\ UNCHANGED <<mode, fields, running, ctx, port>>
        /\ UNCHANGED <<settings, hostsLines, rollback, user, lost>>
        /\ \A u \in Thread : u # t => thr'[u] = thr[u]
        /\ \A a \in Actor : a # t => job'[a] = job[a]
    BY <1>0, Zenon DEF StartApplyCall, StartUndoRestoreCall, StopRestoreCall, sysOut, Set,
                CallApply, CallRestore
  <1>6. SysNext /\ CallPhase(t)'
    <2>1. CASE t = Main(p) /\ StartApplyCall(p)
      <3>1. StartApply(t, mode[p])
        BY <1>4, <1>5, <2>1, Zenon DEF StartApply, StartApplyCall
      <3>2. /\ thr'[t].pc = "applying" /\ job'[t].pc = "snapshot"
            /\ job'[t].target = mode[p] /\ mode'[p] = mode[p]
        BY <1>5, <1>0, <2>1, Zenon DEF StartApplyCall, Set, CallApply, Idle, ThreadState
      <3> QED BY <1>0, <1>1, <3>1, <3>2, ZenonT(30) DEF SysNext, CallPhase, InCallPc
    <2>2. CASE t = Main(p) /\ StartUndoRestoreCall(p)
      <3>1. StartRestore(t, "dns") /\ "dns" \in Kind
        BY <1>4, <1>5, <2>2, ZenonT(30) DEF StartRestore, StartUndoRestoreCall, Kind
      <3>2. thr'[t].pc = "undoRestore" /\ job'[t].pc = "read" /\ job'[t].op = "restore"
        BY <1>0, <2>2, Zenon DEF StartUndoRestoreCall, Set, CallRestore, Idle, ThreadState
      <3> QED BY <1>0, <1>1, <3>1, <3>2, ZenonT(30) DEF SysNext, CallPhase, InCallPc
    <2>3. CASE StopRestoreCall(t)
      <3>1. KindOf(mode[p]) \in Kind
        BY <1>1, KindFacts, Zenon
      <3>2. StartRestore(t, KindOf(mode[p]))
        BY <1>0, <1>4, <1>5, <2>3, Zenon DEF StartRestore, StopRestoreCall
      <3>3. thr'[t].pc = "restoring"
        BY <1>0, <2>3 DEF StopRestoreCall, Set, ThreadState
      <3>4. job'[t].pc = "read" /\ job'[t].op = "restore" /\ job'[t].target = KindOf(mode[p])
        BY <1>0, <2>3, <3>1, ZenonT(30) DEF StopRestoreCall, CallRestore, Idle, Kind
      <3> QED BY <1>0, <1>5, <3>1, <3>2, <3>3, <3>4, Zenon DEF SysNext, CallPhase, InCallPc
    <2> QED BY <2>1, <2>2, <2>3, Zenon
  <1>7. CallIInv'
    BY <1>0, <1>5, <1>6, CallStep, ThreadFacts, ProcAssumption, Zenon
  <1> QED BY <1>0, <1>5, <1>6, <1>7, Zenon

(* The call of a thread returns. *)
LEMMA ReturnStep ==
    ASSUME PortIInv, CallIInv, SysIInv, NEW p \in Proc, NEW t \in {Main(p), Watch(p)},
           \/ t = Main(p) /\ (\/ StartApplied(p) \/ StartApplyRetry(p)
                              \/ StartApplyFailed(p) \/ StartUndoRestoreRetry(p)
                              \/ StartUndoRestored(p))
           \/ StopRestoreRetry(t) \/ StopRestored(t)
    PROVE  /\ SysNext /\ CallIInv'
           /\ \A a \in Actor \ Thread : job'[a] = job[a]
  <1>0. /\ thr \in [Thread -> ThreadState] /\ t \in Thread /\ t \in Actor
        /\ job \in [Actor -> JobType]
    BY MainFacts, ThreadFacts, ZenonT(30) DEF SysIInv, SysTypeOK
  <1>1. /\ job[t].pc \in Returned /\ job' = [job EXCEPT ![t] = Idle]
        /\ UNCHANGED <<settings, hostsLines, rollback, user, lost>> /\ UNCHANGED mode
    BY DEF StartApplied, StartApplyRetry, StartApplyFailed, StartUndoRestoreRetry, StartUndoRestored,
           StopRestoreRetry, StopRestored, Returned, sysOut
  <1>2. Return(t)
    BY <1>1, Zenon DEF Return
  <1>3. \A u \in Thread : u # t => thr'[u] = thr[u]
    <2>1. CASE t = Main(p) /\ (\/ StartApplied(p) \/ StartApplyRetry(p)
                               \/ StartApplyFailed(p) \/ StartUndoRestoreRetry(p)
                               \/ StartUndoRestored(p))
      BY <1>0, <2>1, Zenon DEF StartApplied, StartApplyRetry, StartApplyFailed,
         StartUndoRestoreRetry, StartUndoRestored, Set
    <2>2. CASE StopRestoreRetry(t)
      BY <1>0, <2>2, Zenon DEF StopRestoreRetry
    <2>3. CASE StopRestored(t)
      BY <1>0, <2>3, Zenon DEF StopRestored
    <2> QED BY <2>1, <2>2, <2>3, ZenonT(30)
  <1>4. job'[t] = Idle /\ \A a \in Actor : a # t => job'[a] = job[a]
    BY <1>0, <1>1, Zenon
  <1>5. CallPhase(t)'
    BY <1>4, ZenonT(30) DEF CallPhase
  <1>6. \A u \in Thread : u # t => job'[u] = job[u]
    BY <1>4, ProcAssumption, Zenon
  <1>7. CallIInv'
    BY <1>0, <1>1, <1>3, <1>5, <1>6, CallStep, ZenonT(30)
  <1> QED BY <1>0, <1>2, <1>4, <1>7, Zenon DEF SysNext

(* A thread goes on with its call. *)
LEMMA InCallStep ==
    ASSUME CallIInv, SysIInv, NEW t \in Thread, InCall(t)
    PROVE  /\ SysNext /\ CallIInv'
           /\ \A a \in Actor \ Thread : job'[a] = job[a]
  <1>1. t \in Actor /\ Working(t) /\ UNCHANGED engVars
    BY ProcAssumption, ZenonT(30) DEF InCall
  <1>2. /\ job[t] # Idle /\ job'[t].op = job[t].op /\ job'[t].pc # "dispatch"
        /\ job[t].pc # "dispatch" => job'[t].target = job[t].target
        /\ \A b \in Actor : b # t => job'[b] = job[b]
    BY <1>1, WorkingFacts, SMTT(30)
  <1>3. CallPhase(t)'
    BY <1>1, <1>2, ZenonT(30) DEF CallIInv, CallPhase, engVars
  <1>4. \A u \in Thread : u # t => job'[u] = job[u] /\ thr'[u] = thr[u]
    BY <1>1, <1>2, ProcAssumption, Zenon DEF engVars
  <1>5. CallIInv'
    BY <1>1, <1>3, <1>4, CallStep, ZenonT(30) DEF engVars
  <1> QED BY <1>1, <1>2, <1>5, ZenonT(30) DEF SysNext

(* A process dies, and the one call it may be in with it. *)
LEMMA DieCall ==
    ASSUME PortIInv, CallIInv, SysIInv, NEW p \in Proc, Die(p)
    PROVE  /\ [SysNext]_sysVars /\ CallIInv'
           /\ \A a \in Actor \ Thread : job'[a] = job[a]
  <1> DEFINE m == Main(p)
             w == Watch(p)
  <1>0. /\ m \in Thread /\ w \in Thread /\ m \in Actor /\ w \in Actor /\ m # w
        /\ job \in [Actor -> JobType]
        /\ \A u \in Thread : u # m /\ u # w => u[1] # p
    BY ThreadFacts, ThreadIsOne, Zenon DEF SysIInv, SysTypeOK
  <1>1. /\ job' = [a \in Actor |-> IF a \in {m, w} THEN Idle ELSE job[a]]
        /\ UNCHANGED <<settings, hostsLines, rollback, user, lost>> /\ UNCHANGED mode
        /\ \A u \in Thread : u[1] # p => thr'[u] = thr[u]
    BY Zenon DEF Die, sysOut
  <1>2. job[m] = Idle \/ job[w] = Idle
    <2> SUFFICES ASSUME job[m] # Idle, job[w] # Idle
                 PROVE  FALSE
      OBVIOUS
    <2>1. thr[m].pc \in InCallPc /\ thr[w].pc \in InCallPc
      BY <1>0, ZenonT(30) DEF CallIInv, CallPhase
    <2>2. HoldsLast(m) /\ HoldsLast(w)
      BY <2>1, CallerHoldsLast, Zenon
    <2> QED BY <2>2, MainFacts, ZenonT(30) DEF HoldsLast, ProcOk
  <1>3. [SysNext]_sysVars
    <2>1. CASE job[m] = Idle /\ job[w] = Idle
      <3>1. job' = job
        BY <1>0, <1>1, <2>1, Zenon
      <3> QED BY <1>1, <3>1, Zenon DEF sysVars
    <2>2. CASE job[m] # Idle
      <3>1. job' = [job EXCEPT ![m] = Idle]
        BY <1>0, <1>1, <1>2, <2>2, Zenon
      <3>2. Crash(m)
        BY <1>1, <2>2, <3>1, Zenon DEF Crash
      <3> QED BY <1>0, <3>2, ZenonT(30) DEF SysNext
    <2>3. CASE job[w] # Idle
      <3>1. job' = [job EXCEPT ![w] = Idle]
        BY <1>0, <1>1, <1>2, <2>3, Zenon
      <3>2. Crash(w)
        BY <1>1, <2>3, <3>1, Zenon DEF Crash
      <3> QED BY <1>0, <3>2 DEF SysNext
    <2> QED BY <2>1, <2>2, <2>3, Zenon
  <1>4. CallIInv'
    <2> SUFFICES ASSUME NEW u \in Thread
                 PROVE  CallPhase(u)'
      BY DEF CallIInv
    <2>1. u \in Actor /\ CallPhase(u)
      BY ProcAssumption, Zenon DEF CallIInv
    <2>2. CASE u \in {m, w}
      BY <1>1, <2>1, <2>2, Zenon DEF CallPhase
    <2>3. CASE u \notin {m, w}
      BY <1>0, <1>1, <2>1, <2>3, Zenon DEF CallPhase
    <2> QED BY <2>2, <2>3
  <1> QED BY <1>0, <1>1, <1>3, <1>4, ZenonT(30)

(* Every step an engine takes of its own is a step of SystemChange or      *)
(* leaves the system alone, as long as no other command is in a call while *)
(* an engine holds its ports.                                              *)
LEMMA EngStepCall ==
    ASSUME SharedPort, PortIInv, CallIInv, SysIInv, NEW p \in Proc, EngStep(p),
           (\E u \in Thread : HoldsLast(u)) => OnlyThreadsCall
    PROVE  /\ [SysNext]_sysVars /\ CallIInv'
           /\ \A a \in Actor \ Thread : job'[a] = job[a]
  <1>0. Main(p) \in {Main(p), Watch(p)} /\ {Main(p), Watch(p)} \subseteq Thread
    BY ThreadFacts
  <1>1. CASE \/ StartCheck(p) \/ StartPrepare(p) \/ StartListen(p) \/ StartStepFails(p)
             \/ StartUndo(p) \/ StartPublish(p) \/ WatchWakes(p)
             \/ \E t \in {Main(p), Watch(p)} : StopSwap(t) \/ StopServer(t) \/ StopReturn(t)
    BY <1>1, NoCallStep, Zenon DEF sysVars
  <1>2. CASE StartApplyCall(p) \/ StartUndoRestoreCall(p)
    BY <1>0, <1>2, MakeCallStep, Zenon
  <1>3. CASE \/ StartApplied(p) \/ StartApplyRetry(p) \/ StartApplyFailed(p)
             \/ StartUndoRestoreRetry(p) \/ StartUndoRestored(p)
    BY <1>0, <1>3, ReturnStep, Zenon
  <1>4. ASSUME NEW t \in {Main(p), Watch(p)}, StopRestoreCall(t)
        PROVE  /\ [SysNext]_sysVars /\ CallIInv'
               /\ \A a \in Actor \ Thread : job'[a] = job[a]
    BY <1>4, MakeCallStep, Zenon
  <1>5. ASSUME NEW t \in {Main(p), Watch(p)}, StopRestoreRetry(t) \/ StopRestored(t)
        PROVE  /\ [SysNext]_sysVars /\ CallIInv'
               /\ \A a \in Actor \ Thread : job'[a] = job[a]
    BY <1>5, ReturnStep, ZenonT(30)
  <1>6. ASSUME NEW t \in {Main(p), Watch(p)}, InCall(t)
        PROVE  /\ [SysNext]_sysVars /\ CallIInv'
               /\ \A a \in Actor \ Thread : job'[a] = job[a]
    BY <1>0, <1>6, InCallStep, Zenon
  <1> QED BY <1>1, <1>2, <1>3, <1>4, <1>5, <1>6, ZenonT(30) DEF EngStep, StartingUp, Stopping

EngIInv == PortIInv /\ CallIInv /\ OnlyThreadsCall /\ SysIInv

LEMMA EngInitInv == EngInit => EngIInv
  <1> SUFFICES ASSUME EngInit
               PROVE  EngIInv
    OBVIOUS
  <1>1. SysIInv /\ PortIInv
    BY SysInitInv, PortInit, ZenonT(30) DEF EngInit
  <1>2. \A a \in Actor : job[a] = Idle
    BY Zenon DEF EngInit, SysInit
  <1>3. CallIInv /\ OnlyThreadsCall
    BY <1>2, ProcAssumption, Zenon DEF CallIInv, CallPhase, OnlyThreadsCall
  <1> QED BY <1>1, <1>3, Zenon DEF EngIInv

LEMMA EngNextSys ==
    ASSUME SharedPort, EngIInv, [EngNext]_allVars
    PROVE  EngIInv' /\ [SysNext]_sysVars
  <1> USE DEF EngIInv
  <1>0. PortIInv'
    BY PortNext, Zenon
  <1>1. SUFFICES [SysNext]_sysVars /\ CallIInv' /\ \A a \in Actor \ Thread : job'[a] = job[a]
    BY <1>0, <1>1, SysNextInv, Zenon DEF OnlyThreadsCall
  <1>2. CASE UNCHANGED allVars
    BY <1>2, ZenonT(30) DEF allVars, sysVars, engVars, CallIInv, CallPhase
  <1>3. ASSUME NEW p \in Proc, EngStep(p)
        PROVE  [SysNext]_sysVars /\ CallIInv' /\ \A a \in Actor \ Thread : job'[a] = job[a]
    BY <1>3, EngStepCall, Zenon
  <1>4. ASSUME NEW p \in Proc, CallStart(p)
        PROVE  [SysNext]_sysVars /\ CallIInv' /\ \A a \in Actor \ Thread : job'[a] = job[a]
    <2>1. UNCHANGED sysVars /\ job' = job
      BY <1>4, ZenonT(30) DEF CallStart, sysVars, sysOut
    <2>2. thr \in [Thread -> ThreadState] /\ mode \in [Proc -> RunMode]
      BY DEF PortIInv, EngTypeOK
    <2>3. ASSUME NEW u \in Thread
          PROVE  CallPhase(u)'
      <3>1. CASE u \in {Main(p), Watch(p)}
        <4>1. thr[u].pc \notin InCallPc
          BY <1>4, <3>1, Zenon DEF CallStart, Finished, InCallPc
        <4> QED BY <2>1, <4>1 DEF CallIInv, CallPhase
      <3>2. CASE u \notin {Main(p), Watch(p)}
        <4>1. thr'[u] = thr[u]
          BY <1>4, <2>2, <3>2, Zenon DEF CallStart
        <4>2. u[1] # p /\ u[1] \in Proc
          BY <3>2, ThreadIsOne
        <4>3. mode'[u[1]] = mode[u[1]]
          BY <1>4, <2>2, <4>2, ZenonT(30) DEF CallStart
        <4> QED BY <2>1, <4>1, <4>3, Zenon DEF CallIInv, CallPhase
      <3> QED BY <3>1, <3>2, Zenon
    <2> QED BY <2>1, <2>3 DEF CallIInv
  <1>5. ASSUME NEW p \in Proc, CallStop(p)
        PROVE  [SysNext]_sysVars /\ CallIInv' /\ \A a \in Actor \ Thread : job'[a] = job[a]
    <2>1. UNCHANGED sysVars /\ job' = job /\ UNCHANGED mode
      BY <1>5 DEF CallStop, sysVars, sysOut
    <2>2. thr \in [Thread -> ThreadState] /\ Main(p) \in Thread
      BY ThreadFacts, Zenon DEF PortIInv, EngTypeOK
    <2>3. job[Main(p)] = Idle
      BY <1>5, <2>2 DEF CallStop, InCallPc, CallIInv, CallPhase
    <2>4. \A u \in Thread : u # Main(p) => thr'[u] = thr[u]
      BY <1>5, <2>2, ZenonT(30) DEF CallStop, Set
    <2> QED BY <2>1, <2>2, <2>3, <2>4, ZenonT(30) DEF CallIInv, CallPhase
  <1>6. ASSUME NEW p \in Proc, Cancel(p)
        PROVE  [SysNext]_sysVars /\ CallIInv' /\ \A a \in Actor \ Thread : job'[a] = job[a]
    BY <1>6, Zenon DEF Cancel, sysVars, sysOut, CallIInv, CallPhase
  <1>7. ASSUME NEW p \in Proc, EngineCrash(p)
        PROVE  [SysNext]_sysVars /\ CallIInv' /\ \A a \in Actor \ Thread : job'[a] = job[a]
    BY <1>7, DieCall DEF EngineCrash
  <1> QED BY <1>2, <1>3, <1>4, <1>5, <1>6, <1>7, Zenon DEF EngNext

(* The engines keep the invariant of SystemChange: there is never more     *)
(* than one call of Apply or Restore at a time.                            *)
THEOREM EngInvariant == ASSUME SharedPort PROVE EngSpec => []EngIInv
  <1>1. EngSpec => EngInit /\ [][EngNext]_allVars
    BY PTL DEF EngSpec
  <1>2. EngIInv /\ [EngNext]_allVars => EngIInv'
    BY EngNextSys
  <1> QED BY <1>1, <1>2, EngInitInv, PTL

(* Start, Stop, the goroutine and a crash make their calls of Apply and    *)
(* Restore one after the other, which is what SystemChange assumes.        *)
THEOREM EngImplementsSys == ASSUME SharedPort PROVE EngSpec => SysSpec
  <1>1. EngSpec => EngInit /\ [][EngNext]_allVars
    BY PTL DEF EngSpec
  <1>2. EngIInv /\ [EngNext]_allVars => [SysNext]_sysVars
    BY EngNextSys, ZenonT(30)
  <1>3. EngInit => SysInit
    BY ZenonT(30) DEF EngInit
  <1> QED BY <1>1, <1>2, <1>3, EngInvariant, PTL DEF SysSpec

(* Who takes a part over is the main thread of an engine in Apply. *)
LEMMA TakeoverIsServed ==
    ASSUME PortIInv, CallIInv, SysIInv, [SysNext]_sysVars,
           \A a \in Actor \ Thread : job[a] # Idle => job[a].op # "apply",
           NEW q \in Taken' \ (Taken \cup lost)
    PROVE  \E p \in Proc : /\ TakesOver(mode[p]) /\ q \in PartsOf(KindOf(mode[p]))
                           /\ \A s \in Needed(mode[p]) : port[s] = p
  <1>1. PICK a \in Actor : /\ job[a].op = "apply" /\ job[a] # Idle
                          /\ q \in PartsOf(KindOf(job[a].target))
    BY TakeoverIsApply, Zenon
  <1>2. a \in Thread
    BY <1>1, Zenon
  <1> DEFINE p == a[1]
  <1>3. /\ thr[a].pc = "applying" /\ q \in PartsOf(KindOf(mode[p]))
        /\ p \in Proc /\ a \in {Main(p), Watch(p)}
    BY <1>1, <1>2, ThreadIsOne, Zenon DEF CallIInv, CallPhase
  <1>4. ProcOk(mode[p], thr[Main(p)], thr[Watch(p)], fields[p])
    BY <1>3, MainFacts, Zenon
  <1>5. a = Main(p)
    BY <1>3, <1>4, Zenon DEF ProcOk, WatchPc
  <1>6. TakesOver(mode[p])
    BY <1>3, CallerHoldsLast, Zenon DEF InCallPc
  <1>7. \A s \in Needed(mode[p]) : port[s] = p
    BY <1>3, <1>5, PortsUp, Zenon DEF ServersUp
  <1> QED BY <1>3, <1>6, <1>7, Zenon

(* A part of the system is taken over only while every server of the mode  *)
(* that takes it listens: Start of internal/engine, for any number of      *)
(* engines racing for the ports, failing and crashing at any step.         *)
THEOREM EngPointsAtListeners == ASSUME SharedPort PROVE EngSpec => PointsAtListeners
  <1> DEFINE A == \A q \in Taken' \ (Taken \cup lost) :
                     \E p \in Proc : /\ TakesOver(mode[p]) /\ q \in PartsOf(KindOf(mode[p]))
                                     /\ \A s \in Needed(mode[p]) : port[s] = p
  <1>1. EngIInv /\ [EngNext]_allVars => A
    BY EngNextSys, TakeoverIsServed, Zenon DEF EngIInv, OnlyThreadsCall
  <1>2. EngSpec => [][EngNext]_allVars
    BY PTL DEF EngSpec
  <1> QED BY <1>1, <1>2, EngInvariant, PTL DEF PointsAtListeners

-----------------------------------------------------------------------------
(* Stop closes only what is restored *)

ClosingClean(t) ==
    /\ thr[t].pc = "closing" /\ thr[t].held # {}
    /\ ~thr[t].err /\ TakesOver(mode[t[1]])

(* No state of the mode's kind is left while its servers close. *)
ClosePhase ==
    \A t \in Thread :
        ClosingClean(t) => ~(Holds(rollback) /\ rollback.kind = KindOf(mode[t[1]]))

(* With no state of kind k on disk, the settings of that kind are the      *)
(* user's, whatever state of another kind there is.                        *)
LEMMA GivenBack ==
    ASSUME SysIInv, NEW k \in Kind, ~(Holds(rollback) /\ rollback.kind = k),
           NEW q \in PartsOf(k) \ lost
    PROVE  settings[q] = user[q]
  <1>1. q \in Part \ lost
    BY PartsFacts, Zenon
  <1> SUFFICES ASSUME OnRecord(q)
               PROVE  FALSE
    BY <1>1, Zenon DEF SysIInv, RecoverableUnlessLost
  <1>2. /\ rollback.kind \in Kind /\ rollback.kind # k
        /\ rollback \in StateOf(rollback.kind) /\ q \in DOMAIN rollback.saved
    BY HoldsFacts DEF SysIInv, SysTypeOK, OnRecord
  <1>3. q \in PartsOf(rollback.kind)
    BY <1>2, StateFacts, Zenon
  <1> QED BY <1>2, <1>3, PartsFacts, IfacesAssumption, Zenon DEF Kind

(* Whoever closes servers without an error has just restored or was        *)
(* closing them already, and nobody has touched the rollback file since.   *)
LEMMA ClosingStep ==
    ASSUME SharedPort, EngIInv, EngIInv', [EngNext]_allVars,
           NEW u \in Thread, ClosingClean(u)'
    PROVE  /\ rollback' = rollback /\ mode'[u[1]] = mode[u[1]]
           /\ \/ ClosingClean(u)
              \/ StopRestored(u) /\ job[u].pc \in {"ok", "nostate"}
  <1> USE DEF EngIInv
  <1>0. /\ thr \in [Thread -> ThreadState] /\ mode \in [Proc -> RunMode]
        /\ u[1] \in Proc /\ u \in {Main(u[1]), Watch(u[1])}
    BY ThreadIsOne, Zenon DEF PortIInv, EngTypeOK
  <1>1. ASSUME rollback' = rollback, mode'[u[1]] = mode[u[1]], thr'[u] = thr[u]
        PROVE  /\ rollback' = rollback /\ mode'[u[1]] = mode[u[1]]
               /\ ClosingClean(u)
    BY <1>1 DEF ClosingClean
  <1>2. CASE UNCHANGED allVars
    BY <1>1, <1>2, ZenonT(30) DEF allVars, sysVars, engVars
  <1>3. ASSUME NEW t \in Thread, InCall(t)
        PROVE  rollback' = rollback /\ mode'[u[1]] = mode[u[1]] /\ thr'[u] = thr[u]
    <2>1. UNCHANGED engVars /\ Working(t) /\ t \in Actor
      BY <1>3, ProcAssumption, Zenon DEF InCall
    <2>2. job[t] # Idle
      BY <2>1, WorkingFacts, Zenon
    <2>3. thr[t].pc \in InCallPc /\ t[1] \in Proc /\ t \in {Main(t[1]), Watch(t[1])}
      BY <2>2, ThreadIsOne, Zenon DEF CallIInv, CallPhase
    <2>4. HoldsLast(t)
      BY <2>3, CallerHoldsLast, Zenon
    <2>5. thr[u].pc = "closing" /\ thr[u].held # {}
      BY <2>1, Zenon DEF ClosingClean, engVars
    <2>6. HoldsLast(u)
      BY <1>0, <2>5, MainFacts, ZenonT(30) DEF ProcOk, ThreadOk, HoldsLast
    <2>7. t = u
      BY <2>4, <2>6, OneHoldsLast, ZenonT(30)
    <2> QED BY <2>3, <2>5, <2>7, Zenon DEF InCallPc
  <1>4. ASSUME NEW p \in Proc, StartingUp(p)
        PROVE  rollback' = rollback /\ mode'[u[1]] = mode[u[1]] /\ thr'[u] = thr[u]
    <2>1. UNCHANGED mode /\ rollback' = rollback
      BY <1>4, Zenon DEF StartingUp, StartCheck, StartPrepare, StartListen, StartStepFails,
         StartApplyCall, StartApplied, StartApplyRetry, StartApplyFailed,
         StartUndoRestoreCall, StartUndoRestoreRetry, StartUndoRestored, StartUndo, StartPublish, sysOut
    <2>2. Main(p) \in Thread /\ Watch(p) \in Thread /\ Main(p) # Watch(p)
      BY ThreadFacts, Zenon
    <2>3. \/ thr'[u] = thr[u]
          \/ u = Main(p) /\ thr'[u].pc # "closing"
          \/ u = Watch(p) /\ thr'[u].pc # "closing"
      <3>1. CASE \/ StartCheck(p) \/ StartStepFails(p) \/ StartApplyCall(p)
                 \/ StartApplyFailed(p) \/ StartUndoRestoreCall(p) \/ StartUndoRestored(p)
        BY <1>0, <2>2, <3>1, ZenonT(30) DEF StartCheck, StartStepFails, StartApplyCall, StartApplyFailed,
           StartUndoRestoreCall, StartUndoRestored, Set, ThreadState
      <3>2. CASE StartPrepare(p)
        BY <1>0, <2>2, <3>2, Zenon DEF StartPrepare, InPlan, ThreadState
      <3>3. CASE StartListen(p)
        BY <1>0, <2>2, <3>3, ZenonT(30) DEF StartListen, InPlan, ThreadState
      <3>4. CASE StartApplied(p)
        BY <1>0, <2>2, <3>4, Zenon DEF StartApplied, ThreadState
      <3>5. CASE StartApplyRetry(p)
        BY <1>0, <2>2, <3>5, Zenon DEF StartApplyRetry, ThreadState
      <3>9. CASE StartUndoRestoreRetry(p)
        BY <1>0, <2>2, <3>9, ZenonT(30) DEF StartUndoRestoreRetry, ThreadState
      <3>6. CASE StartUndo(p)
        BY <1>0, <2>2, <3>6, Zenon DEF StartUndo, Set, ThreadState
      <3>7. CASE StartPublish(p)
        BY <1>0, <2>2, <3>7, Zenon DEF StartPublish, Fresh, ThreadState
      <3> QED BY <3>9, <1>4, <3>1, <3>2, <3>3, <3>4, <3>5, <3>6, <3>7, ZenonT(30) DEF StartingUp
    <2> QED BY <2>1, <2>3, ZenonT(30) DEF ClosingClean
  <1>5. ASSUME NEW p \in Proc, CallStart(p)
        PROVE  rollback' = rollback /\ mode'[u[1]] = mode[u[1]] /\ thr'[u] = thr[u]
    <2>1. thr'[u] = thr[u] \/ thr'[u].pc # "closing"
      BY <1>0, <1>5, ThreadFacts, Zenon DEF CallStart, Fresh
    <2>2. u \notin {Main(p), Watch(p)}
      BY <1>0, <1>5, <2>1, ThreadFacts, Zenon DEF CallStart, Fresh, ClosingClean
    <2>3. u[1] # p
      BY <1>0, <2>2, Zenon
    <2> QED BY <1>0, <1>5, <2>1, <2>3, Zenon DEF CallStart, sysOut, ClosingClean
  <1>6. ASSUME NEW p \in Proc, WatchWakes(p) \/ CallStop(p) \/ Cancel(p)
        PROVE  rollback' = rollback /\ mode'[u[1]] = mode[u[1]] /\ thr'[u] = thr[u]
    <2>1. CASE WatchWakes(p)
      BY <1>0, <2>1, ThreadFacts, ZenonT(100) DEF WatchWakes, Set, sysOut, ClosingClean, ThreadState
    <2>2. CASE CallStop(p)
      BY <1>0, <2>2, ThreadFacts, ZenonT(100) DEF CallStop, Set, sysOut, ClosingClean, ThreadState
    <2>3. CASE Cancel(p)
      BY <1>0, <2>3, ThreadFacts, ZenonT(30) DEF Cancel, Set, sysOut, ClosingClean, ThreadState
    <2> QED BY <1>6, <2>1, <2>2, <2>3, Zenon
  <1>7. ASSUME NEW p \in Proc, EngineCrash(p)
        PROVE  rollback' = rollback /\ mode'[u[1]] = mode[u[1]] /\ thr'[u] = thr[u]
    BY <1>0, <1>7, ZenonT(30) DEF EngineCrash, Die, Fresh, sysOut, ClosingClean
  <1>8. ASSUME NEW t \in Thread, Stopping(t)
        PROVE  /\ rollback' = rollback /\ mode'[u[1]] = mode[u[1]]
               /\ \/ ClosingClean(u)
                  \/ StopRestored(u) /\ job[u].pc \in {"ok", "nostate"}
    <2>1. rollback' = rollback /\ UNCHANGED mode
      BY <1>8, Zenon DEF Stopping, StopSwap, StopRestoreCall, StopRestoreRetry, StopRestored,
                  StopServer, StopReturn, sysOut
    <2>2. t # u => thr'[u] = thr[u]
      BY <1>0, <1>8, Zenon DEF Stopping, StopSwap, StopRestoreCall, StopRestoreRetry, StopRestored,
                        StopServer, StopReturn, Set
    <2>3. CASE t # u
      BY <1>1, <2>1, <2>2, <2>3, ZenonT(30)
    <2>4. CASE t = u
      <3>1. CASE StopSwap(t)
        <4>1. t \in {Main(u[1]), Watch(u[1])} /\ t[1] = u[1]
          BY <1>0, <2>4, Zenon
        <4>2. thr'[t].pc # "closing" \/ ~TakesOver(mode[u[1]])
          BY <1>0, <3>1, <4>1, ZenonT(30) DEF StopSwap, Fresh
        <4> QED BY <2>1, <2>4, <4>2, Zenon DEF ClosingClean
      <3>2. CASE StopRestoreCall(t) \/ StopRestoreRetry(t) \/ StopReturn(t)
        <4>1. thr'[t].pc # "closing"
          BY <1>0, <3>2, ZenonT(30) DEF StopRestoreCall, StopRestoreRetry, StopReturn, Set, ThreadState
        <4> QED BY <2>4, <4>1, Zenon DEF ClosingClean
      <3>3. CASE StopRestored(t)
        <4>1. PICK e \in BOOLEAN :
                 /\ job[t].pc = "err" => e
                 /\ thr' = [thr EXCEPT ![t].pc = "closing", ![t].err = e]
          BY <3>3, Zenon DEF StopRestored
        <4>2. thr'[t].err = e
          BY <1>0, <4>1, Zenon DEF ThreadState
        <4>3. job[t].pc \in {"ok", "nostate"}
          BY <2>4, <3>3, <4>1, <4>2, ZenonT(30) DEF StopRestored, Returned, ClosingClean
        <4> QED BY <2>1, <2>4, <3>3, <4>3
      <3>4. CASE StopServer(t)
        <4>1. PICK e \in {thr[t].err, TRUE} :
                 thr' = [thr EXCEPT ![t].held = @ \ {FirstToStop(thr[t].held)}, ![t].err = e]
          BY <3>4, Zenon DEF StopServer
        <4>2. thr'[t].err = e
          BY <1>0, <4>1, Zenon DEF ThreadState
        <4>3. ~thr[t].err
          BY <2>4, <4>1, <4>2, ZenonT(30) DEF ClosingClean
        <4> QED BY <2>1, <2>4, <3>4, <4>3, Zenon DEF StopServer, ClosingClean
      <3> QED BY <1>8, <3>1, <3>2, <3>3, <3>4, ZenonT(30) DEF Stopping
    <2> QED BY <2>3, <2>4, ZenonT(30)
  <1>9. \A p \in Proc : {Main(p), Watch(p)} \subseteq Thread
    BY ThreadFacts, Zenon
  <1> QED BY <1>1, <1>2, <1>3, <1>4, <1>5, <1>6, <1>7, <1>8, <1>9, ZenonT(30) DEF EngNext, EngStep

LEMMA ClosePhaseStep ==
    ASSUME SharedPort, EngIInv, EngIInv', RestoreReturned, ClosePhase, [EngNext]_allVars
    PROVE  ClosePhase'
  <1> SUFFICES ASSUME NEW u \in Thread, ClosingClean(u)'
               PROVE  ~(Holds(rollback') /\ rollback'.kind = KindOf(mode'[u[1]]))
    BY Zenon DEF ClosePhase
  <1>1. rollback' = rollback /\ mode'[u[1]] = mode[u[1]]
    BY ClosingStep
  <1>2. CASE ClosingClean(u)
    BY <1>1, <1>2, ZenonT(30) DEF ClosePhase
  <1>3. CASE StopRestored(u) /\ job[u].pc \in {"ok", "nostate"}
    <2>1. u \in Actor /\ thr[u].pc = "restoring" /\ job[u] # Idle
      <3>1. Idle.pc \notin {"ok", "nostate"}
        BY DEF Idle
      <3> QED BY <1>3, <3>1, ProcAssumption, Zenon DEF StopRestored
    <2>2. job[u].op = "restore" /\ job[u].target = KindOf(mode[u[1]])
      BY <2>1, Zenon DEF EngIInv, CallIInv, CallPhase
    <2> QED BY <1>1, <1>3, <2>1, <2>2, Zenon DEF RestoreReturned
  <1> QED BY <1>2, <1>3, ClosingStep, ZenonT(30)

(* When Stop closes a server and has no error to report, the settings of   *)
(* its mode are the user's again: restoring came first, and no other       *)
(* engine could apply while this one still held its ports.                 *)
THEOREM EngClosesRestored ==
    ASSUME SharedPort PROVE EngSpec => []ClosesOnlyWhatIsRestored
  <1>1. EngSpec => EngInit /\ [][EngNext]_allVars
    BY PTL DEF EngSpec
  <1>2. EngInit => ClosePhase
    BY DEF EngInit, ClosePhase, ClosingClean, Fresh
  <1>3. EngIInv /\ EngIInv' /\ RestoreReturned /\ ClosePhase /\ [EngNext]_allVars => ClosePhase'
    BY ClosePhaseStep, Zenon
  <1>4. EngIInv /\ ClosePhase => ClosesOnlyWhatIsRestored
    <2> SUFFICES ASSUME EngIInv, ClosePhase, NEW t \in Thread, ClosingClean(t),
                        NEW q \in PartsOf(KindOf(mode[t[1]])) \ lost
                 PROVE  settings[q] = user[q]
      BY Zenon DEF ClosesOnlyWhatIsRestored, ClosingClean
    <2>1. mode[t[1]] \in Mode
      BY ThreadIsOne, RunModeAssumption, Zenon DEF EngIInv, PortIInv, EngTypeOK, ClosingClean, TakesOver
    <2>2. KindOf(mode[t[1]]) \in Kind
      BY <2>1, KindFacts, ZenonT(30)
    <2> QED BY <2>2, GivenBack, Zenon DEF EngIInv, ClosePhase
  <1> QED BY <1>1, <1>2, <1>3, <1>4, EngInvariant, EngImplementsSys, SysRestoreReturned, PTL

-----------------------------------------------------------------------------
(* Lifecycle, for any number of `start` processes and of shells.  The      *)
(* invariant of Engine is carried through the commands: a process that has *)
(* not got to the engine, or is gone, holds nothing (CliPhase), and        *)
(* `restore`, used alone, finds no engine at work (ShellPhase).            *)

CliPc == {"off", "check", "query", "engine", "control", "publish", "serving",
          "stopping", "aborting", "failed", "done", "gone"}

CliTypeOK == cli \in [Proc -> CliPc] /\ control \in [Proc -> BOOLEAN]

CliPhase(p) ==
    /\ cli[p] \in {"off", "check", "query", "gone"} =>
          thr[Main(p)] = Fresh /\ thr[Watch(p)] = Fresh
    /\ cli[p] \in {"control", "publish", "serving"} => thr[Main(p)].pc = "started"

LifePortIInv == PortIInv /\ CliTypeOK /\ \A p \in Proc : CliPhase(p)

(* A call of `restore` is made while no `start` is under way, by one shell *)
(* at a time.                                                              *)
ShellPhase ==
    /\ \A a \in Actor \ (Thread \cup Cmd) : job[a] = Idle
    /\ \A c \in Cmd :
          job[c] # Idle => /\ job[c].op = "restore"
                           /\ \A p \in Proc : Gone(p)
                           /\ \A d \in Cmd : job[d] # Idle => c = d

LifeIInv == LifePortIInv /\ CallIInv /\ ShellPhase /\ SysIInv

-----------------------------------------------------------------------------
(* The engines and their ports *)

(* The steps that only cancel a context, or change nothing of an engine. *)
LEMMA CtxStep ==
    ASSUME PortIInv, UNCHANGED <<mode, thr, fields, running, port>>,
           ctx' \in [Proc -> BOOLEAN]
    PROVE  PortIInv'
  BY DEF PortIInv, EngTypeOK, ProcInv

(* A `start` calls Start on its new engine. *)
LEMMA FirstStartStep ==
    ASSUME PortIInv, NEW p \in Proc, thr[Main(p)] = Fresh, thr[Watch(p)] = Fresh,
           Set(Main(p), "start"), UNCHANGED <<mode, fields, running, ctx, port>>
    PROVE  PortIInv'
  <1>0. /\ thr \in [Thread -> ThreadState] /\ mode \in [Proc -> RunMode]
        /\ ctx \in [Proc -> BOOLEAN] /\ Main(p) \in Thread /\ Watch(p) \in Thread
        /\ Main(p) # Watch(p) /\ Fresh.pc = "off"
    BY ThreadFacts, Zenon DEF PortIInv, EngTypeOK, Fresh
  <1> DEFINE x == [Fresh EXCEPT !.pc = "start"]
  <1>1. thr' = [thr EXCEPT ![Main(p)] = x]
    BY <1>0, Zenon DEF Set
  <1> HIDE DEF x
  <1>2. thr' = [thr EXCEPT ![Main(p)] = x, ![Watch(p)] = Fresh]
    BY <1>0, <1>1, Zenon
  <1>3. mode' = [mode EXCEPT ![p] = mode[p]] /\ mode[p] \in RunMode
    BY <1>0, Zenon
  <1>4. Finished(Main(p)) /\ Finished(Watch(p))
    BY <1>0, Zenon DEF Finished
  <1>5. ctx' \in [Proc -> BOOLEAN] /\ UNCHANGED <<fields, running, port>>
    BY <1>0, Zenon
  <1> QED BY <1>2, <1>3, <1>4, <1>5, ToStartStep, ZenonT(30) DEF x

(* An engine's own step leaves its process where CliPhase wants it. *)
LEMMA EngStepCli ==
    ASSUME PortIInv, NEW p \in Proc, EngStep(p), CliPhase(p), UNCHANGED cli
    PROVE  CliPhase(p)'
  <1>0. /\ thr \in [Thread -> ThreadState] /\ Main(p) \in Thread /\ Watch(p) \in Thread
        /\ Main(p) # Watch(p) /\ Fresh.pc = "off"
    BY ThreadFacts, Zenon DEF PortIInv, EngTypeOK, Fresh
  <1>1. CASE thr[Main(p)] = Fresh /\ thr[Watch(p)] = Fresh
    <2>1. thr' = thr
      BY <1>0, <1>1, ZenonT(30) DEF EngStep, StartingUp, StartCheck, StartPrepare, StartListen,
         StartStepFails, StartApplyCall, StartApplied, StartApplyRetry, StartApplyFailed,
         StartUndoRestoreCall, StartUndoRestoreRetry, StartUndoRestored, StartUndo, StartPublish, InPlan,
         WatchWakes, Stopping, StopSwap, StopRestoreCall, StopRestoreRetry, StopRestored,
         StopServer, StopReturn, InCall, engVars
    <2> QED BY <2>1, Zenon DEF CliPhase
  <1>2. CASE thr[Main(p)].pc = "started" /\ ~(thr[Main(p)] = Fresh /\ thr[Watch(p)] = Fresh)
    <2>1. ~StartingUp(p) /\ ~Stopping(Main(p))
      BY <1>2, Zenon DEF StartingUp, StartCheck, StartPrepare, StartListen,
         StartStepFails, StartApplyCall, StartApplied, StartApplyRetry, StartApplyFailed,
         StartUndoRestoreCall, StartUndoRestoreRetry, StartUndoRestored, StartUndo, StartPublish, InPlan,
         Stopping, StopSwap, StopRestoreCall, StopRestoreRetry, StopRestored,
         StopServer, StopReturn
    <2>2. thr'[Main(p)] = thr[Main(p)]
      <3>1. CASE WatchWakes(p)
        BY <1>0, <3>1, Zenon DEF WatchWakes, Set
      <3>2. CASE Stopping(Watch(p))
        BY <1>0, <3>2, Zenon DEF Stopping, StopSwap, StopRestoreCall, StopRestoreRetry,
                          StopRestored, StopServer, StopReturn, Set
      <3>3. CASE \E t \in {Main(p), Watch(p)} : InCall(t)
        BY <3>3, Zenon DEF InCall, engVars
      <3> QED BY <2>1, <3>1, <3>2, <3>3, Zenon DEF EngStep
    <2> QED BY <1>2, <2>2, Zenon DEF CliPhase
  <1>3. CASE /\ thr[Main(p)].pc # "started"
             /\ ~(thr[Main(p)] = Fresh /\ thr[Watch(p)] = Fresh)
    BY <1>3, Zenon DEF CliPhase
  <1> QED BY <1>1, <1>2, <1>3, Zenon

LEMMA LifePortInit == LifeInit => LifePortIInv
  <1> SUFFICES ASSUME LifeInit
               PROVE  LifePortIInv
    OBVIOUS
  <1>1. PortIInv
    BY PortInit, Zenon DEF LifeInit
  <1>2. \A p \in Proc : cli[p] = "off" /\ thr[Main(p)] = Fresh /\ thr[Watch(p)] = Fresh
    BY ThreadFacts, Zenon DEF LifeInit, EngInit
  <1>3. CliTypeOK
    BY Zenon DEF LifeInit, CliTypeOK, CliPc
  <1> QED BY <1>1, <1>2, <1>3, Zenon DEF LifePortIInv, CliPhase

(* A step of one process, whose two threads are the only ones to move. *)
LEMMA CliStep ==
    ASSUME LifePortIInv, NEW p \in Proc, PortIInv', CliTypeOK', CliPhase(p)',
           \A q \in Proc : q # p => /\ cli'[q] = cli[q]
                                    /\ thr'[Main(q)] = thr[Main(q)]
                                    /\ thr'[Watch(q)] = thr[Watch(q)]
    PROVE  LifePortIInv'
  BY ZenonT(30) DEF LifePortIInv, CliPhase

(* runStart moves on and at most one thread, its main one, is sent off. *)
LEMMA CliGotoStep ==
    ASSUME LifePortIInv, NEW p \in Proc, NEW pc \in CliPc, CliGoto(p, pc),
           control' \in [Proc -> BOOLEAN], PortIInv', CliPhase(p)',
           UNCHANGED thr \/ \E x \in {"start", "stop"} : Set(Main(p), x)
    PROVE  LifePortIInv'
  <1>1. CliTypeOK'
    BY Zenon DEF LifePortIInv, CliTypeOK, CliGoto
  <1>2. thr \in [Thread -> ThreadState] /\ cli \in [Proc -> CliPc]
    BY DEF LifePortIInv, PortIInv, EngTypeOK, CliTypeOK
  <1>3. ASSUME NEW q \in Proc, q # p
        PROVE  /\ cli'[q] = cli[q]
               /\ thr'[Main(q)] = thr[Main(q)] /\ thr'[Watch(q)] = thr[Watch(q)]
    <2>1. /\ Main(q) \in Thread /\ Watch(q) \in Thread
          /\ Main(q) # Main(p) /\ Watch(q) # Main(p)
      BY <1>3, ThreadFacts, Zenon
    <2> QED BY <1>2, <1>3, <2>1, Zenon DEF Set, CliGoto
  <1> QED BY <1>1, <1>3, CliStep, ZenonT(30)

(* The checks of runStart before it starts the engine. *)
LEMMA CheckStep ==
    ASSUME LifePortIInv, NEW p \in Proc, Launch(p) \/ CheckRead(p) \/ CheckQuery(p)
    PROVE  LifePortIInv'
  <1>0. /\ PortIInv /\ CliPhase(p) /\ cli \in [Proc -> CliPc] /\ control \in [Proc -> BOOLEAN]
        /\ thr \in [Thread -> ThreadState] /\ Main(p) \in Thread
    BY ThreadFacts, Zenon DEF LifePortIInv, CliTypeOK, PortIInv, EngTypeOK
  <1>1. /\ cli[p] \in {"off", "check", "query"} /\ UNCHANGED control
        /\ UNCHANGED <<mode, fields, running, ctx, port>>
        /\ thr[Main(p)] = Fresh /\ thr[Watch(p)] = Fresh
    BY <1>0, ZenonT(30) DEF Launch, CheckRead, CheckQuery, CliPhase, engVars
  <1>2. PICK pc \in {"check", "query", "engine", "failed"} :
           /\ CliGoto(p, pc)
           /\ \/ pc # "engine" /\ UNCHANGED thr
              \/ pc = "engine" /\ Set(Main(p), "start")
    BY DEF Launch, CheckRead, CheckQuery, engVars
  <1>3. cli'[p] = pc /\ pc \in CliPc
    BY <1>0, <1>2, Zenon DEF CliGoto, CliPc
  <1>4. CASE UNCHANGED thr /\ pc # "engine"
    <2>1. PortIInv'
      BY <1>0, <1>1, <1>4, PortStutter, Zenon DEF engVars
    <2>2. CliPhase(p)'
      BY <1>1, <1>2, <1>3, <1>4, Zenon DEF CliPhase
    <2> QED BY <1>0, <1>1, <1>2, <1>3, <1>4, <2>1, <2>2, CliGotoStep, ZenonT(30)
  <1>5. CASE Set(Main(p), "start") /\ pc = "engine"
    <2>1. PortIInv'
      BY <1>0, <1>1, <1>5, FirstStartStep, Zenon
    <2>2. CliPhase(p)'
      BY <1>3, <1>5, Zenon DEF CliPhase
    <2> QED BY <1>0, <1>1, <1>2, <1>3, <1>5, <2>1, <2>2, CliGotoStep, ZenonT(30)
  <1> QED BY <1>2, <1>4, <1>5, Zenon

(* runStart once the engine has been started. *)
LEMMA ServeStep ==
    ASSUME LifePortIInv, NEW p \in Proc,
           \/ EngineFailed(p) \/ MakeToken(p) \/ ControlStart(p) \/ PublishState(p)
           \/ ServeUntilDone(p) \/ StopFinished(p) \/ AbortFinished(p)
    PROVE  LifePortIInv'
  <1>0. /\ PortIInv /\ CliPhase(p) /\ cli \in [Proc -> CliPc] /\ control \in [Proc -> BOOLEAN]
        /\ thr \in [Thread -> ThreadState] /\ Main(p) \in Thread
        /\ ctx \in [Proc -> BOOLEAN]
    BY ThreadFacts DEF LifePortIInv, CliTypeOK, PortIInv, EngTypeOK
  <1>1. control' \in [Proc -> BOOLEAN] /\ UNCHANGED <<mode, fields, running, ctx, port>>
    BY <1>0, ZenonT(30) DEF EngineFailed, MakeToken, ControlStart, PublishState, ServeUntilDone,
                StopFinished, AbortFinished, engVars
  <1>2. PICK pc \in {"control", "publish", "serving", "stopping", "aborting", "failed", "done"} :
           /\ CliGoto(p, pc)
           /\ \/ pc \in {"control", "publish", "serving"} /\ UNCHANGED thr
                   /\ thr[Main(p)].pc = "started"
              \/ pc \in {"failed", "done"} /\ UNCHANGED thr
              \/ pc \in {"stopping", "aborting"} /\ Set(Main(p), "stop")
                   /\ thr[Main(p)].pc = "started"
    BY <1>0, Zenon DEF EngineFailed, MakeToken, ControlStart, PublishState, ServeUntilDone,
                StopFinished, AbortFinished, engVars, CliPhase
  <1>3. cli'[p] = pc /\ pc \in CliPc
    BY <1>0, <1>2, ZenonT(30) DEF CliGoto, CliPc
  <1>4. CliPhase(p)'
    BY <1>2, <1>3, ZenonT(30) DEF CliPhase
  <1>5. CASE UNCHANGED thr
    <2>1. PortIInv'
      BY <1>0, <1>1, <1>5, PortStutter, ZenonT(30) DEF engVars
    <2> QED BY <1>1, <1>2, <1>3, <1>4, <1>5, <2>1, CliGotoStep, Zenon
  <1>6. CASE Set(Main(p), "stop") /\ thr[Main(p)].pc = "started"
    <2>1. PortIInv'
      BY <1>0, <1>1, <1>6, ToStopStep, ZenonT(30)
    <2> QED BY <1>1, <1>2, <1>3, <1>4, <1>6, <2>1, CliGotoStep, Zenon
  <1> QED BY <1>2, <1>5, <1>6, ZenonT(30)

(* The process ends. *)
LEMMA GoneStep ==
    ASSUME LifePortIInv, NEW p \in Proc, Exit(p) \/ Kill(p)
    PROVE  LifePortIInv'
  <1>0. /\ PortIInv /\ cli \in [Proc -> CliPc] /\ control \in [Proc -> BOOLEAN]
    BY Zenon DEF LifePortIInv, CliTypeOK
  <1>1. Die(p) /\ CliGoto(p, "gone") /\ control' = [control EXCEPT ![p] = FALSE]
    BY SMTT(30) DEF Exit, Kill
  <1>2. PortIInv'
    BY <1>0, <1>1, DieStep, Zenon
  <1>3. CliTypeOK'
    BY <1>0, <1>1, Zenon DEF CliTypeOK, CliGoto, CliPc
  <1>4. CliPhase(p)'
    BY <1>0, <1>1, ThreadFacts, ZenonT(30) DEF CliPhase, Die, CliGoto
  <1>5. ASSUME NEW q \in Proc, q # p
        PROVE  /\ cli'[q] = cli[q]
               /\ thr'[Main(q)] = thr[Main(q)] /\ thr'[Watch(q)] = thr[Watch(q)]
    <2>1. /\ Main(q) \in Thread /\ Main(q)[1] = q
          /\ Watch(q) \in Thread /\ Watch(q)[1] = q
      BY ThreadFacts, Zenon
    <2>2. thr' = [t \in Thread |-> IF t[1] = p THEN Fresh ELSE thr[t]]
      BY <1>1, Zenon DEF Die
    <2>3. thr'[Main(q)] = thr[Main(q)] /\ thr'[Watch(q)] = thr[Watch(q)]
      BY <1>5, <2>1, <2>2, Zenon
    <2>4. cli'[q] = cli[q]
      BY <1>0, <1>1, <1>5, Zenon DEF CliGoto
    <2> QED BY <2>3, <2>4, Zenon
  <1> QED BY <1>2, <1>3, <1>4, <1>5, CliStep, Zenon

(* The engine of a process takes a step. *)
LEMMA EngineStepPort ==
    ASSUME LifePortIInv, NEW p \in Proc, EngineStep(p)
    PROVE  LifePortIInv'
  <1>0. /\ PortIInv /\ CliPhase(p) /\ thr \in [Thread -> ThreadState]
        /\ EngStep(p) /\ UNCHANGED cli /\ UNCHANGED control
    BY DEF LifePortIInv, PortIInv, EngTypeOK, EngineStep, cliVars
  <1>1. PortIInv'
    BY <1>0, EngStepPort, Zenon
  <1>2. CliPhase(p)'
    BY <1>0, EngStepCli, Zenon
  <1>3. CliTypeOK'
    BY <1>0 DEF LifePortIInv, CliTypeOK
  <1>4. \A u \in Thread : u \notin {Main(p), Watch(p)} => thr'[u] = thr[u]
    <2>1. CASE StartingUp(p)
      BY <1>0, <2>1, Zenon DEF StartingUp, StartCheck, StartPrepare, StartListen,
         StartStepFails, StartApplyCall, StartApplied, StartApplyRetry, StartApplyFailed,
         StartUndoRestoreCall, StartUndoRestoreRetry, StartUndoRestored, StartUndo, StartPublish, Set
    <2>2. CASE WatchWakes(p)
      BY <1>0, <2>2, Zenon DEF WatchWakes, Set
    <2>3. ASSUME NEW t \in {Main(p), Watch(p)}, Stopping(t)
          PROVE  \A u \in Thread : u \notin {Main(p), Watch(p)} => thr'[u] = thr[u]
      BY <1>0, <2>3, Zenon DEF Stopping, StopSwap, StopRestoreCall, StopRestoreRetry,
                        StopRestored, StopServer, StopReturn, Set
    <2>4. ASSUME NEW t \in {Main(p), Watch(p)}, InCall(t)
          PROVE  \A u \in Thread : u \notin {Main(p), Watch(p)} => thr'[u] = thr[u]
      BY <2>4, Zenon DEF InCall, engVars
    <2> QED BY <1>0, <2>1, <2>2, <2>3, <2>4, ZenonT(30) DEF EngStep
  <1>5. ASSUME NEW q \in Proc, q # p
        PROVE  /\ cli'[q] = cli[q]
               /\ thr'[Main(q)] = thr[Main(q)] /\ thr'[Watch(q)] = thr[Watch(q)]
    BY <1>0, <1>4, <1>5, ThreadFacts, Zenon
  <1> QED BY <1>1, <1>2, <1>3, <1>5, CliStep, Zenon

(* The shells, and the signals they send. *)
LEMMA ShellStep ==
    ASSUME LifePortIInv,
           (\E p \in Proc : Interrupt(p)) \/ (\E c \in Cmd : CmdStep(c)) \/ UNCHANGED lifeVars
    PROVE  LifePortIInv'
  <1>0. PortIInv /\ CliTypeOK /\ ctx \in [Proc -> BOOLEAN] /\ control \in [Proc -> BOOLEAN]
    BY Zenon DEF LifePortIInv, CliTypeOK, PortIInv, EngTypeOK
  <1>1. UNCHANGED <<mode, thr, fields, running, port>> /\ UNCHANGED <<cli, control>>
    BY Zenon DEF Interrupt, CmdStep, CmdRead, StopPost, StopPoll, StatusQuery, RestoreCall,
           RestoreEnds, InCall, cliVars, engVars, lifeVars
  <1>2. ctx' \in [Proc -> BOOLEAN]
    <2>1. ASSUME NEW p \in Proc, Interrupt(p)
          PROVE  ctx' \in [Proc -> BOOLEAN]
      BY <1>0, <2>1, Zenon DEF Interrupt
    <2>2. ASSUME NEW c \in Cmd, StopPost(c)
          PROVE  ctx' \in [Proc -> BOOLEAN]
      BY <1>0, <2>2, ZenonT(30) DEF StopPost
    <2>3. ASSUME NEW c \in Cmd, CmdStep(c), ~StopPost(c)
          PROVE  UNCHANGED ctx
      BY <2>3, Zenon DEF CmdStep, CmdRead, StopPoll, StatusQuery, RestoreCall, RestoreEnds,
                  InCall, engVars
    <2>4. CASE UNCHANGED lifeVars
      BY <1>0, <2>4, Zenon DEF lifeVars, engVars
    <2> QED BY <1>0, <2>1, <2>2, <2>3, <2>4, Zenon
  <1>3. PortIInv'
    BY <1>0, <1>1, <1>2, CtxStep, Zenon
  <1> QED BY <1>0, <1>1, <1>3, Zenon DEF LifePortIInv, CliTypeOK, CliPhase

LEMMA LifePortNext == LifePortIInv /\ [LifeNext]_lifeVars => LifePortIInv'
  BY CheckStep, ServeStep, GoneStep, EngineStepPort, ShellStep, Zenon DEF LifeNext, ProcStep

(* The ports stay accounted for whatever `start`, `stop`, `status` and     *)
(* `restore` do, and however processes are killed.                         *)
THEOREM LifePorts == LifeSpec => []LifePortIInv
  BY LifePortInit, LifePortNext, PTL DEF LifeSpec

(* Any number of `start` commands may race past the check of the state     *)
(* file; at most one of them gets an engine to run.                        *)
THEOREM LifeOneEngine == ASSUME SharedPort PROVE LifeSpec => []OneEngineRuns
  <1>1. LifePortIInv => OneEngineRuns
    <2> SUFFICES ASSUME LifePortIInv, NEW p \in Proc, NEW q \in Proc, running[p], running[q]
                 PROVE  p = q
      BY Zenon DEF OneEngineRuns
    <2>1. mode[p] \in RunMode /\ mode[q] \in RunMode /\ ServersUp
      BY PortsUp, Zenon DEF LifePortIInv, PortIInv, EngTypeOK
    <2>2. port[LastToStop(mode[p])] = p /\ port[LastToStop(mode[q])] = q
      BY <2>1, LastFacts, Zenon DEF ServersUp
    <2> QED BY <2>1, <2>2, Zenon DEF SharedPort
  <1> QED BY <1>1, LifePorts, PTL

-----------------------------------------------------------------------------
(* One call of Apply or Restore at a time *)

(* A step of `start` that makes no call: its own thread, if it moves, is   *)
(* in no call, and no `restore` is under way.                              *)
LEMMA QuietStartStep ==
    ASSUME LifeIInv, NEW p \in Proc, UNCHANGED sysVars, UNCHANGED mode,
           thr' = thr \/ (Set(Main(p), "start") \/ Set(Main(p), "stop")),
           thr' = thr \/ thr[Main(p)].pc \notin InCallPc,
           ~Gone(p) \/ \A c \in Cmd : job[c] = Idle
    PROVE  CallIInv' /\ ShellPhase'
  <1>0. thr \in [Thread -> ThreadState] /\ Main(p) \in Thread
    BY ThreadFacts, ZenonT(30) DEF LifeIInv, LifePortIInv, PortIInv, EngTypeOK
  <1>1. job' = job /\ \A c \in Cmd : job[c] = Idle
    BY DEF sysVars, LifeIInv, ShellPhase
  <1>2. \A u \in Thread : u # Main(p) => thr'[u] = thr[u]
    BY <1>0, Zenon DEF Set
  <1>3. CallIInv'
    BY <1>0, <1>1, <1>2, ZenonT(30) DEF LifeIInv, CallIInv, CallPhase
  <1>4. ShellPhase'
    BY <1>1 DEF LifeIInv, ShellPhase
  <1> QED BY <1>3, <1>4, Zenon

LEMMA StartCallStep ==
    ASSUME LifeIInv, RestoreAlone, NEW p \in Proc,
           \/ Launch(p) \/ CheckRead(p) \/ CheckQuery(p) \/ EngineFailed(p) \/ MakeToken(p)
           \/ ControlStart(p) \/ PublishState(p) \/ ServeUntilDone(p)
           \/ StopFinished(p) \/ AbortFinished(p)
    PROVE  UNCHANGED sysVars /\ CallIInv' /\ ShellPhase'
  <1>0. CliPhase(p) /\ Fresh.pc = "off"
    BY Zenon DEF LifeIInv, LifePortIInv, Fresh
  <1>1. UNCHANGED sysVars /\ UNCHANGED mode
    BY ZenonT(30) DEF Launch, CheckRead, CheckQuery, EngineFailed, MakeToken, ControlStart, PublishState,
           ServeUntilDone, StopFinished, AbortFinished, engVars
  <1>2. thr' = thr \/ (Set(Main(p), "start") \/ Set(Main(p), "stop"))
    BY Zenon DEF Launch, CheckRead, CheckQuery, EngineFailed, MakeToken, ControlStart, PublishState,
           ServeUntilDone, StopFinished, AbortFinished, engVars
  <1>3. thr' = thr \/ thr[Main(p)].pc \notin InCallPc
    BY <1>0, ZenonT(30) DEF Launch, CheckRead, CheckQuery, EngineFailed, MakeToken, ControlStart,
           PublishState, ServeUntilDone, StopFinished, AbortFinished, engVars, CliPhase, InCallPc
  <1>4. ~Gone(p) \/ \A c \in Cmd : job[c] = Idle
    BY ZenonT(30) DEF Launch, CheckRead, CheckQuery, EngineFailed, MakeToken, ControlStart, PublishState,
           ServeUntilDone, StopFinished, AbortFinished, Gone
  <1> QED BY <1>1, <1>2, <1>3, <1>4, QuietStartStep, Zenon

(* While `restore` is in a call no engine holds a server. *)
LEMMA RestoresAlone ==
    ASSUME LifeIInv, NEW c \in Cmd, job[c] # Idle
    PROVE  /\ \A u \in Thread : ~HoldsLast(u) /\ job[u] = Idle
           /\ \A p \in Proc : Gone(p)
  <1>1. \A p \in Proc : Gone(p) /\ CliPhase(p)
    BY Zenon DEF LifeIInv, LifePortIInv, ShellPhase
  <1>2. ASSUME NEW u \in Thread
        PROVE  thr[u] = Fresh
    BY <1>1, ThreadIsOne, ZenonT(30) DEF CliPhase, Gone
  <1>3. Fresh.pc \notin InCallPc /\ Fresh.held = {}
    BY DEF Fresh, InCallPc
  <1> QED BY <1>1, <1>2, <1>3, Zenon DEF HoldsLast, LifeIInv, CallIInv, CallPhase

LEMMA OnlyThreads ==
    ASSUME LifeIInv
    PROVE  (\E u \in Thread : HoldsLast(u)) => OnlyThreadsCall
  BY RestoresAlone, Zenon DEF OnlyThreadsCall, LifeIInv, ShellPhase

(* A process ends, or its engine takes a step. *)
LEMMA ProcCallStep ==
    ASSUME SharedPort, LifeIInv, NEW p \in Proc, EngineStep(p) \/ Exit(p) \/ Kill(p)
    PROVE  [SysNext]_sysVars /\ CallIInv' /\ ShellPhase'
  <1>0. /\ PortIInv /\ CallIInv /\ SysIInv /\ ShellPhase
        /\ (\E u \in Thread : HoldsLast(u)) => OnlyThreadsCall
    BY OnlyThreads, Zenon DEF LifeIInv, LifePortIInv
  <1>1. /\ [SysNext]_sysVars /\ CallIInv'
        /\ \A a \in Actor \ Thread : job'[a] = job[a]
    <2>1. CASE EngineStep(p)
      BY <1>0, <2>1, EngStepCall, ZenonT(30) DEF EngineStep
    <2>2. CASE Exit(p) \/ Kill(p)
      BY <1>0, <2>2, DieCall, Zenon DEF Exit, Kill
    <2> QED BY <2>1, <2>2, ZenonT(30)
  <1>2. \A q \in Proc : Gone(q) => Gone(q)'
    <2>1. CASE EngineStep(p)
      BY <2>1, Zenon DEF EngineStep, cliVars, Gone
    <2>2. CASE Exit(p) \/ Kill(p)
      BY <2>2, Zenon DEF Exit, Kill, CliGoto, Gone, LifeIInv, LifePortIInv, CliTypeOK
    <2> QED BY <2>1, <2>2, Zenon
  <1>3. ShellPhase'
    BY <1>0, <1>1, <1>2, CmdAssumption, Zenon DEF ShellPhase
  <1> QED BY <1>1, <1>3, Zenon

(* A shell takes a step, or a process is interrupted. *)
LEMMA ShellCallStep ==
    ASSUME LifeIInv, RestoreAlone,
           (\E p \in Proc : Interrupt(p)) \/ (\E c \in Cmd : CmdStep(c)) \/ UNCHANGED lifeVars
    PROVE  [SysNext]_sysVars /\ CallIInv' /\ ShellPhase'
  <1>0. /\ CallIInv /\ SysIInv /\ ShellPhase /\ job \in [Actor -> JobType]
        /\ Idle.pc = "idle"
    BY DEF LifeIInv, SysIInv, SysTypeOK, Idle
  <1>1. UNCHANGED <<mode, thr, cli>>
    BY Zenon DEF Interrupt, CmdStep, CmdRead, StopPost, StopPoll, StatusQuery, RestoreCall,
           RestoreEnds, InCall, cliVars, engVars, lifeVars
  <1>2. CASE UNCHANGED sysVars
    BY <1>0, <1>1, <1>2, Zenon DEF sysVars, CallIInv, CallPhase, ShellPhase, Gone
  <1>3. SUFFICES ASSUME NEW c \in Cmd, RestoreCall(c) \/ RestoreEnds(c) \/ InCall(c)
                 PROVE  [SysNext]_sysVars /\ CallIInv' /\ ShellPhase'
    BY <1>2, <1>3, Zenon DEF Interrupt, CmdStep, CmdRead, StopPost, StopPoll, StatusQuery, lifeVars
  <1>4. c \in Actor /\ c \notin Thread /\ Thread \subseteq Actor
    BY CmdAssumption, ProcAssumption, Zenon
  <1>5. [SysNext]_sysVars /\ \A a \in Actor : a # c => job'[a] = job[a]
    <2>1. CASE RestoreCall(c)
      <3>1. /\ CallRestore(c, "any") /\ UNCHANGED <<settings, hostsLines, rollback, user, lost>>
            /\ \A p \in Proc : Gone(p)
            /\ \A d \in Cmd : job[d] = Idle
        BY <2>1, ZenonT(30) DEF RestoreCall, sysOut
      <3>2. ASSUME NEW u \in Thread
            PROVE  job[u] = Idle
        <4>1. thr[u] = Fresh
          BY <3>1, ThreadIsOne, Zenon DEF LifeIInv, LifePortIInv, CliPhase, Gone
        <4> QED BY <1>0, <4>1, SMTT(30) DEF CallIInv, CallPhase, Fresh, InCallPc
      <3>3. AllIdle
        BY <1>0, <3>1, <3>2, Zenon DEF AllIdle, ShellPhase
      <3>4. StartRestore(c, "any")
        BY <3>1, <3>3, Zenon DEF StartRestore
      <3>5. SysNext
        BY <1>4, <3>4, Zenon DEF SysNext
      <3> QED BY <1>0, <1>4, <3>1, <3>5, ZenonT(30) DEF CallRestore
    <2>2. CASE RestoreEnds(c)
      <3>1. Crash(c)
        BY <2>2 DEF RestoreEnds, Crash, sysOut
      <3> QED BY <1>0, <1>4, <3>1, ZenonT(30) DEF SysNext, Crash
    <2>3. CASE InCall(c)
      BY <1>0, <1>4, <2>3, WorkingFacts, ZenonT(30) DEF InCall, SysNext
    <2> QED BY <1>3, <2>1, <2>2, <2>3, Zenon
  <1>6. CallIInv'
    BY <1>0, <1>1, <1>4, <1>5, Zenon DEF CallIInv, CallPhase
  <1>7. (\A p \in Proc : Gone(p)) /\ \A d \in Cmd : d # c => job[d] = Idle
    <2>1. CASE RestoreCall(c)
      BY <2>1, Zenon DEF RestoreCall
    <2>2. CASE RestoreEnds(c) \/ InCall(c)
      <3>1. job[c] # Idle
        BY <1>0, <1>4, <2>2, WorkingFacts, ZenonT(30) DEF RestoreEnds, InCall
      <3> QED BY <1>0, <3>1, Zenon DEF ShellPhase
    <2> QED BY <1>3, <2>1, <2>2, Zenon
  <1>o. job'[c] # Idle => job'[c].op = "restore"
    <2>1. CASE RestoreCall(c)
      BY <1>0, <1>4, <2>1, Zenon DEF RestoreCall, CallRestore, Idle
    <2>2. CASE RestoreEnds(c)
      BY <1>0, <1>4, <2>2, Zenon DEF RestoreEnds
    <2>3. CASE InCall(c)
      BY <1>0, <1>4, <2>3, WorkingFacts, Zenon DEF InCall, ShellPhase
    <2> QED BY <1>3, <2>1, <2>2, <2>3, Zenon
  <1>8. ShellPhase'
    <2>1. \A a \in Actor \ (Thread \cup Cmd) : job'[a] = Idle
      BY <1>0, <1>5, Zenon DEF ShellPhase
    <2>2. \A d \in Cmd : job'[d] # Idle => d = c
      BY <1>5, <1>7, CmdAssumption, Zenon
    <2>3. \A p \in Proc : Gone(p)'
      BY <1>1, <1>7, Zenon DEF Gone
    <2> QED BY <1>o, <2>1, <2>2, <2>3, Zenon DEF ShellPhase
  <1> QED BY <1>5, <1>6, <1>8, ZenonT(30)

LEMMA LifeInitInv == LifeInit => LifeIInv
  <1> SUFFICES ASSUME LifeInit
               PROVE  LifeIInv
    OBVIOUS
  <1>1. EngIInv /\ LifePortIInv
    BY EngInitInv, LifePortInit, Zenon DEF LifeInit
  <1>2. \A a \in Actor : job[a] = Idle
    BY Zenon DEF LifeInit, EngInit, SysInit
  <1>3. ShellPhase
    BY <1>2, CmdAssumption, Zenon DEF ShellPhase
  <1> QED BY <1>1, <1>3, Zenon DEF LifeIInv, EngIInv

LEMMA LifeNextSys ==
    ASSUME SharedPort, RestoreAlone, LifeIInv, [LifeNext]_lifeVars
    PROVE  LifeIInv' /\ [SysNext]_sysVars
  <1>1. LifePortIInv'
    BY LifePortNext, Zenon DEF LifeIInv
  <1>2. [SysNext]_sysVars /\ CallIInv' /\ ShellPhase'
    BY StartCallStep, ProcCallStep, ShellCallStep, ZenonT(30) DEF LifeNext, ProcStep
  <1>3. SysIInv'
    BY <1>2, SysNextInv, Zenon DEF LifeIInv
  <1> QED BY <1>1, <1>2, <1>3, Zenon DEF LifeIInv

THEOREM LifeInvariant == ASSUME SharedPort, RestoreAlone PROVE LifeSpec => []LifeIInv
  <1>1. LifeIInv /\ [LifeNext]_lifeVars => LifeIInv'
    BY LifeNextSys
  <1> QED BY <1>1, LifeInitInv, PTL DEF LifeSpec

(* What `start`, `stop`, `status` and `restore` do to the system is what   *)
(* SystemChange allows, for any number of them and whenever they are       *)
(* killed, as long as `restore` is not used alongside a `start` and the    *)
(* modes in use share the port that faces the clients.                     *)
THEOREM LifeImplementsSys == ASSUME SharedPort, RestoreAlone PROVE LifeSpec => SysSpec
  <1>1. LifeIInv /\ [LifeNext]_lifeVars => [SysNext]_sysVars
    BY LifeNextSys, Zenon
  <1>2. LifeInit => SysInit
    BY DEF LifeInit, EngInit
  <1> QED BY <1>1, <1>2, LifeInvariant, PTL DEF LifeSpec, SysSpec

(* One Apply or Restore at most is in progress. *)
THEOREM LifeOneCall == ASSUME SharedPort, RestoreAlone PROVE LifeSpec => []OneCallAtATime
  <1>1. LifeIInv => OneCallAtATime
    <2> SUFFICES ASSUME LifeIInv, NEW a \in Actor, NEW b \in Actor, job[a] # Idle, job[b] # Idle
                 PROVE  a = b
      BY DEF OneCallAtATime
    <2>1. SharedPort /\ PortIInv /\ ShellPhase /\ CallIInv
      BY DEF LifeIInv, LifePortIInv
    <2>2. CASE a \in Thread /\ b \in Thread
      <3>1. ASSUME NEW t \in Thread, job[t] # Idle
            PROVE  HoldsLast(t)
        BY <2>1, <3>1, ThreadIsOne, CallerHoldsLast, ZenonT(30) DEF CallIInv, CallPhase
      <3> QED BY <2>1, <2>2, <3>1, OneHoldsLast, ZenonT(30)
    <2>3. CASE a \notin Thread \/ b \notin Thread
      BY <2>1, <2>3, RestoresAlone, Zenon DEF ShellPhase
    <2> QED BY <2>2, <2>3, Zenon
  <1> QED BY <1>1, LifeInvariant, PTL

(* Nor do the commands, raced and killed at any point, take over a part    *)
(* whose servers do not listen.                                            *)
THEOREM LifePointsAtListeners ==
    ASSUME SharedPort, RestoreAlone
    PROVE  LifeSpec => PointsAtListeners
  <1> DEFINE A == \A q \in Taken' \ (Taken \cup lost) :
                     \E p \in Proc : /\ TakesOver(mode[p]) /\ q \in PartsOf(KindOf(mode[p]))
                                     /\ \A s \in Needed(mode[p]) : port[s] = p
  <1>1. LifeIInv => \A a \in Actor \ Thread : job[a] # Idle => job[a].op # "apply"
    BY Zenon DEF LifeIInv, ShellPhase
  <1>2. LifeIInv /\ [LifeNext]_lifeVars => A
    BY <1>1, LifeNextSys, TakeoverIsServed, Zenon DEF LifeIInv, LifePortIInv
  <1> QED BY <1>2, LifeInvariant, PTL DEF LifeSpec, PointsAtListeners

(* Whatever the commands do and whenever they are killed, a setting that   *)
(* is not the user's has the user's value in the rollback file, unless an  *)
(* Apply has overwritten the file while the setting was taken over.        *)
THEOREM LifeRecoverable ==
    ASSUME SharedPort, RestoreAlone
    PROVE  LifeSpec => []RecoverableUnlessLost
  BY LifeImplementsSys, SysRecoverable, PTL
=============================================================================
