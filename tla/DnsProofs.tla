------------------------------ MODULE DnsProofs ------------------------------
(***************************************************************************)
(* Proofs about DnsIntercept for any number of concurrent questions, of    *)
(* upstream servers and of configurations; and about DnsCache for every    *)
(* number of handlers, every set of responses and every width of the TTL,  *)
(* as long as no handler is held up for more than a second.                *)
(***************************************************************************)
EXTENDS DnsIntercept, DnsCache, Induction

Question == Asked \cup {NoQuestion} \cup [name : Handler, type : {"A"}]

Forwarding == {"cache", "try", "lookup", "exchange"}

Upstream == {"cached", "forwarded", "servfail"}

HandlerState ==
    [pc : {"idle", "match"} \cup Forwarding, q : Question, i : Nat,
     reply : Upstream \cup {"none", "mapped", "empty"}]

(* The questions that may be asked of upstream. *)
MayForward(q) == q.name \in TargetName => q.type = "HTTPS" /\ ~BlockHTTPS

(* Where a handler may be, and what it may have replied. *)
StateAllowed(hd) ==
    /\ hd.pc \in Forwarding => MayForward(hd.q)
    /\ hd.reply \in Upstream => MayForward(hd.q)

LocalIInv ==
    /\ handler \in [Handler -> HandlerState]
    /\ cache \subseteq Question
    /\ \A h \in Handler : StateAllowed(handler[h])
    /\ \A q \in cache : MayForward(q)

-----------------------------------------------------------------------------
(* A handler that goes on in an allowed state keeps the invariant. *)
LEMMA HandlerGoesOn ==
    ASSUME LocalIInv, NEW h \in Handler, NEW hd \in HandlerState, StateAllowed(hd),
           handler' = [handler EXCEPT ![h] = hd],
           cache' \subseteq cache \/ (cache' = cache \cup {hd.q} /\ MayForward(hd.q))
    PROVE  LocalIInv'
<1>1. hd.q \in Question
  BY DEF HandlerState
<1>2. handler' \in [Handler -> HandlerState] /\ \A g \in Handler : StateAllowed(handler'[g])
  BY DEF LocalIInv
<1>3. cache' \subseteq Question /\ \A q \in cache' : MayForward(q)
  BY <1>1 DEF LocalIInv
<1> QED BY <1>2, <1>3 DEF LocalIInv

(* A handler that goes on to pc, and one that replies. *)
LEMMA AtPc ==
    ASSUME NEW hd \in HandlerState, StateAllowed(hd),
           NEW pc \in {"idle", "match"} \cup Forwarding, pc \in Forwarding => MayForward(hd.q)
    PROVE  [hd EXCEPT !.pc = pc] \in HandlerState /\ StateAllowed([hd EXCEPT !.pc = pc])
<1> DEFINE t == [hd EXCEPT !.pc = pc]
<1>1. t \in HandlerState /\ t.pc = pc /\ t.q = hd.q /\ t.reply = hd.reply
  BY DEF HandlerState
<1> HIDE DEF t
<1>2. StateAllowed(t)
  BY <1>1 DEF StateAllowed
<1> QED BY <1>1, <1>2 DEF t

LEMMA Replied ==
    ASSUME NEW hd \in HandlerState,
           NEW r \in Upstream \cup {"mapped", "empty"}, r \in Upstream => MayForward(hd.q)
    PROVE  /\ [hd EXCEPT !.pc = "idle", !.i = 1, !.reply = r] \in HandlerState
           /\ StateAllowed([hd EXCEPT !.pc = "idle", !.i = 1, !.reply = r])
           /\ [hd EXCEPT !.pc = "idle", !.i = 1, !.reply = r].q = hd.q
<1> DEFINE t == [hd EXCEPT !.pc = "idle", !.i = 1, !.reply = r]
<1>1. t \in HandlerState /\ t.pc = "idle" /\ t.q = hd.q /\ t.reply = r
  BY DEF HandlerState
<1> HIDE DEF t
<1>2. StateAllowed(t)
  BY <1>1 DEF StateAllowed, Forwarding
<1> QED BY <1>1, <1>2 DEF t

(* A handler that tries a server. *)
LEMMA Tries ==
    ASSUME NEW hd \in HandlerState, MayForward(hd.q), NEW n \in Nat
    PROVE  /\ [hd EXCEPT !.pc = "try", !.i = n] \in HandlerState
           /\ StateAllowed([hd EXCEPT !.pc = "try", !.i = n])
           /\ [hd EXCEPT !.pc = "try", !.i = n].q = hd.q
<1> DEFINE t == [hd EXCEPT !.pc = "try", !.i = n]
<1>1. t \in HandlerState /\ t.pc = "try" /\ t.q = hd.q /\ t.reply = hd.reply
  BY Zenon DEF HandlerState, Forwarding
<1> HIDE DEF t
<1>2. StateAllowed(t)
  BY <1>1 DEF StateAllowed
<1> QED BY <1>1, <1>2 DEF t

(* Forward goes on to the next server, or fails: allowed for whoever had   *)
(* got as far as the servers.                                              *)
LEMMA AfterErrorAllowed ==
    ASSUME NEW hd \in HandlerState, MayForward(hd.q)
    PROVE  AfterError(hd) \in HandlerState /\ StateAllowed(AfterError(hd))
<1>1. hd.i + 1 \in Nat
  BY DEF HandlerState
<1>2. CASE hd.i < Len(Servers)
  <2>1. AfterError(hd) = [hd EXCEPT !.pc = "try", !.i = hd.i + 1]
    BY <1>2 DEF AfterError
  <2>2. /\ [hd EXCEPT !.pc = "try", !.i = hd.i + 1] \in HandlerState
        /\ StateAllowed([hd EXCEPT !.pc = "try", !.i = hd.i + 1])
    BY <1>1, Tries, Zenon
  <2> QED BY <2>1, <2>2, Zenon
<1>3. CASE ~(hd.i < Len(Servers))
  <2>1. AfterError(hd) = [hd EXCEPT !.pc = "idle", !.i = 1, !.reply = "servfail"]
    BY <1>3 DEF AfterError
  <2>2. /\ [hd EXCEPT !.pc = "idle", !.i = 1, !.reply = "servfail"] \in HandlerState
        /\ StateAllowed([hd EXCEPT !.pc = "idle", !.i = 1, !.reply = "servfail"])
    BY Replied, Zenon DEF Upstream
  <2> QED BY <2>1, <2>2, Zenon
<1> QED BY <1>2, <1>3

(* Initially no question has been asked. *)
LEMMA LocalInitial == Init => LocalIInv
BY DEF Init, LocalIInv, Waiting, NoQuestion, HandlerState, Question, StateAllowed,
       Forwarding, Upstream

(* The steps of ServeDNS: handle lets only the questions that may go       *)
(* upstream get to the cache and the servers.                              *)
LEMMA HandlerSteps ==
    ASSUME LocalIInv, NEW h \in Handler, HandlerStep(h)
    PROVE  LocalIInv'
<1> DEFINE hd == handler[h]
<1>0. hd \in HandlerState /\ StateAllowed(hd)
  BY DEF LocalIInv
<1>1. hd.pc \in Forwarding => MayForward(hd.q)
  BY <1>0 DEF StateAllowed
<1>2. CASE Handle(h)
  <2>1. CASE hd.q.name \in TargetName /\ ~ShouldForwardTarget(hd.q)
    <3>1. handler' = [handler EXCEPT ![h] = [hd EXCEPT !.pc = "idle", !.i = 1, !.reply = TargetReply(hd.q)]]
      BY <1>2, <2>1 DEF Handle, Step, Answer
    <3>2. cache' = cache
      BY <1>2 DEF Handle
    <3>3. TargetReply(hd.q) \in {"mapped", "empty"}
      BY DEF TargetReply
    <3> HIDE DEF hd
    <3> QED BY <1>0, <3>1, <3>2, <3>3, Replied, HandlerGoesOn, Zenon DEF Upstream
  <2>2. CASE ~(hd.q.name \in TargetName /\ ~ShouldForwardTarget(hd.q))
    <3>1. handler' = [handler EXCEPT ![h] = [hd EXCEPT !.pc = "cache"]] /\ cache' = cache
      BY <1>2, <2>2 DEF Handle, Step
    <3>2. MayForward(hd.q)
      BY <2>2 DEF MayForward, ShouldForwardTarget
    <3> HIDE DEF hd
    <3> QED BY <1>0, <3>1, <3>2, AtPc, HandlerGoesOn, Zenon DEF Forwarding
  <2> QED BY <2>1, <2>2
<1>3. CASE GetCache(h)
  <2>1. MayForward(hd.q)
    BY <1>1, <1>3 DEF GetCache, Forwarding
  <2>2. CASE handler' = [handler EXCEPT ![h] = [hd EXCEPT !.pc = "idle", !.i = 1, !.reply = "cached"]]
             /\ cache' = cache
    <3> HIDE DEF hd
    <3> QED BY <1>0, <2>1, <2>2, Replied, HandlerGoesOn, ZenonT(30) DEF Upstream
  <2>3. CASE handler' = [handler EXCEPT ![h] = [hd EXCEPT !.pc = "try", !.i = 1]]
             /\ cache' \subseteq cache
    <3> HIDE DEF hd
    <3> QED BY <1>0, <2>1, <2>3, Tries, HandlerGoesOn, Zenon
  <2> QED BY <1>3, <2>2, <2>3 DEF GetCache, Step, Answer
<1>4. CASE Try(h)
  <2>1. MayForward(hd.q)
    BY <1>1, <1>4 DEF Try, Forwarding
  <2>2. PICK pc \in {"lookup", "exchange"} :
            handler' = [handler EXCEPT ![h] = [hd EXCEPT !.pc = pc]] /\ cache' = cache
    BY <1>4, Zenon DEF Try, Step
  <2> HIDE DEF hd
  <2> QED BY <1>0, <2>1, <2>2, AtPc, HandlerGoesOn, Zenon DEF Forwarding
<1>5. CASE LookupOutside(h)
  <2>1. MayForward(hd.q)
    BY <1>1, <1>5 DEF LookupOutside, Forwarding
  <2>2. handler' = [handler EXCEPT ![h] = [hd EXCEPT !.pc = "exchange"]] /\ cache' = cache
    BY <1>5 DEF LookupOutside
  <2> HIDE DEF hd
  <2> QED BY <1>0, <2>1, <2>2, AtPc, HandlerGoesOn, Zenon DEF Forwarding
<1>6. CASE LookupHere(h)
  <2> DEFINE s == Servers[hd.i]
             new == [Waiting EXCEPT !.pc = "match", !.q = [name |-> s, type |-> "A"]]
  <2>1. handler' = [handler EXCEPT ![s] = new] /\ cache' = cache
    BY <1>6 DEF LookupHere, Step
  <2>2. CASE s \in Handler
    <3>1. new \in HandlerState /\ StateAllowed(new)
      BY <2>2, Zenon DEF Waiting, HandlerState, Question, StateAllowed, Forwarding, Upstream
    <3> HIDE DEF new, s
    <3> QED BY <2>1, <2>2, <3>1, HandlerGoesOn, Zenon
  <2>3. CASE s \notin Handler
    <3>1. handler' = handler
      BY <2>1, <2>3 DEF LocalIInv
    <3> QED BY <2>1, <3>1, Zenon DEF LocalIInv
  <2> QED BY <2>2, <2>3
<1>7. ASSUME NEW keep \in BOOLEAN, ExchangeOk(h, keep) PROVE LocalIInv'
  <2> DEFINE new == [hd EXCEPT !.pc = "idle", !.i = 1, !.reply = "forwarded"]
  <2>1. MayForward(hd.q)
    BY <1>1, <1>7 DEF ExchangeOk, Forwarding
  <2>2. handler' = [handler EXCEPT ![h] = new] /\ cache' \in {cache, cache \cup {hd.q}}
    BY <1>7 DEF ExchangeOk, Answer
  <2> HIDE DEF hd
  <2>3. new \in HandlerState /\ StateAllowed(new) /\ new.q = hd.q
    BY <1>0, <2>1, Replied, Zenon DEF Upstream
  <2> HIDE DEF new
  <2> QED BY <2>1, <2>2, <2>3, HandlerGoesOn, ZenonT(30)
<1>8. CASE ExchangeFails(h)
  <2>1. MayForward(hd.q)
    BY <1>1, <1>8 DEF ExchangeFails, Forwarding
  <2>2. handler' = [handler EXCEPT ![h] = AfterError(hd)] /\ cache' = cache
    BY <1>8 DEF ExchangeFails, Step
  <2> HIDE DEF hd
  <2> QED BY <1>0, <2>1, <2>2, AfterErrorAllowed, HandlerGoesOn, ZenonT(30)
<1>9. CASE Timeout(h)
  <2>1. hd.pc \in {"exchange", "lookup"}
    BY <1>9 DEF Timeout
  <2>2. MayForward(hd.q)
    BY <1>1, <2>1 DEF Forwarding
  <2>3. handler' = [handler EXCEPT ![h] = [hd EXCEPT !.pc = "idle", !.i = 1, !.reply = "servfail"]]
        /\ cache' = cache
    BY <1>9 DEF Timeout, Step, Answer
  <2> HIDE DEF hd
  <2> QED BY <1>0, <2>2, <2>3, Replied, HandlerGoesOn, Zenon DEF Upstream
<1>10. CASE LookupFails(h)
  <2>1. MayForward(hd.q)
    BY <1>1, <1>10 DEF LookupFails, Forwarding
  <2>2. handler' = [handler EXCEPT ![h] = AfterError(hd)] /\ cache' = cache
    BY <1>10 DEF LookupFails, Step
  <2> HIDE DEF hd
  <2> QED BY <1>0, <2>1, <2>2, AfterErrorAllowed, HandlerGoesOn, ZenonT(30)
<1> QED BY <1>2, <1>3, <1>4, <1>5, <1>6, <1>7, <1>8, <1>9, <1>10, ZenonT(30) DEF HandlerStep

(* LookupDone wakes the handlers that wait for an address; they had got as *)
(* far as the servers.                                                     *)
LEMMA LookupSteps ==
    ASSUME LocalIInv, NEW s \in ByName, LookupDone(s)
    PROVE  LocalIInv'
<1> DEFINE good == /\ handler[s].reply \in {"cached", "forwarded"}
                   /\ ProtoOf[s] = "udp" => sock["udp"] # "closed"
<1>1. handler' = Woken(s, good)
  BY DEF LookupDone
<1> HIDE DEF good
<1>2. cache' = cache
  BY DEF LookupDone
<1>3. ASSUME NEW h \in Handler
      PROVE  handler'[h] \in HandlerState /\ StateAllowed(handler'[h])
  <2> DEFINE hd == handler[h]
  <2>0. hd \in HandlerState /\ StateAllowed(hd)
    BY DEF LocalIInv
  <2>1. CASE hd.pc = "lookup" /\ Servers[hd.i] = s
    <3>1. MayForward(hd.q)
      BY <2>0, <2>1 DEF StateAllowed, Forwarding
    <3>2. handler'[h] = IF good THEN [hd EXCEPT !.pc = "exchange"] ELSE AfterError(hd)
      BY <1>1, <2>1 DEF Woken
    <3> HIDE DEF hd
    <3>3. [hd EXCEPT !.pc = "exchange"] \in HandlerState /\ StateAllowed([hd EXCEPT !.pc = "exchange"])
      BY <2>0, <3>1, AtPc, Zenon DEF Forwarding
    <3>4. AfterError(hd) \in HandlerState /\ StateAllowed(AfterError(hd))
      BY <2>0, <3>1, AfterErrorAllowed
    <3>5. CASE good
      BY <3>2, <3>3, <3>5, Zenon
    <3>6. CASE ~good
      BY <3>2, <3>4, <3>6, Zenon
    <3> QED BY <3>5, <3>6
  <2>2. CASE ~(hd.pc = "lookup" /\ Servers[hd.i] = s)
    <3>1. handler'[h] \in {hd, Waiting}
      BY <1>1, <2>2 DEF Woken
    <3>2. Waiting \in HandlerState /\ StateAllowed(Waiting)
      BY DEF Waiting, HandlerState, Question, StateAllowed, Forwarding, Upstream
    <3> QED BY <2>0, <3>1, <3>2
  <2> QED BY <2>1, <2>2, ZenonT(30)
<1>4. handler' \in [Handler -> HandlerState]
  BY <1>1, <1>3 DEF Woken
<1> QED BY <1>2, <1>3, <1>4, Zenon DEF LocalIInv

(* A client's question starts with the matcher. *)
LEMMA ReceiveSteps ==
    ASSUME LocalIInv, NEW h \in Slot, NEW q \in Asked, Receive(h, q)
    PROVE  LocalIInv'
<1> DEFINE new == [Waiting EXCEPT !.pc = "match", !.q = q]
<1>1. handler' = [handler EXCEPT ![h] = new] /\ cache' = cache /\ h \in Handler
  BY DEF Receive, Step, Handler
<1>2. new \in HandlerState /\ StateAllowed(new)
  BY Zenon DEF Waiting, HandlerState, Question, StateAllowed, Forwarding, Upstream
<1> HIDE DEF new
<1> QED BY <1>1, <1>2, HandlerGoesOn, Zenon

(* LocalIInv holds throughout. *)
THEOREM LocalInvariant == Init /\ [][Next]_dnsVars => []LocalIInv
<1>1. LocalIInv /\ [Next]_dnsVars => LocalIInv'
  <2> SUFFICES ASSUME LocalIInv, [Next]_dnsVars PROVE LocalIInv'
    OBVIOUS
  <2>1. CASE UNCHANGED <<cache, handler>>
    BY <2>1 DEF LocalIInv
  <2>2. CASE \E h \in Slot, q \in Asked : Receive(h, q)
    BY <2>2, ReceiveSteps
  <2>3. CASE \E h \in Handler : HandlerStep(h)
    BY <2>3, HandlerSteps
  <2>4. CASE \E s \in ByName : LookupDone(s)
    BY <2>4, LookupSteps
  <2> QED
    BY <2>1, <2>2, <2>3, <2>4
       DEF Next, dnsVars, ListenFirst, ListenSecond, Activate, TakeOver, Release, StopServer,
           Shutdown, Drain, Forget
<1> QED BY <1>1, LocalInitial, PTL

(* A target's address never comes from upstream, directly or through the   *)
(* cache, whatever handlers run at the same time and however the           *)
(* forwarder's own lookups come back to the server.                        *)
THEOREM TargetsAlwaysLocal == DnsSpec => []TargetsStayLocal
<1>1. LocalIInv => TargetsStayLocal
  BY DEF LocalIInv, StateAllowed, MayForward, TargetsStayLocal, Upstream, Handler
<1>2. DnsSpec => Init /\ [][Next]_dnsVars
  BY PTL DEF DnsSpec
<1> QED BY <1>1, <1>2, LocalInvariant, PTL

-----------------------------------------------------------------------------
(* Start and Stop of the server *)

(* ShutdownContext of p has returned, and what its error, or none, says of *)
(* the socket and of the handlers.                                         *)
Returned(p) ==
    /\ errs[p] # "early" => sock[p] = "closed"
    /\ errs[p] = "none" => Active(p) = {}

(* A socket of which Stop has not come to the end is held.  Once closed it *)
(* brings no new questions, so what Stop has waited for stays so.          *)
StopIInv ==
    /\ sock \in [Proto -> {"closed", "bound", "serving", "draining"}]
    /\ errs \in [Proto -> {"none", "early", "late"}]
    /\ server = "off" => \A p \in Proto : sock[p] = "closed"
    /\ server = "on" => \A p \in Proto : sock[p] \in {"bound", "serving"}
    /\ server = "udp" => sock["tcp"] \in {"bound", "serving"}
    /\ server \in {"tcp", "stopped"} => Returned("udp")
    /\ server = "stopped" => Returned("tcp")

(* Only a question that arrives over a served socket sets an idle handler  *)
(* to work: a client's or, while the adapters point here, our own.         *)
LEMMA NoneBegins ==
    ASSUME LocalIInv, NEW g \in Handler, handler[g].pc = "idle", sock[ProtoOf[g]] # "serving",
           \/ \E h \in Slot, q \in Asked : Receive(h, q)
           \/ \E h \in Handler : HandlerStep(h)
           \/ \E s \in ByName : LookupDone(s)
    PROVE  handler'[g].pc = "idle"
<1>0. ASSUME NEW x, x # g, NEW hd, handler' = [handler EXCEPT ![x] = hd]
      PROVE  handler'[g].pc = "idle"
  BY <1>0 DEF LocalIInv
<1>1. ASSUME NEW h \in Handler, HandlerStep(h) PROVE handler'[g].pc = "idle"
  <2>1. h # g
    BY <1>1, Zenon DEF HandlerStep, Handle, GetCache, Try, LookupOutside, LookupHere, LookupFails,
                ExchangeOk, ExchangeFails, Timeout
  <2>2. CASE LookupHere(h)
    <3>1. PICK x : x # g /\ \E hd : handler' = [handler EXCEPT ![x] = hd]
      <4>1. Servers[handler[h].i] # g
        BY <2>2, Zenon DEF LookupHere
      <4> QED BY <2>2, <4>1, Zenon DEF LookupHere, Step
    <3> QED BY <1>0, <3>1, Zenon
  <2>3. CASE ~LookupHere(h)
    <3>1. \E hd : handler' = [handler EXCEPT ![h] = hd]
      <4>1. CASE Handle(h) BY <4>1 DEF Handle, Step
      <4>2. CASE GetCache(h) BY <4>2 DEF GetCache, Step
      <4>3. CASE Try(h) BY <4>3, Zenon DEF Try, Step
      <4>4. CASE LookupOutside(h) BY <4>4, Zenon DEF LookupOutside
      <4>5. CASE LookupFails(h) BY <4>5, Zenon DEF LookupFails, Step
      <4>6. CASE \E keep \in BOOLEAN : ExchangeOk(h, keep) BY <4>6, Zenon DEF ExchangeOk
      <4>7. CASE ExchangeFails(h) BY <4>7, Zenon DEF ExchangeFails, Step
      <4>8. CASE Timeout(h) BY <4>8, Zenon DEF Timeout, Step
      <4> QED BY <1>1, <2>3, <4>1, <4>2, <4>3, <4>4, <4>5, <4>6, <4>7, <4>8, ZenonT(30) DEF HandlerStep
    <3> QED BY <1>0, <2>1, <3>1, Zenon
  <2> QED BY <2>2, <2>3
<1>2. ASSUME NEW s \in ByName, LookupDone(s) PROVE handler'[g].pc = "idle"
  <2>1. handler'[g] \in {handler[g], Waiting}
    BY <1>2, Zenon DEF LookupDone, Woken
  <2> QED BY <2>1 DEF Waiting
<1>3. ASSUME NEW h \in Slot, NEW q \in Asked, Receive(h, q) PROVE handler'[g].pc = "idle"
  BY <1>0, <1>3, Zenon DEF Receive, Step
<1> QED BY <1>1, <1>2, <1>3

(* StopIInv is inductive. *)
LEMMA StopNextInv ==
    ASSUME LocalIInv, LocalIInv', StopIInv, [Next]_dnsVars
    PROVE  StopIInv'
<1>0. ASSUME UNCHANGED handler PROVE \A p : Active(p)' = Active(p)
  BY <1>0 DEF Active
<1>1. CASE UNCHANGED <<server, sock, errs, handler>>
  <2>1. \A p : Returned(p)' = Returned(p)
    BY <1>0, <1>1 DEF Returned
  <2> QED BY <1>1, <2>1 DEF StopIInv
<1>2. CASE ListenFirst
  BY <1>2 DEF ListenFirst, StopIInv, First, Proto
<1>3. CASE \E ok \in BOOLEAN : ListenSecond(ok)
  BY <1>3 DEF ListenSecond, StopIInv, Proto
<1>4. ASSUME NEW p \in Proto, Activate(p) PROVE StopIInv'
  <2>1. /\ UNCHANGED <<server, errs, handler>> /\ sock[p] = "bound"
        /\ sock' = [sock EXCEPT ![p] = "serving"] /\ server # "off"
    BY <1>4, Zenon DEF Activate
  <2>2. \A x \in Proto : Returned(x) => Returned(x)'
    BY <1>0, <2>1 DEF Returned, StopIInv
  <2> QED BY <2>1, <2>2 DEF StopIInv, Proto
<1>5. CASE StopServer
  BY <1>5 DEF StopServer, StopIInv, Proto
<1>6. ASSUME NEW p \in Proto, Shutdown(p) PROVE StopIInv'
  <2>1. CASE sock[p] = "serving"
    <3>1. /\ UNCHANGED <<server, errs, handler>> /\ server = p
          /\ sock' = [sock EXCEPT ![p] = "draining"]
      BY <1>6, <2>1, Zenon DEF Shutdown
    <3>2. p = "tcp" /\ Returned("udp") => Returned("udp")'
      BY <1>0, <3>1 DEF Returned, StopIInv, Proto
    <3> QED BY <3>1, <3>2 DEF StopIInv, Proto
  <2>2. CASE sock[p] # "serving"
    <3>1. /\ UNCHANGED <<sock, handler>> /\ server = p /\ server' = After(p)
          /\ errs' = [errs EXCEPT ![p] = "early"]
      BY <1>6, <2>2, Zenon DEF Shutdown
    <3>2. errs'[p] = "early" /\ Returned(p)'
      BY <3>1 DEF Returned, StopIInv
    <3>3. p = "tcp" /\ Returned("udp") => Returned("udp")'
      BY <1>0, <3>1 DEF Returned, StopIInv, Proto
    <3> QED BY <3>1, <3>2, <3>3 DEF StopIInv, Proto, After
  <2> QED BY <2>1, <2>2
<1>7. ASSUME NEW p \in Proto, NEW late \in BOOLEAN, Drain(p, late) PROVE StopIInv'
  <2>1. /\ UNCHANGED handler /\ server = p /\ server' = After(p)
        /\ sock' = [sock EXCEPT ![p] = "closed"]
        /\ errs' = [errs EXCEPT ![p] = IF late THEN "late" ELSE "none"]
        /\ late \/ Active(p) = {}
    BY <1>7, Zenon DEF Drain
  <2>2. Returned(p)'
    BY <1>0, <2>1 DEF Returned, StopIInv
  <2>3. p = "tcp" /\ Returned("udp") => Returned("udp")'
    BY <1>0, <2>1 DEF Returned, StopIInv, Proto
  <2> QED BY <2>1, <2>2, <2>3 DEF StopIInv, Proto, After
<1>8. CASE \/ \E h \in Slot, q \in Asked : Receive(h, q)
           \/ \E h \in Handler : HandlerStep(h)
           \/ \E s \in ByName : LookupDone(s)
  <2>1. UNCHANGED <<server, sock, errs>>
    BY <1>8, Zenon DEF Receive, HandlerStep, Handle, GetCache, Try, LookupOutside, LookupHere,
                 LookupFails, ExchangeOk, ExchangeFails, Timeout, Step, LookupDone
  <2>2. ASSUME NEW p \in Proto, sock[p] = "closed", Active(p) = {} PROVE Active(p)' = {}
    <3>1. ASSUME NEW g \in Handler, ProtoOf[g] = p PROVE handler'[g].pc = "idle"
      <4>1. handler[g].pc = "idle"
        BY <2>2, <3>1, Zenon DEF Active
      <4>2. sock[ProtoOf[g]] # "serving"
        BY <2>2, <3>1
      <4> QED BY <1>8, <4>1, <4>2, NoneBegins, Zenon
    <3> QED BY <3>1, Zenon DEF Active
  <2>3. \A p \in Proto : Returned(p) => Returned(p)'
    BY <2>1, <2>2 DEF Returned
  <2> QED BY <2>1, <2>3 DEF StopIInv, Proto
<1> QED
  BY <1>1, <1>2, <1>3, <1>4, <1>5, <1>6, <1>7, <1>8, ZenonT(30)
     DEF Next, dnsVars, TakeOver, Release, Forget

(* The server is started whole and, unless Stop says otherwise by an error *)
(* for the one or the other of its two halves, stopped whole: in any       *)
(* interleaving of Start, of the goroutines that serve, of Stop and of the *)
(* questions.                                                              *)
THEOREM DnsStartsAndStopsWhole == DnsSpec => []StartsAndStopsWhole
<1>1. Init => StopIInv
  BY DEF Init, StopIInv
<1>2. StopIInv => StartsAndStopsWhole
  BY DEF StopIInv, StartsAndStopsWhole, Returned, Proto
<1>3. DnsSpec => Init /\ [][Next]_dnsVars
  BY PTL DEF DnsSpec
<1> QED BY <1>1, <1>2, <1>3, LocalInvariant, StopNextInv, PTL

-----------------------------------------------------------------------------
(* Which questions fail *)

Trying == {"try", "lookup", "exchange"}

(* A server before the i-th takes its time. *)
Delayed(i) == \E j \in DOMAIN Servers : j < i /\ health[Servers[j]] \in {"slow", "hang"}

(* The servers before the n-th do not answer or come after such a one. *)
PassedBefore(n) == \A i \in DOMAIN Servers : i < n /\ health[Servers[i]] = "up" => Delayed(i)

(* Why a question may fail. *)
FailureDue == \A i \in DOMAIN Servers : health[Servers[i]] = "up" => Delayed(i)

(* How a handler without a loop may stand. *)
FairlyTried(hd) ==
    /\ hd.pc \in Trying => hd.i \in DOMAIN Servers
    /\ hd.pc = "lookup" => Servers[hd.i] \in conf.named
    /\ LoopFree /\ hd.pc \in Trying => PassedBefore(hd.i)
    /\ LoopFree /\ hd.reply = "servfail" => FailureDue

(* Without a loop no handler of our own ever begins, so nobody fails       *)
(* because somebody else's lookup did.                                     *)
FailIInv ==
    /\ conf \in Configs
    /\ taken => conf.strategy = "system"
    /\ \A h \in Handler : FairlyTried(handler[h])
    /\ LoopFree => \A s \in ByName : handler[s] = Waiting

(* The server positions are 1 to Len(Servers). *)
LEMMA ServerPositions ==
    /\ Len(Servers) \in Nat \ {0}
    /\ DOMAIN Servers = 1..Len(Servers)
BY DnsAssumption

(* A handler that goes on as it may keeps the invariant. *)
LEMMA TriedOn ==
    ASSUME LocalIInv, FailIInv, NEW h \in Handler, NEW hd \in HandlerState, FairlyTried(hd),
           handler' = [handler EXCEPT ![h] = hd], UNCHANGED <<conf, taken, health>>,
           LoopFree => h \notin ByName
    PROVE  FailIInv'
<1>0. LoopFree' = LoopFree
  BY Zenon DEF LoopFree
<1>1. \A k \in HandlerState : FairlyTried(k) => FairlyTried(k)'
  BY <1>0 DEF FairlyTried, PassedBefore, FailureDue, Delayed
<1>2. \A g \in Handler : handler'[g] \in {handler[g], hd}
  BY DEF LocalIInv
<1>3. \A g \in Handler : FairlyTried(handler'[g])
  BY <1>2 DEF FailIInv
<1>4. \A g \in Handler : handler'[g] \in HandlerState
  BY <1>2, Zenon DEF LocalIInv
<1>5. (\A g \in Handler : FairlyTried(handler[g]))'
  <2> SUFFICES ASSUME NEW g \in Handler PROVE FairlyTried(handler[g])'
    OBVIOUS
  <2>1. PICK k \in HandlerState : k = handler'[g]
    BY <1>4
  <2>2. FairlyTried(k)'
    BY <1>1, <1>3, <2>1, Zenon
  <2> QED BY <2>1, <2>2 DEF FairlyTried
<1>6. LoopFree => \A s \in ByName : handler'[s] = Waiting
  BY DEF LocalIInv, FailIInv, Handler
<1> QED BY <1>0, <1>5, <1>6, Zenon DEF FailIInv

(* Forward goes past a server that fails with an error, and fails after    *)
(* the last.                                                               *)
LEMMA TriedPast ==
    ASSUME NEW hd \in HandlerState, FairlyTried(hd), hd.pc \in Trying,
           LoopFree => health[Servers[hd.i]] # "up"
    PROVE  FairlyTried(AfterError(hd))
<1>0. hd.i \in 1..Len(Servers) /\ hd.i \in Nat /\ Len(Servers) \in Nat
  BY ServerPositions DEF FairlyTried
<1>1. LoopFree => \A j \in 1..hd.i : health[Servers[j]] = "up" => Delayed(j)
  BY <1>0, ServerPositions DEF FairlyTried, PassedBefore
<1>2. CASE hd.i < Len(Servers)
  <2> DEFINE t == [hd EXCEPT !.pc = "try", !.i = hd.i + 1]
  <2>1. AfterError(hd) = t
    BY <1>2 DEF AfterError
  <2>2. t.pc = "try" /\ t.i = hd.i + 1 /\ t.reply = hd.reply
    BY DEF HandlerState
  <2> HIDE DEF t
  <2>3. t.i \in DOMAIN Servers /\ (LoopFree => PassedBefore(t.i))
    BY <1>0, <1>1, <1>2, <2>2, ServerPositions, SMTT(30) DEF PassedBefore
  <2>4. FairlyTried(t)
    BY <2>2, <2>3, Zenon DEF FairlyTried, Trying
  <2> QED BY <2>1, <2>4
<1>3. CASE ~(hd.i < Len(Servers))
  <2> DEFINE t == [hd EXCEPT !.pc = "idle", !.i = 1, !.reply = "servfail"]
  <2>1. AfterError(hd) = t
    BY <1>3 DEF AfterError
  <2>2. t.pc = "idle" /\ t.reply = "servfail"
    BY DEF HandlerState
  <2> HIDE DEF t
  <2>3. LoopFree => FailureDue
    BY <1>0, <1>1, <1>3, ServerPositions, SMTT(30) DEF FailureDue
  <2>4. FairlyTried(t)
    BY <2>2, <2>3 DEF FairlyTried, Trying
  <2> QED BY <2>1, <2>4
<1> QED BY <1>2, <1>3

(* The time that all the servers share was spent on the j-th. *)
LEMMA TimeSpent ==
    ASSUME NEW n \in DOMAIN Servers, PassedBefore(n), NEW j \in DOMAIN Servers, j <= n,
           health[Servers[j]] \in {"slow", "hang"}
    PROVE  FailureDue
<1> SUFFICES ASSUME NEW i \in DOMAIN Servers, health[Servers[i]] = "up" PROVE Delayed(i)
  BY Zenon DEF FailureDue
<1>1. CASE i < n
  BY <1>1, Zenon DEF PassedBefore
<1>2. CASE ~(i < n)
  <2>1. j # i /\ j < i
    BY <1>2, ServerPositions
  <2> QED BY <2>1 DEF Delayed
<1> QED BY <1>1, <1>2

(* A handler that goes on to pc with its server, and one that replies. *)
LEMMA TriedTo ==
    ASSUME NEW hd \in HandlerState, FairlyTried(hd), NEW pc,
           pc \in Trying => hd.pc \in Trying,
           pc = "lookup" => Servers[hd.i] \in conf.named
    PROVE  FairlyTried([hd EXCEPT !.pc = pc])
<1> DEFINE t == [hd EXCEPT !.pc = pc]
<1>1. t.pc = pc /\ t.i = hd.i /\ t.reply = hd.reply
  BY DEF HandlerState
<1> HIDE DEF t
<1>2. FairlyTried(t)
  BY <1>1 DEF FairlyTried
<1> QED BY <1>2 DEF t

LEMMA TriedReply ==
    ASSUME NEW hd \in HandlerState, NEW r, r = "servfail" /\ LoopFree => FailureDue
    PROVE  FairlyTried([hd EXCEPT !.pc = "idle", !.i = 1, !.reply = r])
<1> DEFINE t == [hd EXCEPT !.pc = "idle", !.i = 1, !.reply = r]
<1>1. t.pc = "idle" /\ t.reply = r
  BY DEF HandlerState
<1> HIDE DEF t
<1>2. FairlyTried(t)
  BY <1>1 DEF FairlyTried, Trying
<1> QED BY <1>2 DEF t

(* The steps of ServeDNS. *)
LEMMA FailHandlerSteps ==
    ASSUME LocalIInv, FailIInv, NEW h \in Handler, HandlerStep(h)
    PROVE  FailIInv'
<1> DEFINE hd == handler[h]
           s == Servers[hd.i]
<1>0. hd \in HandlerState /\ FairlyTried(hd) /\ StateAllowed(hd)
  BY SMTT(30) DEF LocalIInv, FailIInv
<1>1. hd.pc # "idle"
  BY Zenon DEF HandlerStep, Handle, GetCache, Try, LookupOutside, LookupHere, LookupFails, ExchangeOk,
         ExchangeFails, Timeout
<1>2. LoopFree => h \notin ByName
  BY <1>1 DEF FailIInv, Waiting
<1>3. UNCHANGED <<conf, taken, health>>
  BY Zenon DEF HandlerStep, Handle, GetCache, Try, LookupOutside, LookupHere, LookupFails, ExchangeOk,
         ExchangeFails, Timeout, Step
<1>4. ASSUME NEW t \in HandlerState, FairlyTried(t), handler' = [handler EXCEPT ![h] = t]
      PROVE  FailIInv'
  BY <1>2, <1>3, <1>4, TriedOn, Zenon
<1>5. CASE Handle(h)
  <2>1. CASE hd.q.name \in TargetName /\ ~ShouldForwardTarget(hd.q)
    <3> DEFINE r == TargetReply(hd.q)
               t == [hd EXCEPT !.pc = "idle", !.i = 1, !.reply = r]
    <3>1. handler' = [handler EXCEPT ![h] = t]
      BY <1>5, <2>1 DEF Handle, Step, Answer
    <3>2. r \in {"mapped", "empty"}
      BY DEF TargetReply
    <3> HIDE DEF hd, r
    <3>3. t \in HandlerState
      BY <1>0, <3>2, Replied, ZenonT(30) DEF Upstream
    <3>4. FairlyTried(t)
      BY <1>0, <3>2, TriedReply, Zenon
    <3> QED BY <1>4, <3>1, <3>3, <3>4, ZenonT(30)
  <2>2. CASE ~(hd.q.name \in TargetName /\ ~ShouldForwardTarget(hd.q))
    <3> DEFINE t == [hd EXCEPT !.pc = "cache"]
    <3>1. handler' = [handler EXCEPT ![h] = t]
      BY <1>5, <2>2 DEF Handle, Step
    <3> HIDE DEF hd
    <3>2. t \in HandlerState
      BY <1>0 DEF HandlerState, Forwarding
    <3>3. FairlyTried(t)
      BY <1>0, TriedTo DEF Trying
    <3> QED BY <1>4, <3>1, <3>2, <3>3, Zenon
  <2> QED BY <2>1, <2>2
<1>6. CASE GetCache(h)
  <2>1. CASE handler' = [handler EXCEPT ![h] = [hd EXCEPT !.pc = "idle", !.i = 1, !.reply = "cached"]]
    <3> HIDE DEF hd
    <3> DEFINE t == [hd EXCEPT !.pc = "idle", !.i = 1, !.reply = "cached"]
    <3>1. t \in HandlerState
      BY <1>0, Zenon DEF HandlerState, Upstream
    <3>2. FairlyTried(t)
      BY <1>0, TriedReply, Zenon
    <3> QED BY <1>4, <2>1, <3>1, <3>2, Zenon
  <2>2. CASE handler' = [handler EXCEPT ![h] = [hd EXCEPT !.pc = "try", !.i = 1]]
    <3>0. hd.pc = "cache"
      BY <1>6 DEF GetCache
    <3>a. MayForward(hd.q)
      BY <1>0, <3>0 DEF StateAllowed, Forwarding
    <3> HIDE DEF hd
    <3> DEFINE t == [hd EXCEPT !.pc = "try", !.i = 1]
    <3>1. t \in HandlerState
      BY <1>0, <3>a, Tries, Zenon
    <3>2. t.pc = "try" /\ t.i = 1 /\ t.reply = hd.reply
      BY <1>0, Zenon DEF HandlerState
    <3> HIDE DEF t
    <3>3. FairlyTried(t)
      BY <1>0, <3>2, ServerPositions DEF FairlyTried, PassedBefore
    <3> QED BY <1>4, <2>2, <3>1, <3>3, ZenonT(30) DEF t
  <2> QED BY <1>6, <2>1, <2>2, Zenon DEF GetCache, Step, Answer
<1>7. CASE Try(h)
  <2>1. PICK pc \in {"lookup", "exchange"} :
            /\ handler' = [handler EXCEPT ![h] = [hd EXCEPT !.pc = pc]]
            /\ pc = "lookup" => s \in conf.named
    BY <1>7, Zenon DEF Try, Step
  <2>2. hd.pc \in Trying
    BY <1>7 DEF Try, Trying
  <2> HIDE DEF hd
  <2> DEFINE t == [hd EXCEPT !.pc = pc]
  <2>3. t \in HandlerState
    BY <1>0 DEF HandlerState, Forwarding
  <2>4. FairlyTried(t)
    BY <1>0, <2>1, <2>2, TriedTo, Zenon
  <2> QED BY <1>4, <2>1, <2>3, <2>4, Zenon
<1>8. CASE LookupOutside(h)
  <2>1. handler' = [handler EXCEPT ![h] = [hd EXCEPT !.pc = "exchange"]] /\ hd.pc \in Trying
    BY <1>8 DEF LookupOutside, Trying
  <2> HIDE DEF hd
  <2> DEFINE t == [hd EXCEPT !.pc = "exchange"]
  <2>2. t \in HandlerState
    BY <1>0 DEF HandlerState, Forwarding
  <2>3. FairlyTried(t)
    BY <1>0, <2>1, TriedTo
  <2> QED BY <1>4, <2>1, <2>2, <2>3, Zenon
<1>9. CASE LookupHere(h)
  <2> DEFINE t == [Waiting EXCEPT !.pc = "match", !.q = [name |-> s, type |-> "A"]]
  <2>1. handler' = [handler EXCEPT ![s] = t] /\ taken /\ hd.pc = "lookup"
    BY <1>9, Zenon DEF LookupHere, Step
  <2>2. s \in conf.named /\ conf.strategy = "system"
    BY <1>0, <2>1 DEF FairlyTried, FailIInv
  <2>3. ~LoopFree
    BY <2>2 DEF LoopFree
  <2>4. s \in Handler
    BY <2>2, DnsAssumption DEF FailIInv, Handler
  <2>5. t \in HandlerState /\ t.pc = "match" /\ t.reply = "none"
    BY <2>4, Zenon DEF Waiting, HandlerState, Question
  <2> HIDE DEF t, s
  <2>6. FairlyTried(t)
    BY <2>5 DEF FairlyTried, Trying
  <2> QED BY <1>3, <2>1, <2>3, <2>4, <2>5, <2>6, TriedOn, Zenon
<1>10. ASSUME NEW keep \in BOOLEAN, ExchangeOk(h, keep) PROVE FailIInv'
  <2> DEFINE t == [hd EXCEPT !.pc = "idle", !.i = 1, !.reply = "forwarded"]
  <2>1. handler' = [handler EXCEPT ![h] = t]
    BY <1>10 DEF ExchangeOk, Answer
  <2> HIDE DEF hd
  <2>2. t \in HandlerState
    BY <1>0, Zenon DEF HandlerState, Upstream
  <2>3. FairlyTried(t)
    BY <1>0, TriedReply, Zenon
  <2> QED BY <1>4, <2>1, <2>2, <2>3, Zenon
<1>11. CASE ExchangeFails(h)
  <2>1. handler' = [handler EXCEPT ![h] = AfterError(hd)] /\ health[s] # "up"
        /\ hd.pc = "exchange"
    BY <1>11, Zenon DEF ExchangeFails, Step
  <2>2. MayForward(hd.q) /\ hd.pc \in Trying
    BY <1>0, <2>1, Zenon DEF StateAllowed, Forwarding, Trying
  <2> HIDE DEF hd
  <2>3. AfterError(hd) \in HandlerState
    BY <1>0, <2>2, AfterErrorAllowed, Zenon
  <2>4. FairlyTried(AfterError(hd))
    BY <1>0, <2>1, <2>2, TriedPast, Zenon
  <2> QED BY <1>4, <2>1, <2>3, <2>4, ZenonT(30)
<1>12. CASE Timeout(h)
  <2> DEFINE t == [hd EXCEPT !.pc = "idle", !.i = 1, !.reply = "servfail"]
  <2>1. handler' = [handler EXCEPT ![h] = t]
    BY <1>12, Zenon DEF Timeout, Step, Answer
  <2>a. hd.pc \in {"exchange", "lookup"} /\ hd.i \in DOMAIN Servers
        /\ (LoopFree => PassedBefore(hd.i))
    <3>1. hd.pc \in {"exchange", "lookup"}
      BY <1>12, Zenon DEF Timeout
    <3> QED BY <1>0, <3>1 DEF FairlyTried, Trying
  <2>2. ASSUME TookTime(h) PROVE LoopFree => FailureDue
    <3>1. PICK j \in DOMAIN Servers : j <= hd.i /\ health[Servers[j]] = "slow"
      BY <2>2, Zenon DEF TookTime
    <3> QED BY <2>a, <3>1, TimeSpent, Zenon
  <2>3. ASSUME h \in Stuck PROVE LoopFree => FailureDue
    <3>1. PICK S \in SUBSET Handler :
              /\ h \in S
              /\ \A g \in S : LET u == Servers[handler[g].i]
                              IN  \/ handler[g].pc = "exchange" /\ health[u] = "hang"
                                  \/ handler[g].pc = "lookup" /\ u \in S
      BY <2>3, Zenon DEF Stuck
    <3>2. LoopFree => hd.pc # "lookup"
      <4> SUFFICES ASSUME LoopFree, hd.pc = "lookup" PROVE FALSE
        OBVIOUS
      <4>1. s \in ByName
        BY <1>0, DnsAssumption, Zenon DEF FairlyTried, FailIInv
      <4>2. s \in S
        BY <3>1, Zenon
      <4>3. handler[s] = Waiting /\ Waiting.pc = "idle"
        BY <4>1, Zenon DEF FailIInv, Waiting
      <4>4. handler[s].pc = "idle"
        BY <4>3, Zenon
      <4> QED BY <3>1, <4>2, <4>4, Zenon
    <3>3. LoopFree => health[s] = "hang"
      BY <2>a, <3>1, <3>2, Zenon
    <3>4. hd.i <= hd.i
      BY <2>a, ServerPositions
    <3> QED BY <2>a, <3>3, <3>4, TimeSpent, Zenon
  <2>6. LoopFree => FailureDue
    BY <1>12, <2>2, <2>3, Zenon DEF Timeout
  <2> HIDE DEF hd
  <2>7. t \in HandlerState
    BY <1>0, Zenon DEF HandlerState, Upstream
  <2>8. FairlyTried(t)
    BY <1>0, <2>6, TriedReply, Zenon
  <2> QED BY <1>4, <2>1, <2>7, <2>8, Zenon
<1>13. CASE LookupFails(h)
  <2>1. handler' = [handler EXCEPT ![h] = AfterError(hd)] /\ taken /\ hd.pc = "lookup"
    BY <1>13, Zenon DEF LookupFails, Step
  <2>2. s \in conf.named /\ conf.strategy = "system"
    BY <1>0, <2>1 DEF FairlyTried, FailIInv
  <2>3. ~LoopFree
    BY <2>2 DEF LoopFree
  <2>4. MayForward(hd.q) /\ hd.pc \in Trying
    BY <1>0, <2>1, Zenon DEF StateAllowed, Forwarding, Trying
  <2> HIDE DEF hd
  <2>5. AfterError(hd) \in HandlerState
    BY <1>0, <2>4, AfterErrorAllowed, Zenon
  <2>6. FairlyTried(AfterError(hd))
    BY <1>0, <2>3, <2>4, TriedPast, Zenon
  <2> QED BY <1>4, <2>1, <2>5, <2>6, ZenonT(30)
<1> QED BY <1>5, <1>6, <1>7, <1>8, <1>9, <1>10, <1>11, <1>12, <1>13, ZenonT(30) DEF HandlerStep

(* Without a loop a lookup never fails, since nobody answers it here. *)
LEMMA FailLookupSteps ==
    ASSUME LocalIInv, LocalIInv', FailIInv, NEW s \in ByName, LookupDone(s)
    PROVE  FailIInv'
<1> DEFINE good == /\ handler[s].reply \in {"cached", "forwarded"}
                   /\ ProtoOf[s] = "udp" => sock["udp"] # "closed"
<1>1. handler' = Woken(s, good) /\ handler[s].reply # "none"
  BY DEF LookupDone
<1>2. UNCHANGED <<conf, taken, health>>
  BY Zenon DEF LookupDone
<1>3. ~LoopFree
  BY <1>1, SMTT(30) DEF FailIInv, Waiting
<1> HIDE DEF good
<1>4. ASSUME NEW h \in Handler PROVE FairlyTried(handler[h])'
  <2> DEFINE hd == handler[h]
  <2>0. hd \in HandlerState /\ FairlyTried(hd)
    BY Zenon DEF LocalIInv, FailIInv
  <2>1. CASE hd.pc = "lookup" /\ Servers[hd.i] = s
    <3>1. handler'[h] = IF good THEN [hd EXCEPT !.pc = "exchange"] ELSE AfterError(hd)
      BY <1>1, <2>1, Zenon DEF Woken
    <3>2. hd.pc \in Trying
      BY <2>1 DEF Trying
    <3> HIDE DEF hd
    <3>3. FairlyTried([hd EXCEPT !.pc = "exchange"])
      BY <2>0, <3>2, TriedTo, Zenon
    <3>4. FairlyTried(AfterError(hd))
      BY <1>3, <2>0, <3>2, TriedPast, Zenon
    <3>5. PICK t : t = handler'[h] /\ FairlyTried(t)
      <4>1. CASE good BY <3>1, <3>3, <4>1, Zenon
      <4>2. CASE ~good BY <3>1, <3>4, <4>2, Zenon
      <4> QED BY <4>1, <4>2
    <3> QED BY <1>2, <1>3, <3>5, Zenon DEF FairlyTried, LoopFree
  <2>2. CASE ~(hd.pc = "lookup" /\ Servers[hd.i] = s)
    <3>1. handler'[h] \in {hd, Waiting}
      BY <1>1, <2>2, Zenon DEF Woken
    <3>2. FairlyTried(Waiting)
      BY DEF Waiting, FairlyTried, Trying
    <3>3. PICK t : t = handler'[h] /\ FairlyTried(t)
      BY <2>0, <3>1, <3>2, Zenon
    <3> QED BY <1>2, <1>3, <3>3 DEF FairlyTried, LoopFree
  <2> QED BY <2>1, <2>2, SMTT(30)
<1> QED BY <1>2, <1>3, <1>4, Zenon DEF FailIInv, LoopFree

(* A client's question starts without a server. *)
LEMMA FailReceiveSteps ==
    ASSUME LocalIInv, FailIInv, NEW h \in Slot, NEW q \in Asked, Receive(h, q)
    PROVE  FailIInv'
<1> DEFINE t == [Waiting EXCEPT !.pc = "match", !.q = q]
<1>1. /\ handler' = [handler EXCEPT ![h] = t] /\ h \in Handler /\ h \notin ByName
      /\ UNCHANGED <<conf, taken, health>>
  BY DnsAssumption DEF Receive, Step, Handler
<1>2. t \in HandlerState /\ t.pc = "match" /\ t.reply = "none"
  BY Zenon DEF Waiting, HandlerState, Question
<1> HIDE DEF t
<1>3. FairlyTried(t)
  BY <1>2, Zenon DEF FairlyTried, Trying
<1> QED BY <1>1, <1>2, <1>3, TriedOn, Zenon

(* FailIInv is inductive, given the types of LocalIInv. *)
LEMMA FailNextInv ==
    ASSUME LocalIInv, LocalIInv', FailIInv, [Next]_dnsVars
    PROVE  FailIInv'
<1>0. ASSUME UNCHANGED <<conf, health, handler>>, taken' => taken \/ conf.strategy = "system"
      PROVE  FailIInv'
  <2>1. LoopFree' = LoopFree
    BY <1>0, Zenon DEF LoopFree
  <2>2. \A h \in Handler : FairlyTried(handler[h])'
    BY <1>0, <2>1 DEF FailIInv, FairlyTried, PassedBefore, FailureDue, Delayed
  <2> QED BY <1>0, <2>1, <2>2, Zenon DEF FailIInv
<1>1. CASE UNCHANGED <<conf, health, handler, taken>>
  BY <1>0, <1>1, Zenon
<1>2. CASE TakeOver \/ Release
  BY <1>0, <1>2, Zenon DEF TakeOver, Release
<1>3. CASE \E h \in Slot, q \in Asked : Receive(h, q)
  BY <1>3, FailReceiveSteps, Zenon
<1>4. CASE \E h \in Handler : HandlerStep(h)
  BY <1>4, FailHandlerSteps, Zenon
<1>5. CASE \E s \in ByName : LookupDone(s)
  BY <1>5, FailLookupSteps, Zenon
<1> QED
  BY <1>1, <1>2, <1>3, <1>4, <1>5, Zenon
     DEF Next, dnsVars, ListenFirst, ListenSecond, Activate, StopServer, Shutdown, Drain, Forget

(* Without a loop, a question fails only if every server that is up comes  *)
(* after one that is slow or hangs: for any number of servers and of       *)
(* questions at the same time.                                             *)
THEOREM DnsFailsOnlyIfServersDo == DnsSpec => []FailsOnlyIfServersDo
<1>1. Init => FailIInv
  <2> SUFFICES ASSUME Init PROVE FailIInv
    OBVIOUS
  <2>1. FairlyTried(Waiting)
    BY DEF Waiting, FairlyTried, Trying
  <2>2. \A h \in Handler : handler[h] = Waiting
    BY Zenon DEF Init
  <2> QED BY <2>1, <2>2 DEF Init, FailIInv, Handler
<1>2. FailIInv => FailsOnlyIfServersDo
  <2> SUFFICES ASSUME FailIInv, LoopFree, NEW h \in Slot, handler[h].reply = "servfail"
               PROVE  FailureDue
    BY Zenon DEF FailsOnlyIfServersDo, FailureDue, Delayed
  <2> QED BY Zenon DEF FailIInv, FairlyTried, Handler
<1>3. DnsSpec => Init /\ [][Next]_dnsVars
  BY PTL DEF DnsSpec
<1> QED BY <1>1, <1>2, <1>3, LocalInvariant, FailNextInv, PTL

-----------------------------------------------------------------------------
(* DnsCache *)

TTL == 0..Uint32 - 1

(* responseTTL is at most cache_ttl and at most the TTL of each record. *)
LEMMA ResponseTTLBounds ==
    ASSUME NEW ttls \in Seq(TTL)
    PROVE  /\ ResponseTTL(ttls) \in Nat
           /\ ResponseTTL(ttls) <= AnswerCacheTTL
           /\ \A i \in DOMAIN ttls : ResponseTTL(ttls) <= ttls[i] * Second
<1>0. AnswerCacheTTL \in Nat /\ Second \in Nat /\ TTL \subseteq Nat
  BY CacheAssumption DEF TTL
<1>1. CASE ttls = <<>>
  BY <1>0, <1>1 DEF ResponseTTL
<1>2. CASE ttls # <<>>
  <2> DEFINE least == CHOOSE t \in Range(ttls) : \A u \in Range(ttls) : t <= u
  <2>1. Range(ttls) \subseteq Nat /\ Range(ttls) # {}
    <3>1. 1 \in DOMAIN ttls /\ \A i \in DOMAIN ttls : ttls[i] \in Nat
      <4>1. Len(ttls) # 0
        BY <1>2
      <4>2. DOMAIN ttls = 1..Len(ttls) /\ Len(ttls) \in Nat
        OBVIOUS
      <4>3. \A i \in DOMAIN ttls : ttls[i] \in TTL
        OBVIOUS
      <4>4. 1 \in DOMAIN ttls
        BY <4>1, <4>2
      <4>5. \A i \in DOMAIN ttls : ttls[i] \in Nat
        BY <1>0, <4>3, Zenon
      <4> QED BY <4>4, <4>5
    <3> QED BY <3>1 DEF Range
  <2>2. least \in Range(ttls) /\ \A u \in Range(ttls) : least <= u
    BY <2>1, LeastExists
  <2>3. least \in Nat /\ \A i \in DOMAIN ttls : ttls[i] \in Nat /\ least <= ttls[i]
    BY <2>1, <2>2, Zenon DEF Range
  <2>4. ResponseTTL(ttls) = IF least * Second > AnswerCacheTTL THEN AnswerCacheTTL ELSE least * Second
    BY <1>2 DEF ResponseTTL
  <2> HIDE DEF least
  <2>5. least * Second \in Nat
    BY <1>0, <2>3
  <2>6. ASSUME NEW i \in DOMAIN ttls PROVE least * Second <= ttls[i] * Second
    BY <1>0, <2>3, Multiples, Zenon
  <2>7. /\ ResponseTTL(ttls) \in Nat /\ ResponseTTL(ttls) <= AnswerCacheTTL
        /\ ResponseTTL(ttls) <= least * Second
    BY <1>0, <2>4, <2>5, Lesser, Zenon
  <2>8. ASSUME NEW i \in DOMAIN ttls PROVE ResponseTTL(ttls) <= ttls[i] * Second
    <3>1. ttls[i] * Second \in Nat
      BY <1>0, <2>3
    <3> QED BY <2>5, <2>6, <2>7, <3>1, AtMost, Zenon
  <2> QED BY <2>7, <2>8, Zenon
<1> QED BY <1>1, <1>2

(* Seconds is the whole seconds left, or less, and none if less than one   *)
(* second has passed since the expiry.                                     *)
LEMMA SecondsBounds ==
    ASSUME NEW d \in Int, -d < Second
    PROVE  /\ Seconds(d) \in Nat
           /\ Seconds(d) > 0 => Seconds(d) * Second <= d
<1>0. Second \in Nat \ {0} /\ Uint32 \in Nat \ {0}
  BY CacheAssumption, Zenon
<1>1. CASE d >= 0
  <2> DEFINE n == d \div Second
  <2>1. n \in Nat /\ n * Second <= d
    BY <1>0, <1>1
  <2>2. Seconds(d) = n % Uint32
    BY <1>1 DEF Seconds
  <2> HIDE DEF n
  <2>3. n % Uint32 \in Nat /\ n % Uint32 <= n
    BY <1>0, <2>1
  <2>4. (n % Uint32) * Second <= n * Second
    BY <1>0, <2>1, <2>3, Multiples, Zenon
  <2>5. (n % Uint32) * Second \in Nat /\ n * Second \in Nat
    BY <1>0, <2>1, <2>3, Products, Zenon
  <2> QED BY <2>1, <2>2, <2>3, <2>4, <2>5, AtMostInt, Zenon
<1>2. CASE d < 0
  <2>1. (-d) \div Second = 0
    BY <1>0, <1>2, SMTT(30)
  <2>2. Seconds(d) = (-0) % Uint32
    BY <1>2, <2>1 DEF Seconds
  <2>3. Seconds(d) = 0
    BY <1>0, <2>2, NoRest, Zenon
  <2> QED BY <2>3
<1> QED BY <1>1, <1>2

-----------------------------------------------------------------------------
Entry == [ttls : Seq(TTL), born : Nat, expires : Nat]

AskerState ==
    [pc : {"idle", "get", "cap", "fetch", "put", "given"}, cached : Entry,
     at : Nat, given : Seq(Nat)]

CacheTypes ==
    /\ clock \in Nat
    /\ cached \in Entry
    /\ asking \in [Asker -> AskerState]

(* An entry expires no later than each of its records, and than cache_ttl, *)
(* counted from when putCache stored it, which is soon after it came.      *)
Sound(e) ==
    /\ e.born <= clock
    /\ e.expires <= e.born + MaxPause + AnswerCacheTTL
    /\ \A i \in DOMAIN e.ttls : e.expires <= e.born + MaxPause + e.ttls[i] * Second

(* What a handler holds at each of its steps. *)
AskerPhase(c) ==
    LET a == asking[c]
    IN  /\ a.at <= clock
        /\ a.pc \in {"get", "cap", "put"} => clock - a.at <= MaxPause
        /\ a.pc = "cap" => Sound(a.cached) /\ a.at < a.cached.expires
        /\ a.pc = "put" => a.cached.born = a.at /\ a.cached.ttls = a.given
        /\ a.pc = "given" =>
              /\ DOMAIN a.given = DOMAIN a.cached.ttls
              /\ \A i \in DOMAIN a.given : a.given[i] > 0 =>
                    clock + a.given[i] * Second <= a.cached.born + a.cached.ttls[i] * Second + MaxPause
              /\ clock - a.cached.born < AnswerCacheTTL + 2 * MaxPause

CacheIInv ==
    /\ CacheTypes
    /\ Sound(cached)
    /\ \A c \in Asker : AskerPhase(c)

LEMMA NothingCached ==
    /\ NoEntry \in Entry /\ NoEntry.born = 0 /\ NoEntry.expires = 0 /\ DOMAIN NoEntry.ttls = {}
    /\ NoAsking \in AskerState /\ NoAsking.pc = "idle" /\ NoAsking.at = 0
<1>1. <<>> \in Seq(TTL) /\ <<>> \in Seq(Nat) /\ 0 \in Nat /\ DOMAIN <<>> = {}
  OBVIOUS
<1>2. /\ NoEntry \in Entry /\ NoEntry.born = 0 /\ NoEntry.expires = 0 /\ NoEntry.ttls = <<>>
  BY <1>1, Zenon DEF NoEntry, Entry
<1>3. NoAsking \in AskerState /\ NoAsking.pc = "idle" /\ NoAsking.at = 0
  BY <1>1, <1>2, Zenon DEF NoAsking, AskerState
<1> QED BY <1>1, <1>2, <1>3, Zenon

(* Initially nothing is cached. *)
LEMMA CacheInitial == CacheInit => CacheIInv
BY CacheAssumption
   DEF CacheInit, CacheIInv, CacheTypes, Sound, AskerPhase, Entry, AskerState, NoEntry, NoAsking

(* The step of one handler, from its new state. *)
LEMMA StepOfAsker ==
    ASSUME CacheIInv, NEW c \in Asker, NEW a \in AskerState,
           asking' = [asking EXCEPT ![c] = a], clock' = clock, cached' \in Entry, Sound(cached)',
           AskerPhase(c)'
    PROVE  CacheIInv'
<1>1. CacheTypes'
  BY DEF CacheIInv, CacheTypes
<1>2. ASSUME NEW d \in Asker, d # c PROVE AskerPhase(d)'
  <2>1. asking'[d] = asking[d]
    BY <1>2, Zenon DEF CacheIInv, CacheTypes
  <2>2. AskerPhase(d)
    BY DEF CacheIInv
  <2> QED BY <2>1, <2>2, Zenon DEF AskerPhase, Sound
<1> QED BY <1>1, <1>2, Zenon DEF CacheIInv

(* Time passes while every handler is within its pause and none has an     *)
(* answer in hand.                                                         *)
LEMMA TickStep ==
    ASSUME CacheIInv, ClockTick
    PROVE  CacheIInv'
<1>0. MaxPause \in Nat /\ AnswerCacheTTL \in Nat /\ clock \in Nat /\ clock' = clock + 1
  BY CacheAssumption, Zenon DEF CacheIInv, CacheTypes, ClockTick
<1>1. CacheTypes'
  BY <1>0 DEF CacheIInv, CacheTypes, ClockTick
<1>2. ASSUME NEW e \in Entry, Sound(e) PROVE Sound(e)'
  <2>1. e.born \in Nat /\ e.born <= clock
    BY <1>2, Zenon DEF Sound, Entry
  <2>2. e.born <= clock'
    BY <1>0, <2>1, StillPast, Zenon
  <2> QED BY <1>2, <2>2, Zenon DEF Sound
<1>3. Sound(cached)'
  BY <1>2, SMTT(30) DEF CacheIInv, CacheTypes, ClockTick, Sound
<1>4. ASSUME NEW c \in Asker PROVE AskerPhase(c)'
  <2>1. asking' = asking /\ asking[c] \in AskerState /\ AskerPhase(c)
    BY Zenon DEF CacheIInv, CacheTypes, ClockTick
  <2>2. asking[c].pc = "cap" => Sound(asking[c].cached)'
    BY <1>2, <2>1, Zenon DEF AskerPhase, AskerState, Sound
  <2>3. asking[c].pc # "given" /\ (asking[c].pc \in {"get", "cap", "put"} => clock - asking[c].at < MaxPause)
    BY Zenon DEF ClockTick
  <2>4. asking[c].at \in Nat
    BY <2>1, Zenon DEF AskerState
  <2>5. asking[c].at <= clock'
    BY <1>0, <2>1, <2>4, StillPast, Zenon DEF AskerPhase
  <2>6. asking[c].pc \in {"get", "cap", "put"} => clock' - asking[c].at <= MaxPause
    BY <1>0, <2>3, <2>4, OneLater, Zenon
  <2>7. asking[c].pc = "cap" => asking[c].at < asking[c].cached.expires
    BY <2>1, Zenon DEF AskerPhase
  <2>8. asking[c].pc = "put" => asking[c].cached.born = asking[c].at /\ asking[c].cached.ttls = asking[c].given
    BY <2>1, Zenon DEF AskerPhase
  <2> QED BY <2>1, <2>2, <2>3, <2>5, <2>6, <2>7, <2>8, Zenon DEF AskerPhase
<1> QED BY <1>1, <1>3, <1>4, Zenon DEF CacheIInv

(* A handler at rest keeps every invariant. *)
LEMMA AtRest ==
    ASSUME CacheIInv, NEW c \in Asker, asking' = [asking EXCEPT ![c] = NoAsking],
           UNCHANGED <<clock, cached>>
    PROVE  CacheIInv'
<1>1. NoAsking \in AskerState /\ NoAsking.pc = "idle" /\ NoAsking.at = 0
  BY NothingCached, Zenon
<1>2. asking'[c] = NoAsking /\ clock \in Nat /\ clock' = clock
  BY Zenon DEF CacheIInv, CacheTypes
<1>3. AskerPhase(c)'
  <2>1. 0 <= clock
    BY <1>2
  <2> QED BY <1>1, <1>2, <2>1, Zenon DEF AskerPhase
<1>4. cached' \in Entry /\ Sound(cached)'
  BY Zenon DEF CacheIInv, CacheTypes, Sound
<1> QED BY <1>1, <1>3, <1>4, StepOfAsker, ZenonT(30)

(* getCache: the question, the lookup under the mutex. *)
LEMMA GetSteps ==
    ASSUME CacheIInv, NEW c \in Asker, Ask(c) \/ GetEntry(c)
    PROVE  CacheIInv'
<1> DEFINE a == asking[c]
<1>0. /\ MaxPause \in Nat /\ clock \in Nat /\ a \in AskerState /\ AskerPhase(c)
      /\ cached \in Entry /\ Sound(cached)
  BY CacheAssumption DEF CacheIInv, CacheTypes
<1>1. CASE Ask(c)
  <2> DEFINE new == [NoAsking EXCEPT !.pc = "get", !.at = clock]
  <2>1. new \in AskerState /\ new.pc = "get" /\ new.at = clock
    BY <1>0, NothingCached, ZenonT(30) DEF AskerState
  <2>2. asking' = [asking EXCEPT ![c] = new] /\ UNCHANGED <<clock, cached>>
    BY <1>1, Zenon DEF Ask
  <2> HIDE DEF new
  <2>3. asking'[c] = new
    BY <2>2, Zenon DEF CacheIInv, CacheTypes
  <2>4. AskerPhase(c)' /\ cached' \in Entry /\ Sound(cached)'
    <3>1. clock <= clock /\ clock - clock <= MaxPause
      BY <1>0
    <3> QED BY <1>0, <2>1, <2>2, <2>3, <3>1, Zenon DEF AskerPhase, Sound
  <2> QED BY <2>1, <2>2, <2>4, StepOfAsker, Zenon
<1>2. CASE GetEntry(c) /\ asking' = [asking EXCEPT ![c].pc = "cap", ![c].cached = cached]
           /\ a.at < cached.expires /\ UNCHANGED cached
  <2> DEFINE new == [a EXCEPT !.pc = "cap", !.cached = cached]
  <2>1. new \in AskerState /\ new.pc = "cap" /\ new.cached = cached /\ new.at = a.at
    BY <1>0, Zenon DEF AskerState
  <2>2. asking' = [asking EXCEPT ![c] = new] /\ UNCHANGED <<clock, cached>>
    BY <1>2, Zenon DEF GetEntry, CacheIInv, CacheTypes
  <2>3. a.pc = "get" /\ a.at \in Nat
    BY <1>0, <1>2, Zenon DEF GetEntry, AskerState
  <2> HIDE DEF new
  <2>4. asking'[c] = new
    BY <2>2 DEF CacheIInv, CacheTypes
  <2>5. AskerPhase(c)' /\ cached' \in Entry /\ Sound(cached)'
    BY <1>0, <1>2, <2>1, <2>2, <2>3, <2>4, Zenon DEF AskerPhase, Sound
  <2> QED BY <2>1, <2>2, <2>5, StepOfAsker, Zenon
<1>3. CASE GetEntry(c) /\ asking' = [asking EXCEPT ![c].pc = "fetch"] /\ cached' = NoEntry
  <2> DEFINE new == [a EXCEPT !.pc = "fetch"]
  <2>1. new \in AskerState /\ new.pc = "fetch" /\ new.at = a.at
    BY <1>0, Zenon DEF AskerState
  <2>2. asking' = [asking EXCEPT ![c] = new] /\ clock' = clock
    BY <1>3, Zenon DEF GetEntry, CacheIInv, CacheTypes
  <2> HIDE DEF new
  <2>3. asking'[c] = new
    BY <2>2, Zenon DEF CacheIInv, CacheTypes
  <2>4. AskerPhase(c)'
    BY <1>0, <2>1, <2>2, <2>3, Zenon DEF AskerPhase
  <2>5. cached' \in Entry /\ Sound(cached)'
    <3>1. 0 <= clock /\ 0 <= 0 + MaxPause + AnswerCacheTTL
      BY <1>0, CacheAssumption, Clocks, Zenon
    <3> QED BY <1>3, <2>2, <3>1, NothingCached, Zenon DEF Sound
  <2> QED BY <2>1, <2>2, <2>4, <2>5, StepOfAsker, Zenon
<1> QED BY <1>1, <1>2, <1>3, Zenon DEF GetEntry

(* The TTLs given at the time t for an entry that was live a pause before. *)
GivenInTime(g, ttls, born, t) ==
    /\ g \in Seq(Nat) /\ DOMAIN g = DOMAIN ttls
    /\ \A i \in DOMAIN g : g[i] > 0 => t + g[i] * Second <= born + ttls[i] * Second + MaxPause
    /\ t - born < AnswerCacheTTL + 2 * MaxPause

LEMMA CappedInTime ==
    ASSUME MaxPause <= Second, NEW t \in Nat, NEW at \in Nat, t - at <= MaxPause,
           NEW ttls \in Seq(TTL), NEW born \in Nat, NEW expires \in Nat, at < expires,
           expires <= born + MaxPause + AnswerCacheTTL,
           \A i \in DOMAIN ttls : expires <= born + MaxPause + ttls[i] * Second
    PROVE  GivenInTime(CapResponseTTL(ttls, Seconds(expires - t)), ttls, born, t)
<1> DEFINE left == Seconds(expires - t)
           g == CapResponseTTL(ttls, left)
<1>0. MaxPause \in Nat /\ Second \in Nat /\ AnswerCacheTTL \in Nat /\ TTL \subseteq Nat
  BY CacheAssumption DEF TTL
<1>1. expires - t \in Int /\ -(expires - t) < Second
  BY <1>0, SinceExpiry, Zenon
<1>2. left \in Nat /\ (left > 0 => left * Second <= expires - t)
  BY <1>1, SecondsBounds
<1> HIDE DEF left
<1>3. \A i \in DOMAIN ttls : ttls[i] \in Nat
  <2>1. \A i \in DOMAIN ttls : ttls[i] \in TTL
    OBVIOUS
  <2> QED BY <1>0, <2>1, Zenon
<1>4. PICK n \in Nat : DOMAIN ttls = 1..n
  OBVIOUS
<1>5. /\ DOMAIN g = 1..n
      /\ \A i \in 1..n : g[i] \in Nat /\ g[i] <= left
  BY <1>2, <1>3, <1>4, SMTT(30) DEF CapResponseTTL
<1>6. g \in Seq(Nat)
  <2>1. g = [i \in 1..n |-> g[i]]
    BY <1>4, Zenon DEF CapResponseTTL
  <2> HIDE DEF g
  <2>2. g \in [1..n -> Nat]
    BY <1>5, <2>1, Zenon
  <2> QED BY <2>2, SMTT(30)
<1> HIDE DEF g
<1>7. ASSUME NEW i \in 1..n, g[i] > 0
      PROVE  t + g[i] * Second <= born + ttls[i] * Second + MaxPause
  <2>1. g[i] \in Nat /\ g[i] <= left /\ ttls[i] \in Nat
    BY <1>3, <1>4, <1>5, Zenon
  <2>2. left > 0
    <3> DEFINE x == g[i]
    <3>1. x \in Nat /\ x <= left /\ x > 0
      BY <1>7, <2>1
    <3> HIDE DEF x
    <3> QED BY <1>2, <3>1
  <2>3. g[i] * Second <= left * Second
    BY <1>0, <1>2, <2>1, Multiples, Zenon
  <2>4. expires <= born + MaxPause + ttls[i] * Second
    BY <1>4
  <2>5. g[i] * Second \in Nat /\ left * Second \in Nat /\ ttls[i] * Second \in Nat
    BY <1>0, <1>2, <2>1, Products, Zenon
  <2> DEFINE x == g[i] * Second
             y == left * Second
             life == ttls[i] * Second
  <2>6. x <= y /\ y <= expires - t /\ expires <= born + MaxPause + life
    BY <1>2, <2>2, <2>3, <2>4, Zenon
  <2>7. x \in Nat /\ y \in Nat /\ life \in Nat
    BY <2>5, Zenon
  <2> HIDE DEF x, y, life
  <2>8. t + x <= born + life + MaxPause
    BY <1>0, <2>6, <2>7, Sums, ZenonT(30)
  <2> QED BY <2>8 DEF x, life
<1>8. t - born < AnswerCacheTTL + 2 * MaxPause
  BY <1>0, Sums, Zenon
<1> QED BY <1>4, <1>5, <1>6, <1>7, <1>8, Zenon DEF GivenInTime, g, left

(* The rest of getCache caps every TTL by the seconds left. *)
LEMMA GiveStep ==
    ASSUME MaxPause <= Second, CacheIInv, NEW c \in Asker, GiveCached(c)
    PROVE  CacheIInv'
<1> DEFINE a == asking[c]
           e == a.cached
           g == CapResponseTTL(e.ttls, Seconds(e.expires - clock))
           new == [a EXCEPT !.pc = "given", !.at = clock, !.given = g]
<1>0. clock \in Nat /\ a \in AskerState /\ AskerPhase(c) /\ a.pc = "cap"
  BY Zenon DEF CacheIInv, CacheTypes, GiveCached
<1>1. /\ e \in Entry /\ Sound(e) /\ a.at \in Nat /\ a.at < e.expires
      /\ clock - a.at <= MaxPause
  BY <1>0, Zenon DEF AskerPhase, AskerState
<1>2. e.born \in Nat /\ e.expires \in Nat /\ e.ttls \in Seq(TTL)
  BY <1>1, Zenon DEF Entry
<1>3. GivenInTime(g, e.ttls, e.born, clock)
  <2> DEFINE ttls == e.ttls
             born == e.born
             expires == e.expires
             at == a.at
  <2>1. /\ ttls \in Seq(TTL) /\ born \in Nat /\ expires \in Nat /\ at \in Nat /\ at < expires
        /\ clock \in Nat /\ clock - at <= MaxPause
    BY <1>0, <1>1, <1>2, ZenonT(30)
  <2>2. /\ expires <= born + MaxPause + AnswerCacheTTL
        /\ \A i \in DOMAIN ttls : expires <= born + MaxPause + ttls[i] * Second
    BY <1>1, Zenon DEF Sound
  <2> HIDE DEF ttls, born, expires, at
  <2>3. GivenInTime(CapResponseTTL(ttls, Seconds(expires - clock)), ttls, born, clock)
    BY <2>1, <2>2, CappedInTime, Zenon
  <2> QED BY <2>3, Zenon DEF ttls, born, expires
<1>4. asking' = [asking EXCEPT ![c] = new] /\ UNCHANGED <<clock, cached>>
  BY Zenon DEF GiveCached, CacheIInv, CacheTypes
<1> HIDE DEF g, e
<1>5. /\ new \in AskerState /\ new.pc = "given" /\ new.at = clock
      /\ new.cached = a.cached /\ new.given = g
  BY <1>0, <1>3, Zenon DEF AskerState, GivenInTime
<1> HIDE DEF new, a
<1>6. asking'[c] = new /\ clock' = clock
  BY <1>4 DEF CacheIInv, CacheTypes
<1>7. AskerPhase(c)'
  <2>1. /\ DOMAIN g = DOMAIN e.ttls
        /\ \A i \in DOMAIN g : g[i] > 0 => clock + g[i] * Second <= e.born + e.ttls[i] * Second + MaxPause
        /\ clock - e.born < AnswerCacheTTL + 2 * MaxPause
    BY <1>3, Zenon DEF GivenInTime
  <2>2. clock <= clock /\ new.cached = e
    <3>1. clock <= clock
      BY <1>0
    <3> QED BY <1>5, <3>1, Zenon DEF e
  <2> QED BY <1>5, <1>6, <2>1, <2>2, Zenon DEF AskerPhase
<1>8. cached' \in Entry /\ Sound(cached)'
  BY <1>4 DEF CacheIInv, CacheTypes, Sound
<1> QED BY <1>4, <1>5, <1>7, <1>8, StepOfAsker, Zenon

(* Forward returns a response. *)
LEMMA FetchStep ==
    ASSUME CacheIInv, NEW c \in Asker, NEW ttls \in Responses, Fetch(c, ttls)
    PROVE  CacheIInv'
<1> DEFINE a == asking[c]
           e == [ttls |-> ttls, born |-> clock, expires |-> clock + ResponseTTL(ttls)]
           new == [a EXCEPT !.pc = "put", !.at = clock, !.given = ttls, !.cached = e]
<1>0. MaxPause \in Nat /\ clock \in Nat /\ a \in AskerState /\ TTL \subseteq Nat
  BY CacheAssumption DEF CacheIInv, CacheTypes, TTL
<1>1. ttls \in Seq(TTL) /\ ttls \in Seq(Nat)
  <2>1. ttls \in Seq(TTL)
    BY CacheAssumption DEF TTL
  <2>2. \A i \in 1..Len(ttls) : ttls[i] \in TTL
    BY <2>1
  <2>3. \A i \in 1..Len(ttls) : ttls[i] \in Nat
    BY <1>0, <2>2, Zenon
  <2>4. ttls \in Seq(Nat)
    BY <2>1, <2>3, SMTT(30)
  <2> QED BY <2>1, <2>4, Zenon
<1>2. e \in Entry /\ e.born = clock /\ e.ttls = ttls
  <2>1. clock + ResponseTTL(ttls) \in Nat
    <3>1. ResponseTTL(ttls) \in Nat
      BY <1>1, ResponseTTLBounds, Zenon
    <3> QED BY <1>0, <3>1
  <2> QED BY <1>0, <1>1, <2>1, Zenon DEF Entry
<1>3. asking' = [asking EXCEPT ![c] = new] /\ UNCHANGED <<clock, cached>>
  BY Zenon DEF Fetch, CacheIInv, CacheTypes
<1> HIDE DEF e
<1>4. /\ new \in AskerState /\ new.pc = "put" /\ new.at = clock
      /\ new.cached = e /\ new.given = ttls
  BY <1>0, <1>1, <1>2, Zenon DEF AskerState
<1> HIDE DEF new
<1>5. asking'[c] = new
  BY <1>3, Zenon DEF CacheIInv, CacheTypes
<1>6. AskerPhase(c)'
  <2>1. clock <= clock /\ clock - clock <= MaxPause
    BY <1>0
  <2> QED BY <1>2, <1>3, <1>4, <1>5, <2>1, Zenon DEF AskerPhase
<1>7. cached' \in Entry /\ Sound(cached)'
  BY <1>3 DEF CacheIInv, CacheTypes, Sound
<1> QED BY <1>3, <1>4, <1>6, <1>7, StepOfAsker, ZenonT(30)

(* putCache, at most a pause after the response came. *)
LEMMA PutStep ==
    ASSUME CacheIInv, NEW c \in Asker, PutCache(c)
    PROVE  CacheIInv'
<1> DEFINE a == asking[c]
           e == asking[c].cached
           ttl == ResponseTTL(e.ttls)
           kept == [e EXCEPT !.expires = clock + ttl]
           new == [a EXCEPT !.pc = "given"]
<1>0. /\ MaxPause \in Nat /\ Second \in Nat /\ AnswerCacheTTL \in Nat \ {0} /\ TTL \subseteq Nat
      /\ clock \in Nat /\ a \in AskerState /\ AskerPhase(c)
  BY CacheAssumption DEF CacheIInv, CacheTypes, TTL
<1>1. /\ e \in Entry /\ e.born = a.at /\ e.ttls = a.given /\ a.at <= clock
      /\ a.at \in Nat /\ clock - a.at <= MaxPause /\ e.ttls \in Seq(TTL)
  BY <1>0, Zenon DEF PutCache, AskerPhase, AskerState, Entry
<1>2. /\ ttl \in Nat /\ ttl <= AnswerCacheTTL
      /\ \A i \in DOMAIN e.ttls : ttl <= e.ttls[i] * Second
  BY <1>1, ResponseTTLBounds, Zenon
<1>3. \A i \in DOMAIN e.ttls : e.ttls[i] \in Nat /\ e.ttls[i] * Second \in Nat
  <2>1. \A i \in DOMAIN e.ttls : e.ttls[i] \in TTL
    BY <1>1
  <2>2. \A i \in DOMAIN e.ttls : e.ttls[i] \in Nat
    BY <1>0, <2>1, Zenon
  <2> QED BY <1>0, <2>2, Products, Zenon
<1> HIDE DEF ttl
<1>4. kept \in Entry /\ kept.ttls = e.ttls /\ kept.born = e.born /\ kept.expires = clock + ttl
  <2>1. clock + ttl \in Nat
    BY <1>0, <1>2, Clocks, Zenon
  <2> HIDE DEF e
  <2> QED BY <1>1, <2>1, Zenon DEF Entry
<1>5. Sound(kept)
  <2> HIDE DEF kept, e
  <2>1. e.born \in Nat /\ clock - e.born <= MaxPause /\ e.born <= clock
    BY <1>1, Zenon
  <2>2. clock + ttl <= e.born + MaxPause + AnswerCacheTTL
    BY <1>0, <1>2, <2>1, Sums, Zenon
  <2>3. ASSUME NEW i \in DOMAIN e.ttls
        PROVE  clock + ttl <= e.born + MaxPause + e.ttls[i] * Second
    <3> DEFINE life == e.ttls[i] * Second
    <3>1. life \in Nat /\ ttl <= life
      BY <1>2, <1>3, Zenon
    <3> HIDE DEF life
    <3>2. clock + ttl <= e.born + MaxPause + life
      BY <1>0, <1>2, <2>1, <3>1, Sums, Zenon
    <3> QED BY <3>2, Zenon DEF life
  <2> QED BY <1>4, <2>1, <2>2, <2>3, Zenon DEF Sound
<1>6. cached' \in {cached, kept} /\ clock' = clock /\ asking' = [asking EXCEPT ![c] = new]
  BY DEF PutCache, CacheIInv, CacheTypes, ttl
<1>7. cached' \in Entry /\ Sound(cached)'
  <2> HIDE DEF kept
  <2> QED BY <1>4, <1>5, <1>6, Zenon DEF CacheIInv, CacheTypes, Sound
<1>8. /\ new \in AskerState /\ new.pc = "given" /\ new.at = a.at
      /\ new.cached = e /\ new.given = e.ttls
  BY <1>0, <1>1, Zenon DEF AskerState
<1> HIDE DEF new
<1>9. asking'[c] = new
  BY <1>6 DEF CacheIInv, CacheTypes
<1>10. AskerPhase(c)'
  <2> HIDE DEF e
  <2>1. e.born \in Nat /\ clock - e.born <= MaxPause
    BY <1>1, Zenon
  <2>2. ASSUME NEW i \in DOMAIN e.ttls
        PROVE  clock + e.ttls[i] * Second <= e.born + e.ttls[i] * Second + MaxPause
    <3> DEFINE life == e.ttls[i] * Second
    <3>1. life \in Nat
      BY <1>3, Zenon
    <3> HIDE DEF life
    <3>2. clock + life <= e.born + life + MaxPause
      BY <1>0, <2>1, <3>1, Sums, ZenonT(30)
    <3> QED BY <3>2, Zenon DEF life
  <2>3. clock - e.born < AnswerCacheTTL + 2 * MaxPause
    BY <1>0, <2>1
  <2> QED BY <1>0, <1>1, <1>6, <1>8, <1>9, <2>2, <2>3, ZenonT(30) DEF AskerPhase
<1> QED BY <1>6, <1>7, <1>8, <1>10, StepOfAsker, ZenonT(30)

(* The invariant of every behaviour in which no handler is held up for     *)
(* more than a second.                                                     *)
THEOREM CacheInvariant ==
    ASSUME MaxPause <= Second
    PROVE  CacheSpec => []CacheIInv
<1>1. CacheIInv /\ [CacheNext]_cacheVars => CacheIInv'
  <2> SUFFICES ASSUME CacheIInv, [CacheNext]_cacheVars PROVE CacheIInv'
    BY SMTT(30)
  <2>1. CASE UNCHANGED cacheVars
    BY <2>1, ZenonT(30) DEF cacheVars, CacheIInv, CacheTypes, Sound, AskerPhase
  <2>2. CASE ClockTick
    BY <2>2, TickStep
  <2>3. ASSUME NEW c \in Asker, Ask(c) \/ GetEntry(c) PROVE CacheIInv'
    BY <2>3, GetSteps, Zenon
  <2>4. ASSUME NEW c \in Asker, GiveCached(c) PROVE CacheIInv'
    BY <2>4, GiveStep, Zenon
  <2>5. ASSUME NEW c \in Asker, FetchFails(c) \/ Done(c) PROVE CacheIInv'
    BY <2>5, AtRest DEF FetchFails, Done
  <2>6. ASSUME NEW c \in Asker, PutCache(c) PROVE CacheIInv'
    BY <2>6, PutStep, Zenon
  <2>7. ASSUME NEW c \in Asker, NEW ttls \in Responses, Fetch(c, ttls) PROVE CacheIInv'
    BY <2>7, FetchStep, Zenon
  <2> QED BY <2>1, <2>2, <2>3, <2>4, <2>5, <2>6, <2>7, Zenon DEF CacheNext
<1> QED BY <1>1, CacheInitial, PTL DEF CacheSpec

(* With handlers held up for a second at most, no TTL handed to a client   *)
(* outlives the record it came with, for every TTL and every width of the  *)
(* integer that holds it: getCache never converts a negative number.       *)
THEOREM TTLNeverOutlives ==
    ASSUME MaxPause <= Second
    PROVE  CacheSpec => []NeverOutlives
<1>1. CacheIInv => NeverOutlives
  BY Zenon DEF CacheIInv, AskerPhase, NeverOutlives
<1> QED BY <1>1, CacheInvariant, PTL
=============================================================================
