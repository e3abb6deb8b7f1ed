----------------------------- MODULE DnsIntercept -----------------------------
(***************************************************************************)
(* The local DNS server (internal/dnsintercept): it answers for target     *)
(* hosts itself and forwards every other question to the configured        *)
(* servers, in order, within one ForwardTimeout.                           *)
(*                                                                         *)
(* In the system strategy the adapters of the machine point at this        *)
(* server.  A DoH server given by host name (the defaults are) is reached  *)
(* over a pooled connection if one is open; otherwise the HTTP transport   *)
(* asks the operating system for its address, and the operating system     *)
(* asks this server.  A handler is therefore either a client's question    *)
(* (Slot) or such a question of our own (one for each named server, since  *)
(* the Go resolver merges equal lookups).                                  *)
(*                                                                         *)
(* Time is left out: a timeout happens when nothing else can, DnsCache     *)
(* models the ages of cached answers.                                      *)
(***************************************************************************)
EXTENDS Naturals, Sequences, FiniteSets, Functions

CONSTANTS
    Slot,           \* concurrent client questions
    ProtoOf,        \* ProtoOf[h]: the socket the questions of h come through
    Servers,        \* RawForwarder.servers, a sequence
    ByName,         \* the servers that may be given by host name
    Configs,        \* [strategy: dns.strategy, anyPort: dns.listen_addr has port
                    \*  0, named: the servers that are given by host name]
    Healths,        \* how the servers may behave
    TargetName,     \* the names the matcher takes for targets
    Asked,          \* the questions clients ask
    MapIP,          \* the families with a map address: a subset of {"A", "AAAA"}
    BlockHTTPS      \* dns.block_https_records

\* The types of class IN, and any other class.
QType == {"A", "AAAA", "HTTPS", "MX", "otherclass"}

ASSUME DnsAssumption ==
    /\ Servers \in Seq(Range(Servers)) /\ Servers # <<>>
    /\ Slot \cap ByName = {}
    /\ ProtoOf \in [Slot \cup ByName -> {"udp", "tcp"}]
    /\ \A q \in Asked : q.type \in QType
    /\ ByName \subseteq Range(Servers) \ TargetName
    /\ Configs \subseteq [strategy : {"system", "manual"}, anyPort : BOOLEAN, named : SUBSET ByName]
    /\ Healths \subseteq [Range(Servers) -> {"up", "down", "slow", "hang"}]
    /\ MapIP \in (SUBSET {"A", "AAAA"}) \ {{}}
    /\ BlockHTTPS \in BOOLEAN

VARIABLES
    conf,       \* the configuration, which never changes
    server,     \* how far Start or Stop is: "udp" and "tcp" are the two calls of
                \* ShutdownContext in Stop
    sock,       \* sock[p]: the dns.Server of p, its socket bound, then served,
                \* then draining
    errs,       \* errs[p]: the error Stop has collected for p
    taken,      \* TRUE: the adapters point at this server
    health,     \* health[s]: how the upstream server s behaves
    pooled,     \* servers with an open connection in the HTTP transport
    known,      \* named servers whose address the operating system has cached
    cache,      \* Server.cache: the questions with a live entry
    handler     \* handler[h]: one run of ServeDNS

dnsVars == <<conf, server, sock, errs, taken, health, pooled, known, cache, handler>>

Handler == Slot \cup ByName
Proto == {"udp", "tcp"}
NoQuestion == [name |-> "none", type |-> "none"]
Waiting == [pc |-> "idle", q |-> NoQuestion, i |-> 1, reply |-> "none"]

Init ==
    /\ conf \in Configs
    /\ server = "off"
    /\ sock = [p \in Proto |-> "closed"]
    /\ errs = [p \in Proto |-> "none"]
    /\ taken = FALSE
    /\ health \in Healths
    /\ pooled = {}
    /\ known = {}
    /\ cache = {}
    /\ handler = [h \in Handler |-> Waiting]

-----------------------------------------------------------------------------
(* Start and Stop                                                          *)

\* listenPair binds the UDP socket first, but with port 0 the TCP listener, which
\* then tells the port.
First == IF conf.anyPort THEN "tcp" ELSE "udp"

ListenFirst ==
    /\ server = "off"
    /\ server' = "half"
    /\ sock' = [sock EXCEPT ![First] = "bound"]
    /\ UNCHANGED <<conf, errs, taken, health, pooled, known, cache, handler>>

\* The second socket; the port may be another program's, and then the first is
\* given back.  With port 0 that is tried again, on another port, 200 times.
ListenSecond(ok) ==
    /\ server = "half"
    /\ server' = IF ok THEN "on" ELSE "off"
    /\ sock' = [p \in Proto |-> IF ok THEN "bound" ELSE "closed"]
    /\ UNCHANGED <<conf, errs, taken, health, pooled, known, cache, handler>>

\* ActivateAndServe runs in a goroutine: some time after Start has returned, and
\* perhaps after Stop.
Activate(p) ==
    /\ server \notin {"off", "half"} /\ sock[p] = "bound"
    /\ sock' = [sock EXCEPT ![p] = "serving"]
    /\ UNCHANGED <<conf, server, errs, taken, health, pooled, known, cache, handler>>

\* The engine points the adapters at the server once Start has returned.
TakeOver ==
    /\ conf.strategy = "system" /\ server = "on" /\ ~taken
    /\ taken' = TRUE
    /\ UNCHANGED <<conf, server, sock, errs, health, pooled, known, cache, handler>>

Release ==
    /\ taken
    /\ taken' = FALSE
    /\ UNCHANGED <<conf, server, sock, errs, health, pooled, known, cache, handler>>

\* Stop.  The engine calls it when it has tried to give the adapters back,
\* whether or not it could.
StopServer ==
    /\ server = "on"
    /\ server' = "udp"
    /\ UNCHANGED <<conf, sock, errs, taken, health, pooled, known, cache, handler>>

After(p) == IF p = "udp" THEN "tcp" ELSE "stopped"

\* ShutdownContext stops the reading.  If the goroutine has not got as far as
\* ActivateAndServe, it does nothing but return an error.
Shutdown(p) ==
    /\ server = p /\ sock[p] \in {"bound", "serving"}
    /\ IF sock[p] = "serving"
       THEN sock' = [sock EXCEPT ![p] = "draining"] /\ UNCHANGED <<server, errs>>
       ELSE server' = After(p) /\ errs' = [errs EXCEPT ![p] = "early"] /\ UNCHANGED sock
    /\ UNCHANGED <<conf, taken, health, pooled, known, cache, handler>>

Active(p) == {h \in Handler : handler[h].pc # "idle" /\ ProtoOf[h] = p}

\* A ShutdownContext that does not wait for the handlers.
DrainAtOnce(p, late) ==
    /\ server = p /\ sock[p] = "draining"
    /\ server' = After(p)
    /\ sock' = [sock EXCEPT ![p] = "closed"]
    /\ errs' = [errs EXCEPT ![p] = IF late THEN "late" ELSE "none"]
    /\ UNCHANGED <<conf, taken, health, pooled, known, cache, handler>>

\* It waits for the handlers or for the end of its context (late), which UDP and
\* TCP share, and returns with the socket closed.
Drain(p, late) ==
    /\ server = p /\ sock[p] = "draining"
    /\ late \/ Active(p) = {}
    /\ server' = After(p)
    /\ sock' = [sock EXCEPT ![p] = "closed"]
    /\ errs' = [errs EXCEPT ![p] = IF late THEN "late" ELSE "none"]
    /\ UNCHANGED <<conf, taken, health, pooled, known, cache, handler>>

-----------------------------------------------------------------------------
(* ServeDNS                                                                *)

Step(h, hd) ==
    /\ handler' = [handler EXCEPT ![h] = hd]
    /\ UNCHANGED <<conf, server, sock, errs, taken, health, pooled, known>>

\* WriteMsg: the handler ends with this reply.
Answer(h, reply) == [handler[h] EXCEPT !.pc = "idle", !.i = 1, !.reply = reply]

\* A client's question arrives over a socket that is served.
Receive(h, q) ==
    /\ h \in Slot /\ handler[h].pc = "idle"
    /\ sock[ProtoOf[h]] = "serving"
    /\ Step(h, [Waiting EXCEPT !.pc = "match", !.q = q])
    /\ UNCHANGED cache

\* shouldForwardTargetQuery, and one that does not look at the type.
ShouldForwardAny(q) == ~BlockHTTPS

ShouldForwardTarget(q) == q.type = "HTTPS" /\ ~BlockHTTPS

\* targetResponse: a mapped address, or an answer without records.
TargetReply(q) == IF q.type \in MapIP THEN "mapped" ELSE "empty"

\* handle
Handle(h) ==
    LET q == handler[h].q
    IN  /\ handler[h].pc = "match"
        /\ IF q.name \in TargetName /\ ~ShouldForwardTarget(q)
           THEN Step(h, Answer(h, TargetReply(q)))
           ELSE Step(h, [handler[h] EXCEPT !.pc = "cache"])
        /\ UNCHANGED cache

\* getCache: a live entry, an entry found expired and deleted, or none.
GetCache(h) ==
    /\ handler[h].pc = "cache"
    /\ \/ /\ handler[h].q \in cache
          /\ Step(h, Answer(h, "cached"))
          /\ UNCHANGED cache
       \/ /\ cache' = cache \ {handler[h].q}
          /\ Step(h, [handler[h] EXCEPT !.pc = "try", !.i = 1])

\* forwardOne on the i-th server: over an open connection or by address at
\* once, otherwise after the lookup of its name.
Try(h) ==
    LET s == Servers[handler[h].i]
    IN  /\ handler[h].pc = "try"
        /\ Step(h, [handler[h] EXCEPT !.pc =
                       IF s \in conf.named \ (pooled \cup known) THEN "lookup" ELSE "exchange"])
        /\ UNCHANGED cache

\* What becomes of a handler whose i-th server failed with an error, in a
\* Forward that gives up, and in Forward, which goes on to the next one.
AfterErrorGivesUp(hd) == [hd EXCEPT !.pc = "idle", !.i = 1, !.reply = "servfail"]

AfterError(hd) ==
    IF hd.i < Len(Servers) THEN [hd EXCEPT !.pc = "try", !.i = @ + 1]
    ELSE [hd EXCEPT !.pc = "idle", !.i = 1, !.reply = "servfail"]

\* The lookup goes to the user's DNS servers while the adapters are theirs.
LookupOutside(h) ==
    LET s == Servers[handler[h].i]
    IN  /\ handler[h].pc = "lookup" /\ ~taken
        /\ handler[s].pc = "idle"
        /\ known' = known \cup {s}
        /\ handler' = [handler EXCEPT ![h].pc = "exchange"]
        /\ UNCHANGED <<conf, server, sock, errs, taken, health, pooled, cache>>

\* The lookup comes back to this server as a question of its own, for a name
\* that is no target.
LookupHere(h) ==
    LET s == Servers[handler[h].i]
    IN  /\ handler[h].pc = "lookup" /\ taken
        /\ handler[s] = Waiting /\ sock[ProtoOf[s]] = "serving"
        /\ Step(s, [Waiting EXCEPT !.pc = "match", !.q = [name |-> s, type |-> "A"]])
        /\ UNCHANGED cache

\* The adapters point here and nobody serves the socket: the lookup fails.
LookupFails(h) ==
    /\ handler[h].pc = "lookup" /\ taken
    /\ LET s == Servers[handler[h].i] IN handler[s] = Waiting /\ sock[ProtoOf[s]] # "serving"
    /\ Step(h, AfterError(handler[h]))
    /\ UNCHANGED cache

\* The question ended: every handler that waits for the address of s gets the
\* answer at once, an address or a failure.  A reply over a UDP socket that a late
\* Stop has closed is not delivered.
Woken(s, good) ==
    [h \in Handler |->
        IF handler[h].pc = "lookup" /\ Servers[handler[h].i] = s
        THEN IF good THEN [handler[h] EXCEPT !.pc = "exchange"] ELSE AfterError(handler[h])
        ELSE IF h = s THEN Waiting ELSE handler[h]]

LookupDone(s) ==
    /\ handler[s].pc = "idle" /\ handler[s].reply # "none"
    /\ LET good == /\ handler[s].reply \in {"cached", "forwarded"}
                   /\ ProtoOf[s] = "udp" => sock["udp"] # "closed"
       IN  /\ handler' = Woken(s, good)
           /\ known' = IF good THEN known \cup {s} ELSE known
    /\ UNCHANGED <<conf, server, sock, errs, taken, health, pooled, cache>>

\* The exchange with the i-th server succeeds, at once or slowly; putCache keeps the response
\* unless its code is not success or a record of it has a TTL of 0.
ExchangeOk(h, keep) ==
    LET s == Servers[handler[h].i]
    IN  /\ handler[h].pc = "exchange" /\ health[s] \in {"up", "slow"}
        /\ pooled' = pooled \cup (conf.named \cap {s})
        /\ cache' = IF keep THEN cache \cup {handler[h].q} ELSE cache
        /\ handler' = [handler EXCEPT ![h] = Answer(h, "forwarded")]
        /\ UNCHANGED <<conf, server, sock, errs, taken, health, known>>

\* The exchange fails with an error, at once or slowly.
ExchangeFails(h) ==
    /\ handler[h].pc = "exchange" /\ health[Servers[handler[h].i]] \in {"down", "slow"}
    /\ Step(h, AfterError(handler[h]))
    /\ UNCHANGED cache

\* The handlers nothing but a timeout can help: they talk to a server that
\* hangs, or wait for the address of a server from a handler like that.
Stuck ==
    UNION {S \in SUBSET Handler :
              \A h \in S :
                 LET s == Servers[handler[h].i]
                 IN  \/ handler[h].pc = "exchange" /\ health[s] = "hang"
                     \/ handler[h].pc = "lookup" /\ s \in S}

\* A timeout that never comes.
TimeoutNever(h) == FALSE /\ handler[h].pc = "exchange" /\ UNCHANGED dnsVars

\* The attempts made so far took their time.
TookTime(h) == \E j \in DOMAIN Servers : j <= handler[h].i /\ health[Servers[j]] = "slow"

\* ForwardTimeout: the context of all the attempts is over, in one that hangs or
\* after several that were slow, so the servers that are left fail at once.
Timeout(h) ==
    /\ handler[h].pc \in {"lookup", "exchange"}
    /\ TookTime(h) \/ h \in Stuck
    /\ Step(h, Answer(h, "servfail"))
    /\ UNCHANGED cache

\* Idle connections are closed, cached addresses forgotten.
Forget(s) ==
    /\ s \in pooled \cup known
    /\ pooled' = pooled \ {s}
    /\ known' = known \ {s}
    /\ UNCHANGED <<conf, server, sock, errs, taken, health, cache, handler>>

HandlerStep(h) ==
    \/ Handle(h)
    \/ GetCache(h)
    \/ Try(h)
    \/ LookupOutside(h)
    \/ LookupHere(h)
    \/ LookupFails(h)
    \/ \E keep \in BOOLEAN : ExchangeOk(h, keep)
    \/ ExchangeFails(h)
    \/ Timeout(h)

Next ==
    \/ ListenFirst \/ \E ok \in BOOLEAN : ListenSecond(ok)
    \/ TakeOver \/ Release \/ StopServer
    \/ \E p \in Proto : Activate(p) \/ Shutdown(p) \/ \E late \in BOOLEAN : Drain(p, late)
    \/ \E h \in Slot, q \in Asked : Receive(h, q)
    \/ \E h \in Handler : HandlerStep(h)
    \/ \E s \in ByName : LookupDone(s) \/ Forget(s)

\* Handlers are goroutines: each goes on, and its timeout ends what is stuck.
DnsSpec ==
    /\ Init /\ [][Next]_dnsVars
    /\ \A h \in Handler : WF_dnsVars(HandlerStep(h) \/ (h \in ByName /\ LookupDone(h)))

-----------------------------------------------------------------------------

\* A Start that succeeds holds both sockets and one that fails holds none, in
\* whichever order it binds them.  When Stop has returned, a socket is still held
\* only if Stop came before the goroutine that serves it had begun, and a question
\* is still being answered only over such a socket or if Stop ran out of time for
\* this one of the two servers: both are errors, so a Stop without one has closed
\* both sockets and has waited for the questions of both.
StartsAndStopsWhole ==
    /\ server = "on" => \A p \in Proto : sock[p] \in {"bound", "serving"}
    /\ server = "off" => \A p \in Proto : sock[p] = "closed"
    /\ server = "stopped" => \A p \in Proto :
          /\ errs[p] # "early" => sock[p] = "closed"
          /\ errs[p] = "none" => Active(p) = {}

\* A target's address questions are never answered from upstream, not even
\* through the cache that its forwarded HTTPS questions share: the reply is
\* the mapped address or an answer without records.
TargetsStayLocal ==
    /\ \A h \in Slot : handler[h].reply \in {"cached", "forwarded", "servfail"} =>
          \/ handler[h].q.name \notin TargetName
          \/ handler[h].q.type = "HTTPS" /\ ~BlockHTTPS
    /\ \A q \in cache : q.name \in TargetName => q.type = "HTTPS" /\ ~BlockHTTPS

\* The forwarder reaches its servers without asking itself.
LoopFree == conf.strategy = "manual" \/ conf.named = {}

\* Without a loop, a question fails only if every server that is up comes after
\* one that is slow or hangs: Forward goes past the servers that fail at once with
\* an error, and only time spent on others, which all share one ForwardTimeout,
\* keeps it from one that answers, whatever other handlers do at the same time.
FailsOnlyIfServersDo ==
    LoopFree => \A h \in Slot : handler[h].reply = "servfail" =>
        \A i \in DOMAIN Servers : health[Servers[i]] = "up" =>
            \E j \in DOMAIN Servers : j < i /\ health[Servers[j]] \in {"slow", "hang"}

\* The forwarder is safe from loops: no lookup of a server's address waits,
\* directly or through others, for its own answer.
LoopSafe ==
    ~ \E S \in (SUBSET Handler) \ {{}} :
        \A h \in S : handler[h].pc = "lookup" /\ Servers[handler[h].i] \in S

\* Every question is answered, if only with a failure: no handler waits for
\* ever, also when the upstream servers hang.
EveryQuestionAnswered ==
    \A h \in Slot : []<>(handler[h].pc = "idle")
=============================================================================
