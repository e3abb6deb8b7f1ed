------------------------------ MODULE Forwarding ------------------------------
(***************************************************************************)
(* The data path: client connections to the forward proxy (internal/proxy) *)
(* or to the reverse server (internal/reverse), the dialer that reaches    *)
(* the upstream (internal/upstream), CONNECT tunnels, and the shutdown of  *)
(* the server while all of this is going on.                               *)
(*                                                                         *)
(* A connection carries one request after the other.  The bytes are left   *)
(* out; the sockets, their deadlines, and who closes them are kept.        *)
(* net/http is modelled from its use: Shutdown closes the listener, waits  *)
(* for every connection that was not hijacked, Close cuts them; a panic in *)
(* a handler closes its connection; a server being shut down closes each   *)
(* connection when it has answered; CloseIdleConnections also closes what  *)
(* becomes idle later.  Engine.Stop gives Stop a deadline; the error paths *)
(* of Engine.Start call it with context.Background() (conf.bounded).       *)
(***************************************************************************)
EXTENDS Naturals, Sequences, FiniteSets, Functions, Loops

CONSTANTS
    Conn,       \* client connections
    IP,         \* upstream addresses
    Lookups,    \* what the resolver may return for a host, <<>> if it fails
    Configs     \* the configurations of FwdAssumption

ASSUME LookupAssumption == Lookups \subseteq Seq(IP)

ASSUME FwdAssumption ==
    \A c \in Configs :
        /\ c.server \in {"proxy", "reverse"}
        /\ c.upstream \in {"direct", "http", "socks5"}
        /\ c.profiles \subseteq [ips : Seq(IP), forward : BOOLEAN]
                                            \* candidate IPs; is there a forward host
        /\ c.reject \in BOOLEAN             \* proxy.non_target_behavior
        /\ c.bounded \in BOOLEAN            \* the context of Stop has a deadline

VARIABLES
    conf,       \* the configuration, which never changes
    stage,      \* Start and Stop of the server
    listening,  \* the open listeners
    failed,     \* TRUE: Stop will return an error
    pool,       \* idle upstream connections of the transport
    conn        \* conn[k]: a client connection and its handler

fwdVars == <<conf, stage, listening, failed, pool, conn>>

Ports == IF conf.server = "proxy" THEN {"proxy"} ELSE {"http", "https"}
NoConn == [pc |-> "none", port |-> "none", kind |-> "none", client |-> "none",
           left |-> <<>>, due |-> {}, socks |-> 0, far |-> "none",
           deadline |-> FALSE, copying |-> {}, stalled |-> {}, answer |-> "none"]

\* The program points where the dialer has a socket whose handshake is going on.
Handshake == {"handshake", "greeting", "auth", "connect"}
Hijacked(k) == conn[k].pc = "tunnel"

\* The server still has the connection: it is neither hijacked nor closed.
Tracked(k) == conn[k].client \in {"open", "eof"} /\ ~Hijacked(k)
Busy(k) == Tracked(k) /\ conn[k].pc # "idle"

Init ==
    /\ conf \in Configs
    /\ stage = "off"
    /\ listening = {}
    /\ failed = FALSE
    /\ pool = 0
    /\ conn = [k \in Conn |-> NoConn]

-----------------------------------------------------------------------------
(* Start and Stop                                                          *)

\* Start of either server, one listener after the other: the reverse server has
\* two.  No connection is accepted before the last one is there.
NextPort ==
    CASE conf.server = "proxy" -> "proxy" [] stage = "half" -> "https" [] OTHER -> "http"

Start ==
    /\ stage \in {"off", "half"}
    /\ listening' = listening \cup {NextPort}
    /\ stage' = IF listening' = Ports THEN "on" ELSE "half"
    /\ UNCHANGED <<conf, failed, pool, conn>>

\* A port is taken.  The first listener is closed when the second cannot be
\* opened.
StartFails ==
    /\ stage \in {"off", "half"}
    /\ stage' = "stopped"
    /\ listening' = {}
    /\ failed' = TRUE
    /\ UNCHANGED <<conf, pool, conn>>

\* Stop takes the servers and the transport out of the fields.
StopSwap ==
    /\ stage = "on"
    /\ stage' = "swapped"
    /\ UNCHANGED <<conf, listening, failed, pool, conn>>

\* The server Shutdown is called on at this stage of Stop, and the next stage.
Stopping ==
    CASE stage = "swapped" /\ conf.server = "proxy" -> "proxy"
      [] stage = "swapped" /\ conf.server = "reverse" -> "http"
      [] stage = "second" -> "https"
      [] OTHER -> "none"

AfterShutdown == IF Stopping = "http" THEN "second" ELSE "idle"

\* Shutdown, first half: no new connections.
CloseListener ==
    /\ Stopping \in listening
    /\ listening' = listening \ {Stopping}
    /\ UNCHANGED <<conf, stage, failed, pool, conn>>

On(port) == {k \in Conn : conn[k].port = port /\ Tracked(k)}

\* Shutdown returns once the connections it tracks are idle, and closes them.
ShutdownOk ==
    /\ Stopping \in Ports \ listening
    /\ \A k \in On(Stopping) : ~Busy(k)
    /\ conn' = [k \in Conn |-> IF k \in On(Stopping) THEN NoConn ELSE conn[k]]
    /\ stage' = AfterShutdown
    /\ UNCHANGED <<conf, listening, failed, pool>>

\* The connection after the server closed it.
Cut(c) == IF c.pc = "idle" THEN NoConn ELSE [c EXCEPT !.client = "closed"]

\* Defect: the connections are left alone.
ShutdownLeaves ==
    /\ Stopping \in Ports \ listening
    /\ \E k \in On(Stopping) : Busy(k)
    /\ failed' = TRUE
    /\ stage' = AfterShutdown
    /\ UNCHANGED <<conf, listening, pool, conn>>

\* Defect: Shutdown gets a context that never ends.
ShutdownWaits == FALSE /\ UNCHANGED fwdVars

\* The context of Stop ends first: Close cuts the connections, except that the
\* HTTPS server of the reverse is not closed when the HTTP one already failed.
ShutdownExpires ==
    /\ conf.bounded
    /\ Stopping \in Ports \ listening
    /\ \E k \in On(Stopping) : Busy(k)
    /\ conn' = [k \in Conn |-> IF k \in On(Stopping) /\ ~failed
                                 THEN Cut(conn[k]) ELSE conn[k]]
    /\ failed' = TRUE
    /\ stage' = AfterShutdown
    /\ UNCHANGED <<conf, listening, pool>>

StopIdle ==
    /\ stage = "idle"
    /\ stage' = "wait"
    /\ pool' = 0
    /\ UNCHANGED <<conf, listening, failed, conn>>

\* Serve has returned, since its listener is closed; if the context ended as
\* well, select may take either case.
StopWait ==
    /\ stage = "wait"
    /\ stage' = "stopped"
    /\ failed' \in IF conf.bounded THEN {failed, TRUE} ELSE {failed}
    /\ UNCHANGED <<conf, listening, pool, conn>>

-----------------------------------------------------------------------------
(* The handlers                                                            *)

\* The other variables, while a handler works on its own connection.
OnlyConn == UNCHANGED <<conf, stage, listening, failed, pool>>

Step(k, c) == conn' = [conn EXCEPT ![k] = c]

\* A connection is accepted; on the HTTPS port the TLS handshake succeeds only
\* for a name the rules cover (getCertificate).
Accept(k) ==
    /\ conn[k].pc = "none" /\ stage # "half"
    /\ \E port \in listening :
          Step(k, [NoConn EXCEPT !.pc = "idle", !.port = port, !.client = "open"])
    /\ OnlyConn

\* The handler has answered: the connection waits for the next request, unless
\* it is closed by now or its server is being shut down.
Answered(c, a) ==
    IF c.client = "open" /\ c.port \in listening
      THEN [NoConn EXCEPT !.pc = "idle", !.port = c.port, !.client = "open",
                          !.due = c.due, !.socks = c.socks, !.answer = a]
      ELSE [NoConn EXCEPT !.due = c.due, !.socks = c.socks, !.answer = a]

\* ServeHTTP, the first part: a request the rules or the handler refuse, or one
\* for an asset of the page enhancement, is answered at once.
Admit(k) ==
    /\ conn[k].pc = "idle"
    /\ \E target \in BOOLEAN, kind \in {"http", "connect"} :
          /\ conf.server = "reverse" => kind = "http"
          /\ LET ok == target \/ (conf.server = "proxy" /\ ~conf.reject)
                 c == [conn[k] EXCEPT !.kind = kind, !.answer = "none", !.due = {}]
             IN \/ ok /\ Step(k, [c EXCEPT !.pc = IF kind = "http" THEN "trip" ELSE "resolve"])
                \/ Step(k, Answered(c, "answered"))
    /\ OnlyConn

\* RoundTrip, or the ReverseProxy around it, on s.transport, which Stop sets to
\* nil: then the handler panics and its connection is closed.  The field is read
\* without the lock, so just after the swap either value may be seen.
RoundTrip(k) ==
    /\ conn[k].pc = "trip"
    /\ \/ /\ stage # "on"
          /\ Step(k, NoConn)
          /\ OnlyConn
       \/ /\ stage \in {"on", "swapped"} /\ pool > 0
          /\ Step(k, [conn[k] EXCEPT !.pc = "exchange", !.socks = 1, !.far = "open"])
          /\ pool' = pool - 1
          /\ UNCHANGED <<conf, stage, listening, failed>>
       \/ /\ stage \in {"on", "swapped"} /\ pool = 0
          /\ Step(k, [conn[k] EXCEPT !.pc = "resolve"])
          /\ OnlyConn

-----------------------------------------------------------------------------
(* The dialer                                                              *)

From(target, ips) == [i \in DOMAIN ips |-> [ip |-> ips[i], target |-> target]]

\* candidates, if a profile matches: its addresses, those of its forward host and,
\* in every case, those of the host asked for, added by addCandidate if they are
\* not there.
ProfileCandidates(p, forward, host) ==
    Distinct(From("profile", p.ips)
               \o (IF p.forward THEN From("forward", forward) ELSE <<>>)
               \o From("host", host))

\* matchProfile: the host asked for may be one that no profile matches, or that
\* any one of them is the first to match.
Candidates(forward, host) ==
    {From("host", host)} \cup {ProfileCandidates(p, forward, host) : p \in conf.profiles}

Resolve(k) ==
    /\ conn[k].pc = "resolve"
    /\ \E forward, host \in Lookups :
       \E cs \in IF conf.upstream = "direct" THEN Candidates(forward, host)
                   ELSE {<<[ip |-> "relay", target |-> "relay"]>>} :
          LET c == [conn[k] EXCEPT !.pc = "dial", !.left = cs,
                       !.due = IF conf.upstream = "direct" THEN Range(host) ELSE {}]
          IN IF cs = <<>> THEN Step(k, Answered(c, "dialerror")) ELSE Step(k, c)
    /\ OnlyConn

\* Only a reverse HTTPS request to a direct upstream goes through DialTLSContext.
DialsTLS(k) == conf.upstream = "direct" /\ conn[k].port = "https"

\* The dialer returns the connection to the transport or to handleConnect.
Dialled(k, c) == [c EXCEPT !.pc = IF c.kind = "http" THEN "exchange" ELSE "hijack",
                           !.left = <<>>, !.due = {}, !.deadline = FALSE]

\* The upstream is connected.  A proxy in between gets a deadline for its
\* handshake.
DialOk(k) ==
    /\ conn[k].pc = "dial"
    /\ LET c == [conn[k] EXCEPT !.socks = @ + 1, !.far = "open"]
       IN CASE conf.upstream = "direct" /\ ~DialsTLS(k) -> Step(k, Dialled(k, c))
            [] conf.upstream = "direct" /\ DialsTLS(k) -> Step(k, [c EXCEPT !.pc = "handshake"])
            [] conf.upstream = "http" -> Step(k, [c EXCEPT !.pc = "handshake", !.deadline = TRUE])
            [] conf.upstream = "socks5" -> Step(k, [c EXCEPT !.pc = "greeting", !.deadline = TRUE])
    /\ OnlyConn

\* Mutant: one address of the host asked for is enough.
NextCandidateOnce(c) ==
    LET ip == Head(c.left).ip
        own == Head(c.left).target = "host"
        rest == [c EXCEPT !.pc = "dial", !.left = IF own THEN <<>> ELSE Tail(@), !.far = "none",
                          !.deadline = FALSE, !.due = IF own THEN @ \ {ip} ELSE @]
    IN IF rest.left = <<>> THEN Answered(rest, "dialerror") ELSE rest

\* The next candidate, or the error when there is none.
NextCandidate(c) ==
    LET ip == Head(c.left).ip
        rest == [c EXCEPT !.pc = "dial", !.left = Tail(@), !.far = "none",
                          !.deadline = FALSE,
                          !.due = IF Head(c.left).target = "host" THEN @ \ {ip} ELSE @]
    IN IF rest.left = <<>> THEN Answered(rest, "dialerror") ELSE rest

DialFails(k) ==
    /\ conn[k].pc = "dial"
    /\ Step(k, NextCandidate(conn[k]))
    /\ OnlyConn

\* Defect: the connection is forgotten.
HandshakeFailsOpen(k) ==
    /\ conn[k].pc \in Handshake
    /\ Step(k, NextCandidate(conn[k]))
    /\ OnlyConn

\* A TLS, HTTP CONNECT or SOCKS5 handshake fails, in any of its rounds, or
\* reaches the deadline: the connection is closed.
HandshakeFails(k) ==
    /\ conn[k].pc \in Handshake
    /\ Step(k, NextCandidate([conn[k] EXCEPT !.socks = @ - 1]))
    /\ OnlyConn

\* One round of a handshake.  A SOCKS5 proxy may ask for the password.
HandshakeOk(k) ==
    /\ conn[k].pc \in Handshake
    /\ \/ conn[k].pc = "greeting" /\ Step(k, [conn[k] EXCEPT !.pc = "auth"])
       \/ conn[k].pc \in {"greeting", "auth"} /\ Step(k, [conn[k] EXCEPT !.pc = "connect"])
       \/ conn[k].pc \in {"handshake", "connect"} /\ Step(k, Dialled(k, conn[k]))
    /\ OnlyConn

-----------------------------------------------------------------------------
(* Ordinary requests                                                       *)

\* The response is copied and its body closed, so the transport keeps the
\* connection, unless it was told to close what becomes idle.
ExchangeOk(k) ==
    /\ conn[k].pc = "exchange"
    /\ Step(k, Answered([conn[k] EXCEPT !.socks = @ - 1], "answered"))
    /\ pool' = IF stage \in {"wait", "stopped"} THEN pool ELSE pool + 1
    /\ UNCHANGED <<conf, stage, listening, failed>>

\* The upstream fails, the client is gone, or the page enhancement fails closed.
ExchangeFails(k) ==
    /\ conn[k].pc = "exchange"
    /\ Step(k, Answered([conn[k] EXCEPT !.socks = @ - 1], "answered"))
    /\ OnlyConn

-----------------------------------------------------------------------------
(* CONNECT tunnels                                                         *)

\* handleConnect once the upstream is there: Hijack fails, or bytes came too
\* early, or the reply cannot be written, and both connections are closed; or
\* the tunnel begins with its two copying goroutines.
Hijack(k) ==
    /\ conn[k].pc = "hijack"
    /\ \/ Step(k, [NoConn EXCEPT !.socks = conn[k].socks - 1])
       \/ /\ conn[k].client # "closed"
          /\ Step(k, [conn[k] EXCEPT !.pc = "tunnel", !.copying = {"up", "down"}])
    /\ OnlyConn

\* Both ends of the tunnel are closed, after the first direction is done.
Torn(k) == conn[k].socks = 0

\* copyAndCloseWrite ends: its source has ended and what it sent could be written,
\* or the tunnel is torn down, which also ends a Write that is held up.
CopyEnds(k, d) ==
    /\ conn[k].pc = "tunnel"
    /\ d \in conn[k].copying
    /\ \/ Torn(k)
       \/ d = "up" /\ conn[k].client = "eof" /\ "far" \notin conn[k].stalled
       \/ d = "down" /\ conn[k].far = "eof" /\ "client" \notin conn[k].stalled
    /\ Step(k, [conn[k] EXCEPT !.copying = @ \ {d}])
    /\ OnlyConn

\* Defect: tunnel waits for both directions before it closes.
TearDownLate(k) ==
    /\ conn[k].pc = "tunnel"
    /\ conn[k].copying = {}
    /\ ~Torn(k)
    /\ Step(k, [conn[k] EXCEPT !.socks = 0, !.client = "closed"])
    /\ OnlyConn

\* tunnel after the first <-done.
TearDown(k) ==
    /\ conn[k].pc = "tunnel"
    /\ conn[k].copying # {"up", "down"}
    /\ ~Torn(k)
    /\ Step(k, [conn[k] EXCEPT !.socks = 0, !.client = "closed"])
    /\ OnlyConn

\* tunnel after the second <-done; the deferred Closes change nothing.
TunnelDone(k) ==
    /\ conn[k].pc = "tunnel"
    /\ conn[k].copying = {}
    /\ Torn(k)
    /\ Step(k, NoConn)
    /\ OnlyConn

-----------------------------------------------------------------------------
(* The two ends                                                            *)

\* The client stops sending.  The server closes an idle connection at that.
ClientEnds(k) ==
    /\ conn[k].client = "open"
    /\ Step(k, IF conn[k].pc = "idle" THEN NoConn ELSE [conn[k] EXCEPT !.client = "eof"])
    /\ OnlyConn

\* The upstream stops sending, which matters only to a tunnel.
UpstreamEnds(k) ==
    /\ conn[k].pc = "tunnel" /\ conn[k].far = "open"
    /\ Step(k, [conn[k] EXCEPT !.far = "eof"])
    /\ OnlyConn

\* An end of a tunnel stops reading, so that a Write to it is held up, or reads on.
\* It matters once the other end has stopped sending.
Stall(k) ==
    /\ conn[k].pc = "tunnel" /\ ~Torn(k)
    /\ \E e \in {"client", "far"} :
          /\ conn[k][IF e = "far" THEN "client" ELSE "far"] = "eof"
          /\ \E still \in {{}, {e}} : Step(k, [conn[k] EXCEPT !.stalled = (@ \ {e}) \cup still])
    /\ OnlyConn

-----------------------------------------------------------------------------
StopNext == StopSwap \/ CloseListener \/ ShutdownOk \/ ShutdownExpires \/ StopIdle \/ StopWait

Tunnel(k) == TearDown(k) \/ TunnelDone(k) \/ \E d \in {"up", "down"} : CopyEnds(k, d)

ConnNext(k) ==
    \/ Accept(k) \/ Admit(k) \/ RoundTrip(k)
    \/ Resolve(k) \/ DialOk(k) \/ DialFails(k) \/ HandshakeOk(k) \/ HandshakeFails(k)
    \/ ExchangeOk(k) \/ ExchangeFails(k) \/ Hijack(k) \/ Tunnel(k)
    \/ ClientEnds(k) \/ UpstreamEnds(k) \/ Stall(k)

Next == Start \/ StartFails \/ StopNext \/ \E k \in Conn : ConnNext(k)

\* Stop runs on: its context ends if it has a deadline, so Shutdown returns.  The goroutines of a
\* tunnel run on.  Nothing is assumed of clients and upstreams.
FwdSpec ==
    /\ Init /\ [][Next]_fwdVars
    /\ WF_fwdVars(CloseListener \/ ShutdownOk \/ ShutdownExpires \/ StopIdle \/ StopWait)
    /\ \A k \in Conn : WF_fwdVars(Tunnel(k))

-----------------------------------------------------------------------------
(* Properties                                                              *)

\* When Stop has returned nothing is accepted any more, and what it shut down
\* has no connection left but tunnels: always for the proxy and for the plain
\* port of the reverse server, and for its HTTPS port when Stop reports no error
\* (with an error the HTTPS server may have been left unclosed).  No upstream
\* connection stays in the pool.
StopDrains ==
    stage = "stopped" =>
        /\ listening = {}
        /\ On("proxy") \cup On("http") = {}
        /\ ~failed => On("https") = {}
        /\ pool = 0

\* A handler holds one upstream socket from the moment it is connected until the
\* handler has done with it, and none while it tries the next candidate or after
\* it has answered: no failed TLS, CONNECT or SOCKS5 handshake, failed Hijack or
\* ended tunnel leaks one.  A socket handed to a handler is free of the handshake
\* deadline, so no tunnel or long download is cut after the dial timeout.
NoSocketLeaks ==
    \A k \in Conn :
        LET c == conn[k]
        IN  /\ CASE c.pc \in Handshake \cup {"exchange", "hijack"} -> c.socks = 1
                 [] c.pc = "tunnel" -> c.socks <= 1
                 [] OTHER -> c.socks = 0
            /\ c.pc \in {"exchange", "hijack", "tunnel"} => ~c.deadline

\* A dial reports failure only after every address the resolver gave for the host
\* asked for has been tried: neither unreachable addresses of a profile nor a
\* forward host that cannot be resolved, nor a failed dial or handshake with one
\* of the host's own addresses, cut the fallback short.
FallbackTried ==
    \A k \in Conn : conn[k].answer = "dialerror" => conn[k].due = {}

\* One end of a tunnel has stopped sending and the other takes what it sent.
Ending(k) ==
    /\ conn[k].pc = "tunnel"
    /\ \/ conn[k].client = "eof" /\ "far" \notin conn[k].stalled
       \/ conn[k].far = "eof" /\ "client" \notin conn[k].stalled

\* A tunnel one end of which has stopped sending is taken down even if the other
\* end never stops, unless that other end does not read what is still on its way:
\* io.Copy then waits in Write, which has no deadline.
TunnelEnds == \A k \in Conn : []<>~Ending(k)

\* Stop with a deadline returns, however long clients and upstreams keep their
\* requests open.  Stop without one, in the error paths of Engine.Start, returns
\* too unless some single request never ends: no sequence of requests on the
\* connections that were open can hold it up.
StopReturns ==
    stage = "swapped" ~> \/ stage = "stopped"
                         \/ ~conf.bounded /\ \E k \in Conn : []Busy(k)
=============================================================================
