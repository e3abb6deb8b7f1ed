-------------------------- MODULE ForwardingProofs --------------------------
(***************************************************************************)
(* Theorems about Forwarding and Resolver.  Forwarding, for any number of  *)
(* connections, addresses and configurations: ConnOk says what the handler *)
(* of a connection holds at each of its points, StageOk what Start and     *)
(* Stop have done so far, DueOk which of a host's addresses a dial has     *)
(* still to try.  Resolver, for any number of overlapping calls, all       *)
(* answers and TTLs: InTime says how long an address may be used.          *)
(***************************************************************************)
EXTENDS Forwarding, Resolver, Induction, TLAPS

ConnPc == {"none", "idle", "trip", "resolve", "dial", "handshake", "greeting", "auth",
           "connect", "exchange", "hijack", "tunnel"}

ConnOk(c) ==
    /\ DOMAIN c = DOMAIN NoConn
    /\ c.pc \in ConnPc
    /\ c.port \in {"none"} \cup Ports
    /\ c.client \in {"none", "open", "eof", "closed"}
    /\ c.deadline \in BOOLEAN
    /\ c.socks \in {0, 1}
    /\ c.pc \in Handshake \cup {"exchange", "hijack"} => c.socks = 1
    /\ c.pc \notin Handshake \cup {"exchange", "hijack", "tunnel"} => c.socks = 0
    /\ c.deadline => c.pc \in Handshake

\* Tracked, of a connection that may not be in conn yet.
Live(c) == c.client \in {"open", "eof"} /\ c.pc # "tunnel"

\* What replaces a connection is not tracked by a server that has stopped
\* listening, unless the connection was.
Follows(d, c) == Live(d) => d.port \in listening \/ (Live(c) /\ d.port = c.port)

StageOk ==
    /\ stage \in {"off", "half", "on", "swapped", "second", "idle", "wait", "stopped"}
    /\ listening \subseteq Ports
    /\ stage \in {"off", "half"} => (\A k \in Conn : conn[k] = NoConn) /\ pool = 0
    /\ stage = "off" => listening = {}
    /\ stage = "half" => conf.server = "reverse"
    /\ stage \in {"off", "half", "on", "swapped"} => ~failed
    /\ stage = "second" => /\ conf.server = "reverse"
                           /\ listening \subseteq {"https"}
                           /\ On("http") = {}
    /\ stage \in {"idle", "wait", "stopped"} =>
          /\ listening = {}
          /\ On("proxy") \cup On("http") = {}
          /\ ~failed => On("https") = {}
    /\ stage \in {"wait", "stopped"} => pool = 0

FwdIInv ==
    /\ conf \in Configs
    /\ failed \in BOOLEAN
    /\ pool \in Nat
    /\ DOMAIN conn = Conn /\ conn = [k \in Conn |-> conn[k]]
    /\ \A k \in Conn : ConnOk(conn[k])
    /\ StageOk

-----------------------------------------------------------------------------
(* What becomes of a connection *)

LEMMA NoConnFacts ==
    /\ ConnOk(NoConn) /\ ~Live(NoConn)
    /\ DOMAIN NoConn = {"pc", "port", "kind", "client", "left", "due", "socks", "far",
                        "deadline", "copying", "stalled", "answer"}
  BY DEF NoConn, ConnOk, Live, ConnPc, Handshake

LEMMA AnsweredFacts ==
    ASSUME NEW c, NEW a, c.port \in {"none"} \cup Ports, c.socks = 0
    PROVE  /\ ConnOk(Answered(c, a))
           /\ Live(Answered(c, a)) => c.port \in listening /\ Answered(c, a).port = c.port
  BY NoConnFacts DEF Answered, ConnOk, Live, NoConn, ConnPc, Handshake

LEMMA NextCandidateFacts ==
    ASSUME NEW c, DOMAIN c = DOMAIN NoConn, c.port \in {"none"} \cup Ports, c.socks = 0,
           c.client \in {"none", "open", "eof", "closed"}, NEW d,
           c.client \in {"open", "eof"} => Live(d), c.port = d.port
    PROVE  ConnOk(NextCandidate(c)) /\ Follows(NextCandidate(c), d)
  <1> DEFINE r == [c EXCEPT !.pc = "dial", !.left = Tail(@), !.far = "none",
                            !.deadline = FALSE,
                            !.due = IF Head(c.left).target = "host"
                                      THEN @ \ {Head(c.left).ip} ELSE @]
  <1>1. /\ DOMAIN r = DOMAIN NoConn /\ r.pc = "dial" /\ r.port = c.port /\ r.socks = 0
        /\ r.client = c.client /\ r.deadline = FALSE
    BY NoConnFacts
  <1>2. NextCandidate(c) = IF r.left = <<>> THEN Answered(r, "dialerror") ELSE r
    BY DEF NextCandidate
  <1> HIDE DEF r
  <1>3. CASE NextCandidate(c) = r
    BY <1>1, <1>3, Zenon DEF ConnOk, ConnPc, Handshake, Follows, Live
  <1>4. CASE NextCandidate(c) = Answered(r, "dialerror")
    BY <1>1, <1>4, AnsweredFacts DEF Follows
  <1> QED BY <1>2, <1>3, <1>4

-----------------------------------------------------------------------------
(* The handlers *)

StepsWell(k) == \E c : Step(k, c) /\ ConnOk(c) /\ Follows(c, conn[k])

LEMMA StepsTo ==
    ASSUME NEW k \in Conn, NEW c, Step(k, c), ConnOk(c), Follows(c, conn[k])
    PROVE  StepsWell(k)
  BY DEF StepsWell

LEMMA AcceptStep ==
    ASSUME FwdIInv, NEW k \in Conn, Accept(k)
    PROVE  StepsWell(k)
  <1>1. PICK port \in listening :
          Step(k, [NoConn EXCEPT !.pc = "idle", !.port = port, !.client = "open"])
    BY Zenon DEF Accept
  <1> DEFINE c == [NoConn EXCEPT !.pc = "idle", !.port = port, !.client = "open"]
  <1>2. ConnOk(c)
    BY NoConnFacts DEF ConnOk, ConnPc, Handshake, FwdIInv, StageOk, NoConn
  <1>3. Follows(c, conn[k])
    BY DEF Follows, NoConn
  <1> QED BY <1>1, <1>2, <1>3, StepsTo

LEMMA AdmitStep ==
    ASSUME FwdIInv, NEW k \in Conn, Admit(k)
    PROVE  StepsWell(k)
  <1>1. PICK kind \in {"http", "connect"} :
          LET c == [conn[k] EXCEPT !.kind = kind, !.answer = "none", !.due = {}]
          IN  \/ Step(k, [c EXCEPT !.pc = IF kind = "http" THEN "trip" ELSE "resolve"])
              \/ Step(k, Answered(c, "answered"))
    BY Zenon DEF Admit
  <1> DEFINE c == [conn[k] EXCEPT !.kind = kind, !.answer = "none", !.due = {}]
             d == [c EXCEPT !.pc = IF kind = "http" THEN "trip" ELSE "resolve"]
  <1>2. ConnOk(conn[k]) /\ conn[k].pc = "idle"
    BY DEF FwdIInv, Admit
  <1>3. /\ DOMAIN c = DOMAIN NoConn /\ c.port = conn[k].port /\ c.socks = 0
        /\ c.client = conn[k].client /\ c.deadline = conn[k].deadline
    BY <1>2, NoConnFacts DEF ConnOk, Handshake
  <1>4. Step(k, d) \/ Step(k, Answered(c, "answered"))
    BY <1>1
  <1> HIDE DEF c
  <1>5. /\ DOMAIN d = DOMAIN NoConn /\ d.pc \in {"trip", "resolve"} /\ d.port = conn[k].port
        /\ d.socks = 0 /\ d.client = conn[k].client /\ d.deadline = conn[k].deadline
    BY <1>3, NoConnFacts
  <1> HIDE DEF d
  <1>6. ConnOk(d) /\ Follows(d, conn[k])
    BY <1>2, <1>5, Zenon DEF ConnOk, ConnPc, Handshake, Follows, Live
  <1>7. ConnOk(Answered(c, "answered")) /\ Follows(Answered(c, "answered"), conn[k])
    BY <1>2, <1>3, AnsweredFacts DEF ConnOk, Follows
  <1> QED BY <1>4, <1>6, <1>7, StepsTo

LEMMA RoundTripStep ==
    ASSUME FwdIInv, NEW k \in Conn, RoundTrip(k)
    PROVE  StepsWell(k)
  <1> DEFINE c == [conn[k] EXCEPT !.pc = "exchange", !.socks = 1, !.far = "open"]
             d == [conn[k] EXCEPT !.pc = "resolve"]
  <1>1. ConnOk(conn[k]) /\ conn[k].pc = "trip"
    BY DEF FwdIInv, RoundTrip
  <1>2. Step(k, c) \/ Step(k, d) \/ Step(k, NoConn)
    BY DEF RoundTrip
  <1>3. ConnOk(c) /\ Follows(c, conn[k])
    BY <1>1, NoConnFacts, Zenon DEF ConnOk, ConnPc, Handshake, Follows, Live
  <1>4. ConnOk(d) /\ Follows(d, conn[k])
    BY <1>1, NoConnFacts DEF ConnOk, ConnPc, Handshake, Follows, Live
  <1>5. ConnOk(NoConn) /\ Follows(NoConn, conn[k])
    BY NoConnFacts DEF Follows
  <1> QED BY <1>2, <1>3, <1>4, <1>5, StepsTo

LEMMA ResolveStep ==
    ASSUME FwdIInv, NEW k \in Conn, Resolve(k)
    PROVE  StepsWell(k)
  <1>1. PICK cs, due :
          LET c == [conn[k] EXCEPT !.pc = "dial", !.left = cs, !.due = due]
          IN  Step(k, Answered(c, "dialerror")) \/ Step(k, c)
    BY Zenon DEF Resolve
  <1> DEFINE c == [conn[k] EXCEPT !.pc = "dial", !.left = cs, !.due = due]
  <1>2. ConnOk(conn[k]) /\ conn[k].pc = "resolve"
    BY DEF FwdIInv, Resolve
  <1>3. ConnOk(c) /\ c.pc = "dial" /\ c.client = conn[k].client /\ c.port = conn[k].port
    BY <1>2, NoConnFacts DEF ConnOk, ConnPc, Handshake
  <1>4. Step(k, c) \/ Step(k, Answered(c, "dialerror"))
    BY <1>1
  <1> HIDE DEF c
  <1>5. Follows(c, conn[k])
    BY <1>2, <1>3 DEF Follows, Live
  <1>6. c.socks = 0 /\ c.port \in {"none"} \cup Ports
    BY <1>3 DEF ConnOk, Handshake
  <1>7. ConnOk(Answered(c, "dialerror")) /\ Follows(Answered(c, "dialerror"), conn[k])
    BY <1>3, <1>6, AnsweredFacts DEF Follows
  <1> QED BY <1>3, <1>4, <1>5, <1>7, StepsTo

(* The dialer returns a socket free of the handshake deadline. *)
LEMMA DialledFacts ==
    ASSUME NEW k, NEW c, NEW d, DOMAIN c = DOMAIN NoConn, c.port \in {"none"} \cup Ports,
           c.socks = 1, c.client \in {"none", "open", "eof", "closed"},
           c.client \in {"open", "eof"} => Live(d), c.port = d.port
    PROVE  ConnOk(Dialled(k, c)) /\ Follows(Dialled(k, c), d)
  <1> DEFINE r == Dialled(k, c)
  <1>1. /\ DOMAIN r = DOMAIN NoConn /\ r.pc \in {"exchange", "hijack"} /\ r.port = c.port
        /\ r.socks = 1 /\ r.client = c.client /\ r.deadline = FALSE
    BY NoConnFacts DEF Dialled
  <1> HIDE DEF r
  <1>2. ConnOk(r) /\ Follows(r, d)
    BY <1>1, Zenon DEF ConnOk, ConnPc, Handshake, Follows, Live
  <1> QED BY <1>2 DEF r

LEMMA DialOkStep ==
    ASSUME FwdIInv, NEW k \in Conn, DialOk(k)
    PROVE  StepsWell(k)
  <1> DEFINE c == [conn[k] EXCEPT !.socks = @ + 1, !.far = "open"]
             d == [c EXCEPT !.pc = "handshake"]
             e(pc) == [c EXCEPT !.pc = pc, !.deadline = TRUE]
  <1>1. ConnOk(conn[k]) /\ conn[k].pc = "dial" /\ conf.upstream \in {"direct", "http", "socks5"}
    BY FwdAssumption DEF FwdIInv, DialOk
  <1>2. Step(k, Dialled(k, c)) \/ Step(k, d) \/ Step(k, e("handshake")) \/ Step(k, e("greeting"))
    BY <1>1, Zenon DEF DialOk
  <1>3. /\ DOMAIN c = DOMAIN NoConn /\ c.port = conn[k].port /\ c.socks = 1
        /\ c.client = conn[k].client /\ c.deadline = FALSE
        /\ c.port \in {"none"} \cup Ports
        /\ c.client \in {"none", "open", "eof", "closed"}
        /\ c.client \in {"open", "eof"} => Live(conn[k])
    BY <1>1, NoConnFacts DEF ConnOk, ConnPc, Handshake, Live
  <1> HIDE DEF c
  <1>4. ConnOk(Dialled(k, c)) /\ Follows(Dialled(k, c), conn[k])
    BY <1>3, DialledFacts
  <1>5. ConnOk(d) /\ Follows(d, conn[k])
    BY <1>3, NoConnFacts, Zenon DEF ConnOk, ConnPc, Handshake, Follows, Live
  <1>6. ASSUME NEW pc \in {"handshake", "greeting"}
        PROVE  ConnOk(e(pc)) /\ Follows(e(pc), conn[k])
    BY <1>3, NoConnFacts DEF ConnOk, ConnPc, Handshake, Follows, Live
  <1> HIDE DEF d, e
  <1> QED BY <1>2, <1>4, <1>5, <1>6, StepsTo, Zenon

LEMMA DialFailsStep ==
    ASSUME FwdIInv, NEW k \in Conn, DialFails(k)
    PROVE  StepsWell(k)
  <1>1. ConnOk(conn[k]) /\ conn[k].pc = "dial" /\ Step(k, NextCandidate(conn[k]))
    BY DEF FwdIInv, DialFails
  <1>2. ConnOk(NextCandidate(conn[k])) /\ Follows(NextCandidate(conn[k]), conn[k])
    <2>1. /\ DOMAIN conn[k] = DOMAIN NoConn /\ conn[k].port \in {"none"} \cup Ports
          /\ conn[k].socks = 0 /\ conn[k].client \in {"none", "open", "eof", "closed"}
          /\ conn[k].client \in {"open", "eof"} => Live(conn[k])
      BY <1>1 DEF ConnOk, Handshake, Live
    <2> QED BY <2>1, NextCandidateFacts, Zenon
  <1> QED BY <1>1, <1>2, StepsTo

LEMMA HandshakeFailsStep ==
    ASSUME FwdIInv, NEW k \in Conn, HandshakeFails(k)
    PROVE  StepsWell(k)
  <1> DEFINE c == [conn[k] EXCEPT !.socks = @ - 1]
  <1>1. ConnOk(conn[k]) /\ conn[k].pc \in Handshake /\ Step(k, NextCandidate(c))
    BY DEF FwdIInv, HandshakeFails
  <1>2. /\ DOMAIN c = DOMAIN NoConn /\ c.port = conn[k].port /\ c.socks = 0
        /\ c.port \in {"none"} \cup Ports
        /\ c.client \in {"none", "open", "eof", "closed"}
        /\ c.client \in {"open", "eof"} => Live(conn[k])
    BY <1>1, NoConnFacts DEF ConnOk, ConnPc, Handshake, Live
  <1> HIDE DEF c
  <1>3. ConnOk(NextCandidate(c)) /\ Follows(NextCandidate(c), conn[k])
    BY <1>2, NextCandidateFacts
  <1> QED BY <1>1, <1>3, StepsTo

LEMMA HandshakeOkStep ==
    ASSUME FwdIInv, NEW k \in Conn, HandshakeOk(k)
    PROVE  StepsWell(k)
  <1> DEFINE c(pc) == [conn[k] EXCEPT !.pc = pc]
  <1>1. ConnOk(conn[k]) /\ conn[k].pc \in Handshake
    BY DEF FwdIInv, HandshakeOk
  <1>2. Step(k, c("auth")) \/ Step(k, c("connect")) \/ Step(k, Dialled(k, conn[k]))
    BY DEF HandshakeOk
  <1>3. ASSUME NEW pc \in {"auth", "connect"}
        PROVE  ConnOk(c(pc)) /\ Follows(c(pc), conn[k])
    BY <1>1, NoConnFacts, Zenon DEF ConnOk, ConnPc, Handshake, Follows, Live
  <1>4. ConnOk(Dialled(k, conn[k])) /\ Follows(Dialled(k, conn[k]), conn[k])
    <2>1. /\ DOMAIN conn[k] = DOMAIN NoConn /\ conn[k].port \in {"none"} \cup Ports
          /\ conn[k].socks = 1 /\ conn[k].client \in {"none", "open", "eof", "closed"}
          /\ conn[k].client \in {"open", "eof"} => Live(conn[k])
      BY <1>1 DEF ConnOk, Handshake, Live
    <2> QED BY <2>1, DialledFacts, Zenon
  <1> HIDE DEF c
  <1> QED BY <1>2, <1>3, <1>4, StepsTo

LEMMA ExchangeStep ==
    ASSUME FwdIInv, NEW k \in Conn, ExchangeOk(k) \/ ExchangeFails(k)
    PROVE  StepsWell(k)
  <1> DEFINE c == [conn[k] EXCEPT !.socks = @ - 1]
  <1>1. ConnOk(conn[k]) /\ conn[k].pc = "exchange"
    BY DEF FwdIInv, ExchangeOk, ExchangeFails
  <1>2. PICK a \in {"answered"} : Step(k, Answered(c, a))
    BY DEF ExchangeOk, ExchangeFails
  <1>3. c.port = conn[k].port /\ c.socks = 0 /\ c.port \in {"none"} \cup Ports
    BY <1>1, NoConnFacts DEF ConnOk
  <1> HIDE DEF c
  <1>4. ConnOk(Answered(c, a)) /\ Follows(Answered(c, a), conn[k])
    BY <1>3, AnsweredFacts DEF Follows
  <1> QED BY <1>2, <1>4, StepsTo

LEMMA HijackStep ==
    ASSUME FwdIInv, NEW k \in Conn, Hijack(k)
    PROVE  StepsWell(k)
  <1> DEFINE c == [NoConn EXCEPT !.socks = conn[k].socks - 1]
             d == [conn[k] EXCEPT !.pc = "tunnel", !.copying = {"up", "down"}]
  <1>1. ConnOk(conn[k]) /\ conn[k].pc = "hijack"
    BY DEF FwdIInv, Hijack
  <1>2. Step(k, c) \/ Step(k, d)
    BY DEF Hijack
  <1>3. ConnOk(c) /\ Follows(c, conn[k])
    BY <1>1, NoConnFacts DEF ConnOk, ConnPc, Handshake, Follows, Live, NoConn
  <1>4. ConnOk(d) /\ Follows(d, conn[k])
    BY <1>1, NoConnFacts DEF ConnOk, ConnPc, Handshake, Follows, Live
  <1> QED BY <1>2, <1>3, <1>4, StepsTo, Zenon

LEMMA TunnelStep ==
    ASSUME FwdIInv, NEW k \in Conn, Tunnel(k) \/ UpstreamEnds(k) \/ Stall(k)
    PROVE  StepsWell(k)
  <1>1. ConnOk(conn[k]) /\ conn[k].pc = "tunnel"
    BY DEF FwdIInv, Tunnel, TearDown, TunnelDone, CopyEnds, UpstreamEnds, Stall
  <1>2. ASSUME NEW d, CopyEnds(k, d)
        PROVE  StepsWell(k)
    <2> DEFINE c == [conn[k] EXCEPT !.copying = @ \ {d}]
    <2>1. ConnOk(c) /\ Follows(c, conn[k])
      BY <1>1, NoConnFacts DEF ConnOk, ConnPc, Handshake, Follows, Live
    <2> QED BY <1>2, <2>1, StepsTo, Zenon DEF CopyEnds
  <1>3. CASE TearDown(k)
    <2> DEFINE c == [conn[k] EXCEPT !.socks = 0, !.client = "closed"]
    <2>1. ConnOk(c) /\ Follows(c, conn[k])
      BY <1>1, NoConnFacts DEF ConnOk, ConnPc, Handshake, Follows, Live
    <2> QED BY <1>3, <2>1, StepsTo, Zenon DEF TearDown
  <1>4. CASE TunnelDone(k)
    <2>1. ConnOk(NoConn) /\ Follows(NoConn, conn[k])
      BY NoConnFacts DEF Follows
    <2> QED BY <1>4, <2>1, StepsTo, Zenon DEF TunnelDone
  <1>5. CASE UpstreamEnds(k)
    <2> DEFINE c == [conn[k] EXCEPT !.far = "eof"]
    <2>1. ConnOk(c) /\ Follows(c, conn[k])
      BY <1>1, NoConnFacts DEF ConnOk, ConnPc, Handshake, Follows, Live
    <2> QED BY <1>5, <2>1, StepsTo, ZenonT(30) DEF UpstreamEnds
  <1>6. CASE Stall(k)
    <2>1. PICK s : Step(k, [conn[k] EXCEPT !.stalled = s])
      BY <1>6, Zenon DEF Stall
    <2> DEFINE c == [conn[k] EXCEPT !.stalled = s]
    <2>2. ConnOk(c) /\ Follows(c, conn[k])
      BY <1>1, NoConnFacts DEF ConnOk, ConnPc, Handshake, Follows, Live
    <2> QED BY <2>1, <2>2, StepsTo, Zenon
  <1> QED BY <1>2, <1>3, <1>4, <1>5, <1>6, Zenon DEF Tunnel

LEMMA ClientEndsStep ==
    ASSUME FwdIInv, NEW k \in Conn, ClientEnds(k)
    PROVE  StepsWell(k)
  <1> DEFINE c == [conn[k] EXCEPT !.client = "eof"]
  <1>1. ConnOk(conn[k]) /\ conn[k].client = "open"
    BY DEF FwdIInv, ClientEnds
  <1>2. ConnOk(c) /\ Follows(c, conn[k])
    BY <1>1, NoConnFacts DEF ConnOk, ConnPc, Handshake, Follows, Live
  <1>3. ConnOk(NoConn) /\ Follows(NoConn, conn[k])
    BY NoConnFacts DEF Follows
  <1>4. Step(k, c) \/ Step(k, NoConn)
    BY DEF ClientEnds
  <1> QED BY <1>2, <1>3, <1>4, StepsTo

(* A step of a handler keeps what holds of the server. *)
LEMMA ConnNextInv ==
    ASSUME FwdIInv, NEW k \in Conn, ConnNext(k)
    PROVE  FwdIInv'
  <1>1. StepsWell(k)
    BY AcceptStep, AdmitStep, RoundTripStep, ResolveStep, DialOkStep, DialFailsStep, ZenonT(30),
       HandshakeOkStep, HandshakeFailsStep, ExchangeStep, HijackStep, TunnelStep,
       ClientEndsStep DEF ConnNext
  <1>2. PICK c : Step(k, c) /\ ConnOk(c) /\ Follows(c, conn[k])
    BY <1>1 DEF StepsWell
  <1>3. UNCHANGED <<conf, stage, listening, failed>>
    BY Zenon DEF ConnNext, Accept, Admit, RoundTrip, Resolve, DialOk, DialFails, HandshakeOk,
           HandshakeFails, ExchangeOk, ExchangeFails, Hijack, Tunnel, TearDown, TunnelDone,
           CopyEnds, ClientEnds, UpstreamEnds, Stall, OnlyConn
  <1>4. /\ pool' \in Nat
        /\ stage \in {"wait", "stopped"} => pool' = pool
    <2>1. CASE RoundTrip(k)
      BY <2>1 DEF FwdIInv, RoundTrip, OnlyConn
    <2>2. CASE ExchangeOk(k)
      BY <2>2 DEF FwdIInv, ExchangeOk
    <2>3. CASE ~RoundTrip(k) /\ ~ExchangeOk(k)
      <3>1. UNCHANGED pool
        BY <2>3, Zenon DEF ConnNext, Accept, Admit, Resolve, DialOk, DialFails, HandshakeOk,
             HandshakeFails, ExchangeFails, Hijack, Tunnel, TearDown, TunnelDone, CopyEnds,
             ClientEnds, UpstreamEnds, Stall, OnlyConn
      <3> QED BY <3>1 DEF FwdIInv
    <2> QED BY <2>1, <2>2, <2>3, Zenon
  <1>5. stage \notin {"off", "half"}
    <2> SUFFICES ASSUME stage \in {"off", "half"}
                 PROVE  FALSE
      OBVIOUS
    <2>1. conn[k] = NoConn /\ (listening = {} \/ stage = "half")
      BY DEF FwdIInv, StageOk
    <2>2. ~Accept(k)
      BY <2>1, Zenon DEF Accept
    <2>3. conn[k].pc = "none" /\ conn[k].client = "none" /\ conn[k].far = "none"
      BY <2>1 DEF NoConn
    <2>4. ~(Admit(k) \/ RoundTrip(k) \/ Resolve(k) \/ DialOk(k) \/ DialFails(k))
      BY <2>3 DEF Admit, RoundTrip, Resolve, DialOk, DialFails
    <2>5. ~(HandshakeOk(k) \/ HandshakeFails(k) \/ ExchangeOk(k) \/ ExchangeFails(k) \/ Hijack(k))
      BY <2>3 DEF HandshakeOk, HandshakeFails, ExchangeOk, ExchangeFails, Hijack, Handshake
    <2>6. ~(Tunnel(k) \/ ClientEnds(k) \/ UpstreamEnds(k) \/ Stall(k))
      BY <2>3 DEF Tunnel, TearDown, TunnelDone, CopyEnds, ClientEnds, UpstreamEnds, Stall
    <2> QED BY <2>2, <2>4, <2>5, <2>6, Zenon DEF ConnNext
  <1>6. /\ DOMAIN conn' = Conn /\ conn' = [j \in Conn |-> conn'[j]]
        /\ conn'[k] = c /\ \A j \in Conn : j # k => conn'[j] = conn[j]
    BY <1>2, Zenon DEF Step, FwdIInv
  <1>7. \A j \in Conn : ConnOk(conn[j])'
    BY <1>2, <1>3, <1>6, ZenonT(30) DEF FwdIInv, ConnOk, Ports
  <1>8. ASSUME NEW port, port \notin listening
        PROVE  On(port)' \subseteq On(port)
    BY <1>2, <1>6, <1>8, ZenonT(30) DEF On, Tracked, Hijacked, Follows, Live
  <1>9. StageOk'
    BY <1>3, <1>4, <1>5, <1>8 DEF FwdIInv, StageOk, Ports
  <1> QED BY <1>3, <1>4, <1>6, <1>7, <1>9, Zenon DEF FwdIInv

-----------------------------------------------------------------------------
(* Start and Stop *)

LEMMA FwdInit == Init => FwdIInv
  <1> SUFFICES ASSUME Init
               PROVE  FwdIInv
    OBVIOUS
  <1>1. \A k \in Conn : conn[k] = NoConn
    BY DEF Init
  <1>2. StageOk
    BY <1>1 DEF Init, StageOk, Ports
  <1> QED BY <1>1, <1>2, NoConnFacts, Zenon DEF Init, FwdIInv

LEMMA ServerKeepsConns ==
    ASSUME FwdIInv, UNCHANGED <<conf, conn>>
    PROVE  /\ DOMAIN conn' = Conn /\ conn' = [k \in Conn |-> conn'[k]]
           /\ \A k \in Conn : ConnOk(conn[k])'
           /\ \A port : On(port)' = On(port)
  BY DEF FwdIInv, ConnOk, Ports, On, Tracked, Hijacked

LEMMA StartInv ==
    ASSUME FwdIInv, Start \/ StartFails
    PROVE  FwdIInv'
  <1>1. UNCHANGED <<conf, conn, pool>> /\ stage \in {"off", "half"} /\ pool = 0
        /\ \A k \in Conn : conn[k] = NoConn
    BY Zenon DEF Start, StartFails, FwdIInv, StageOk
  <1>2. \A port : On(port) = {}
    BY <1>1 DEF On, Tracked, NoConn
  <1>3. CASE Start
    <2>1. /\ conf.server = "proxy" => Ports = {"proxy"} /\ NextPort = "proxy" /\ stage = "off"
          /\ conf.server # "proxy" => Ports = {"http", "https"} /\ NextPort \in Ports
      BY <1>1 DEF Ports, NextPort, FwdIInv, StageOk
    <2>2. conf.server \in {"proxy", "reverse"}
      BY FwdAssumption DEF FwdIInv
    <2>3. /\ listening' = listening \cup {NextPort} /\ listening' \subseteq Ports
          /\ stage' \in {"on", "half"} /\ (stage' = "half" => listening' # Ports)
      BY <1>3, <2>1, Zenon DEF Start, FwdIInv, StageOk
    <2>4. stage' = "half" => conf.server = "reverse"
      <3>1. conf.server = "proxy" => listening = {}
        BY <2>1 DEF FwdIInv, StageOk
      <3>2. conf.server = "proxy" => listening' = Ports
        BY <2>1, <2>3, <3>1
      <3> QED BY <2>2, <2>3, <3>2
    <2>5. StageOk'
      BY <1>1, <1>3, <2>3, <2>4 DEF FwdIInv, StageOk, Start, Ports
    <2> QED BY <1>1, <1>3, <2>5, ServerKeepsConns, Zenon DEF FwdIInv, Start
  <1>4. CASE StartFails
    <2>1. StageOk'
      BY <1>1, <1>2, <1>4, ServerKeepsConns DEF FwdIInv, StageOk, StartFails, Ports
    <2> QED BY <1>1, <1>4, <2>1, ServerKeepsConns, Zenon DEF FwdIInv, StartFails
  <1> QED BY <1>3, <1>4

LEMMA StopQuietInv ==
    ASSUME FwdIInv, StopSwap \/ CloseListener \/ StopIdle \/ StopWait
    PROVE  FwdIInv'
  <1>0. UNCHANGED <<conf, conn>>
    BY Zenon DEF StopSwap, CloseListener, StopIdle, StopWait
  <1>1. Ports' = Ports /\ (\A port : On(port)' = On(port)) /\ failed \in BOOLEAN
    BY <1>0, ServerKeepsConns DEF Ports, FwdIInv
  <1>2. CASE StopSwap
    <2>1. StageOk'
      BY <1>1, <1>2 DEF FwdIInv, StageOk, StopSwap
    <2> QED BY <1>0, <1>2, <2>1, ServerKeepsConns, Zenon DEF FwdIInv, StopSwap
  <1>3. CASE CloseListener
    <2>1. stage \in {"swapped", "second"}
      BY <1>3 DEF CloseListener, Stopping, FwdIInv, StageOk, Ports
    <2>2. StageOk'
      BY <1>1, <1>3, <2>1, Zenon DEF FwdIInv, StageOk, CloseListener
    <2> QED BY <1>0, <1>3, <2>2, ServerKeepsConns, Zenon DEF FwdIInv, CloseListener
  <1>4. CASE StopIdle
    <2>1. StageOk'
      BY <1>1, <1>4, Zenon DEF FwdIInv, StageOk, StopIdle
    <2> QED BY <1>0, <1>4, <2>1, ServerKeepsConns, Zenon DEF FwdIInv, StopIdle
  <1>5. CASE StopWait
    <2>1. failed' \in BOOLEAN /\ (failed => failed')
      BY <1>1, <1>5, Zenon DEF StopWait
    <2>2. StageOk'
      BY <1>1, <1>5, <2>1 DEF FwdIInv, StageOk, StopWait
    <2> QED BY <1>0, <1>5, <2>1, <2>2, ServerKeepsConns, Zenon DEF FwdIInv, StopWait
  <1> QED BY <1>2, <1>3, <1>4, <1>5

(* Closing a connection takes it from its server, and leaves its handler   *)
(* what it holds.                                                          *)
LEMMA CutFacts ==
    ASSUME NEW c, ConnOk(c)
    PROVE  ConnOk(Cut(c)) /\ ~Live(Cut(c))
  BY NoConnFacts DEF Cut, ConnOk, Live

LEMMA ShutdownInv ==
    ASSUME FwdIInv, ShutdownOk \/ ShutdownExpires
    PROVE  FwdIInv'
  <1>0. /\ UNCHANGED <<conf, listening, pool>> /\ stage' = AfterShutdown
        /\ Stopping \in Ports \ listening /\ Ports' = Ports
    BY DEF ShutdownOk, ShutdownExpires, Ports
  <1>1. \/ stage = "swapped" /\ conf.server = "proxy" /\ Stopping = "proxy" /\ stage' = "idle"
        \/ stage = "swapped" /\ conf.server = "reverse" /\ Stopping = "http" /\ stage' = "second"
        \/ stage = "second" /\ conf.server = "reverse" /\ Stopping = "https" /\ stage' = "idle"
    BY <1>0, FwdAssumption, Zenon DEF Stopping, AfterShutdown, FwdIInv, StageOk, Ports
  <1>2. \A k \in Conn : /\ ConnOk(conn[k])
                        /\ k \in On(Stopping) <=> conn[k].port = Stopping /\ Live(conn[k])
    BY DEF FwdIInv, On, Tracked, Hijacked, Live
  <1>3. /\ DOMAIN conn' = Conn /\ conn' = [k \in Conn |-> conn'[k]]
        /\ \A k \in Conn : conn'[k] \in {conn[k], NoConn, Cut(conn[k])}
        /\ \A k \in Conn \ On(Stopping) : conn'[k] = conn[k]
        /\ failed' \in BOOLEAN /\ (failed => failed')
    BY ZenonT(30) DEF ShutdownOk, ShutdownExpires, FwdIInv
  <1>4. \A k \in Conn : ConnOk(conn'[k]) /\ (Live(conn'[k]) => conn'[k] = conn[k])
    BY <1>2, <1>3, NoConnFacts, CutFacts
  <1>5. \A port : On(port)' \subseteq On(port)
    BY <1>4 DEF On, Tracked, Hijacked, Live
  <1>p. PICK s \in {"proxy", "http", "https"} : s = Stopping
    BY <1>1
  <1>6. ~failed \/ ~failed' => On(s)' = {}
    <2>1. CASE ShutdownOk
      <3>1. \A k \in On(s) : ~Live(conn'[k])
        BY <1>p, <2>1, NoConnFacts, Zenon DEF ShutdownOk, On
      <3> QED BY <1>5, <3>1, ZenonT(30) DEF On, Tracked, Hijacked, Live
    <2>2. CASE ShutdownExpires
      <3>1. failed' /\ (~failed => \A k \in On(s) : conn'[k] = Cut(conn[k]))
        BY <1>p, <2>2 DEF ShutdownExpires, On
      <3>2. \A k \in On(s) : ~Live(Cut(conn[k]))
        BY <1>2, CutFacts DEF On
      <3>3. failed' /\ (~failed => \A k \in On(s) : ~Live(conn'[k]))
        BY <3>1, <3>2, Zenon
      <3> QED BY <1>5, <3>3, ZenonT(30) DEF On, Tracked, Hijacked, Live
    <2> QED BY <2>1, <2>2
  <1>7. \A k \in Conn : ConnOk(conn[k])'
    BY <1>0, <1>4, Zenon DEF ConnOk
  <1>8. \A port \in {"proxy", "http", "https"} \ Ports : On(port) = {}
    BY <1>2 DEF On, ConnOk
  <1>9. StageOk'
    <2>1. /\ stage \in {"swapped", "second"} /\ stage' \in {"second", "idle"}
          /\ listening' \subseteq Ports' /\ (stage = "swapped" => ~failed)
      BY <1>0, <1>1 DEF FwdIInv, StageOk
    <2>2. stage' = "second" => /\ conf'.server = "reverse" /\ listening' \subseteq {"https"}
                               /\ On("http")' = {}
      <3> SUFFICES ASSUME stage' = "second"
                   PROVE  /\ conf'.server = "reverse" /\ listening' \subseteq {"https"}
                          /\ On("http")' = {}
        OBVIOUS
      <3>1. /\ stage = "swapped" /\ conf.server = "reverse" /\ conf' = conf
            /\ Stopping = "http" /\ s = "http"
        BY <1>0, <1>1, <1>p, Zenon
      <3>2. Ports = {"http", "https"} /\ listening' \subseteq Ports /\ "http" \notin listening'
        BY <1>0, <2>1, <3>1, Zenon DEF Ports
      <3>3. On(s)' = {}
        BY <1>6, <2>1, <3>1, Zenon
      <3> QED BY <3>1, <3>2, <3>3, Zenon
    <2>3. stage' = "idle" => /\ listening' = {}
                             /\ On("proxy")' \cup On("http")' = {}
                             /\ ~failed' => On("https")' = {}
      <3>1. CASE conf.server = "proxy" /\ stage' = "idle"
        BY <1>0, <1>1, <1>p, <1>5, <1>6, <1>8, <2>1, <3>1, ZenonT(30) DEF Ports
      <3>2. CASE conf.server = "reverse" /\ stage' = "idle"
        <4>1. stage = "second" /\ s = "https" /\ On("http") = {} /\ listening \subseteq {"https"}
          BY <1>1, <1>p, <3>2, Zenon DEF FwdIInv, StageOk
        <4> QED BY <1>0, <1>p, <1>5, <1>6, <1>8, <3>2, <4>1, ZenonT(30) DEF Ports
      <3> QED BY <1>1, <3>1, <3>2
    <2> QED BY <2>1, <2>2, <2>3, Zenon DEF StageOk
  <1> QED BY <1>0, <1>3, <1>7, <1>9, Zenon DEF FwdIInv

LEMMA FwdNext == FwdIInv /\ [Next]_fwdVars => FwdIInv'
  <1> SUFFICES ASSUME FwdIInv, [Next]_fwdVars
               PROVE  FwdIInv'
    OBVIOUS
  <1>1. CASE UNCHANGED fwdVars
    <2>1. StageOk'
      BY <1>1, ServerKeepsConns DEF fwdVars, FwdIInv, StageOk, Ports
    <2> QED BY <1>1, <2>1, ServerKeepsConns, Zenon DEF fwdVars, FwdIInv
  <1>2. CASE Next
    <2>1. \/ Start \/ StartFails \/ StopNext \/ \E k \in Conn : ConnNext(k)
      BY <1>2, Zenon DEF Next
    <2> QED BY <2>1, StartInv, StopQuietInv, ShutdownInv, ConnNextInv, Zenon DEF StopNext
  <1> QED BY <1>1, <1>2, Zenon

THEOREM FwdInvariant == FwdSpec => []FwdIInv
  <1>1. FwdSpec => Init /\ [][Next]_fwdVars
    BY PTL DEF FwdSpec
  <1> QED BY <1>1, FwdInit, FwdNext, PTL

(* When Stop of the proxy or of the reverse server has returned, nothing   *)
(* is accepted any more and the connections are gone, but for tunnels and, *)
(* after an error, the HTTPS connections of the reverse server.            *)
THEOREM FwdStopDrains == FwdSpec => []StopDrains
  <1>1. FwdIInv => StopDrains
    BY Zenon DEF FwdIInv, StageOk, StopDrains
  <1> QED BY <1>1, FwdInvariant, PTL

(* No failed handshake, failed Hijack or ended tunnel leaks an upstream    *)
(* socket, and no socket keeps the deadline of its handshake.              *)
THEOREM FwdNoSocketLeaks == FwdSpec => []NoSocketLeaks
  <1>1. FwdIInv => NoSocketLeaks
    <2> SUFFICES ASSUME FwdIInv, NEW k \in Conn
                 PROVE  LET c == conn[k]
                        IN  /\ CASE c.pc \in Handshake \cup {"exchange", "hijack"} -> c.socks = 1
                                 [] c.pc = "tunnel" -> c.socks <= 1
                                 [] OTHER -> c.socks = 0
                            /\ c.pc \in {"exchange", "hijack", "tunnel"} => ~c.deadline
      BY DEF NoSocketLeaks
    <2>1. ConnOk(conn[k])
      BY Zenon DEF FwdIInv
    <2> QED BY <2>1 DEF ConnOk, Handshake
  <1> QED BY <1>1, FwdInvariant, PTL

-----------------------------------------------------------------------------
(* The fallback to the host asked for *)

Dialling == {"dial"} \cup Handshake

Candidate ==
    [ip : IP, target : {"profile", "forward", "host"}] \cup {[ip |-> "relay", target |-> "relay"]}

(* The addresses of the host that are still due are among the candidates   *)
(* that are left, of which there is one as long as the dial goes on.       *)
DueOk(c) ==
    /\ c.answer = "dialerror" => c.due = {} /\ c.pc \notin {"trip", "resolve"} \cup Dialling
    /\ c.pc \in Dialling =>
          /\ c.left \in Seq(Candidate) /\ c.left # <<>>
          /\ \A ip \in c.due : \E i \in DOMAIN c.left : c.left[i] = [ip |-> ip, target |-> "host"]

DueIInv == \A k \in Conn : DueOk(conn[k])

LEMMA NoConnDue ==
    /\ NoConn.answer = "none" /\ NoConn.due = {} /\ NoConn.pc = "none"
    /\ DueOk(NoConn)
BY Zenon DEF NoConn, DueOk, Dialling, Handshake

(* A connection that goes on with the candidates it has, and one that is   *)
(* done with dialling.                                                     *)
LEMMA DueKept ==
    ASSUME NEW c, NEW d, DueOk(c), d.answer = c.answer, d.due = c.due, d.left = c.left,
           d.pc \in Dialling => c.pc \in Dialling,
           d.pc \in {"trip", "resolve"} => c.pc \in {"trip", "resolve"}
    PROVE  DueOk(d)
BY DEF DueOk

LEMMA DueDone ==
    ASSUME NEW d, d.pc \notin Dialling, d.answer # "dialerror"
    PROVE  DueOk(d)
BY DEF DueOk

LEMMA DueAnswered ==
    ASSUME NEW c, NEW a, a = "dialerror" => c.due = {}
    PROVE  DueOk(Answered(c, a))
<1> DEFINE d == Answered(c, a)
<1>1. d.answer = a /\ d.due = c.due /\ d.pc \in {"none", "idle"}
  BY Zenon DEF Answered, NoConn
<1> HIDE DEF d
<1>2. DueOk(d)
  BY <1>1 DEF DueOk, Dialling, Handshake
<1> QED BY <1>2 DEF d

(* The candidates that follow the first. *)
LEMMA TailFacts ==
    ASSUME NEW S, NEW s \in Seq(S), s # <<>>
    PROVE  /\ Head(s) = s[1] /\ Tail(s) \in Seq(S)
           /\ \A i \in DOMAIN s : i # 1 => i - 1 \in DOMAIN Tail(s) /\ Tail(s)[i - 1] = s[i]
<1>1. Len(s) \in Nat /\ Len(s) # 0 /\ DOMAIN s = 1..Len(s) /\ Head(s) = s[1]
  OBVIOUS
<1>2. Tail(s) \in Seq(S) /\ Len(Tail(s)) = Len(s) - 1 /\ DOMAIN Tail(s) = 1..Len(s) - 1
  BY <1>1
<1>3. \A j \in 1..Len(s) - 1 : Tail(s)[j] = s[j + 1]
  BY <1>1
<1>4. ASSUME NEW i \in DOMAIN s, i # 1
      PROVE  i - 1 \in DOMAIN Tail(s) /\ Tail(s)[i - 1] = s[i]
  <2>1. i - 1 \in 1..Len(s) - 1 /\ (i - 1) + 1 = i
    BY <1>1, <1>4
  <2> QED BY <1>2, <1>3, <2>1, Zenon
<1> QED BY <1>1, <1>2, <1>4, Zenon

(* The dial goes on to the next candidate, and ends when nobody is due. *)
LEMMA DueNext ==
    ASSUME NEW c, DOMAIN c = DOMAIN NoConn, DueOk(c), c.pc \in Dialling
    PROVE  DueOk(NextCandidate(c))
<1> DEFINE r == [c EXCEPT !.pc = "dial", !.left = Tail(@), !.far = "none", !.deadline = FALSE,
                          !.due = IF Head(c.left).target = "host" THEN @ \ {Head(c.left).ip} ELSE @]
<1>1. /\ r.pc = "dial" /\ r.left = Tail(c.left) /\ r.answer = c.answer
      /\ r.due = IF Head(c.left).target = "host" THEN c.due \ {Head(c.left).ip} ELSE c.due
  BY NoConnFacts
<1>2. NextCandidate(c) = IF r.left = <<>> THEN Answered(r, "dialerror") ELSE r
  BY DEF NextCandidate
<1> HIDE DEF r
<1>3. /\ c.left \in Seq(Candidate) /\ c.left # <<>> /\ c.answer # "dialerror"
      /\ \A ip \in c.due : \E i \in DOMAIN c.left : c.left[i] = [ip |-> ip, target |-> "host"]
  BY DEF DueOk
<1>4. /\ Head(c.left) = c.left[1] /\ Tail(c.left) \in Seq(Candidate)
      /\ \A i \in DOMAIN c.left : i # 1 =>
            i - 1 \in DOMAIN Tail(c.left) /\ Tail(c.left)[i - 1] = c.left[i]
  BY <1>3, TailFacts, Zenon
<1>5. ASSUME NEW ip \in r.due
      PROVE  \E j \in DOMAIN r.left : r.left[j] = [ip |-> ip, target |-> "host"]
  <2>1. PICK i \in DOMAIN c.left : c.left[i] = [ip |-> ip, target |-> "host"]
    BY <1>1, <1>3, Zenon
  <2>2. i # 1
    <3> SUFFICES ASSUME i = 1 PROVE FALSE
      OBVIOUS
    <3>1. Head(c.left).target = "host" /\ Head(c.left).ip = ip
      BY <1>4, <2>1, SMTT(30)
    <3> QED BY <1>1, <3>1, Zenon
  <2>3. i - 1 \in DOMAIN r.left /\ r.left[i - 1] = [ip |-> ip, target |-> "host"]
    BY <1>1, <1>4, <2>1, <2>2, Zenon
  <2> QED BY <2>3, Zenon
<1>6. CASE r.left = <<>>
  <2>1. r.due = {}
    BY <1>5, <1>6
  <2>2. DueOk(Answered(r, "dialerror"))
    BY <2>1, DueAnswered, Zenon
  <2> QED BY <1>2, <1>6, <2>2, Zenon
<1>7. CASE r.left # <<>>
  <2>1. DueOk(r)
    BY <1>1, <1>3, <1>4, <1>5, <1>7, Zenon DEF DueOk
  <2> QED BY <1>2, <1>7, <2>1, Zenon
<1> QED BY <1>6, <1>7

(* The addresses of the host are always candidates. *)
LEMMA CandidatesCoverHost ==
    ASSUME conf \in Configs, NEW forward \in Lookups, NEW host \in Lookups,
           NEW cs \in Candidates(forward, host)
    PROVE  /\ cs \in Seq(Candidate)
           /\ \A ip \in Range(host) : \E i \in DOMAIN cs : cs[i] = [ip |-> ip, target |-> "host"]
<1> DEFINE From3 == {"profile", "forward", "host"}
<1>1. ASSUME NEW t \in From3, NEW ips \in Seq(IP)
      PROVE  /\ From(t, ips) \in Seq(Candidate)
             /\ Len(From(t, ips)) = Len(ips)
             /\ \A i \in 1..Len(ips) : From(t, ips)[i] = [ip |-> ips[i], target |-> t]
  <2>1. DOMAIN ips = 1..Len(ips) /\ Len(ips) \in Nat
    OBVIOUS
  <2>2. \A i \in 1..Len(ips) : [ip |-> ips[i], target |-> t] \in Candidate
    BY <2>1 DEF Candidate
  <2> QED BY <2>1, <2>2 DEF From
<1>2. forward \in Seq(IP) /\ host \in Seq(IP)
  BY LookupAssumption, Zenon
<1>3. conf.profiles \subseteq [ips : Seq(IP), forward : BOOLEAN]
  BY FwdAssumption, Zenon
<1> DEFINE h == From("host", host)
<1>4. h \in Seq(Candidate)
  BY <1>1, <1>2, Zenon
<1>5. \A ip \in Range(host) : \E i \in 1..Len(h) : h[i] = [ip |-> ip, target |-> "host"]
  <2>1. Len(h) = Len(host) /\ DOMAIN host = 1..Len(host)
        /\ \A i \in 1..Len(host) : h[i] = [ip |-> host[i], target |-> "host"]
    BY <1>1, <1>2
  <2> HIDE DEF h
  <2> QED BY <2>1, Zenon DEF Range
<1>6. ASSUME NEW q \in conf.profiles, cs = ProfileCandidates(q, forward, host)
      PROVE  /\ cs \in Seq(Candidate)
             /\ \A ip \in Range(host) : \E i \in DOMAIN cs : cs[i] = [ip |-> ip, target |-> "host"]
  <2> DEFINE f == IF q.forward THEN From("forward", forward) ELSE <<>>
             p == From("profile", q.ips)
             all == p \o f \o h
  <2>0. q.ips \in Seq(IP)
    BY <1>3, <1>6
  <2>1. cs = Distinct(all)
    BY <1>6 DEF ProfileCandidates
  <2>p. p \in Seq(Candidate)
    BY <1>1, <2>0, Zenon
  <2>f. f \in Seq(Candidate)
    <3>1. From("forward", forward) \in Seq(Candidate)
      BY <1>1, <1>2, Zenon
    <3> QED BY <3>1, EmptyIsSeq, Zenon
  <2> HIDE DEF p, f, h
  <2>2. all \in Seq(Candidate)
    BY <1>4, <2>p, <2>f
  <2>3. \A i \in 1..Len(h) : \E j \in DOMAIN all : all[j] = h[i]
    <3>1. Len(p) \in Nat /\ Len(f) \in Nat /\ Len(h) \in Nat
      BY <1>4, <2>p, <2>f
    <3>2. DOMAIN all = 1..Len(p) + Len(f) + Len(h)
      BY <1>4, <2>p, <2>f, <3>1
    <3>3. ASSUME NEW i \in 1..Len(h)
          PROVE  Len(p) + Len(f) + i \in DOMAIN all /\ all[Len(p) + Len(f) + i] = h[i]
      BY <1>4, <2>p, <2>f, <3>1, <3>2
    <3> QED BY <3>3, Zenon
  <2> HIDE DEF all
  <2>4. Distinct(all) \in Seq(Candidate) /\ Range(Distinct(all)) = Range(all)
    BY <2>2, DistinctFacts, Zenon
  <2>5. ASSUME NEW ip \in Range(host)
        PROVE  \E i \in DOMAIN Distinct(all) : Distinct(all)[i] = [ip |-> ip, target |-> "host"]
    <3>1. PICK i \in 1..Len(h) : h[i] = [ip |-> ip, target |-> "host"]
      BY <1>5, Zenon
    <3>2. [ip |-> ip, target |-> "host"] \in Range(all)
      BY <2>3, <3>1, Zenon DEF Range
    <3> QED BY <2>4, <3>2, Zenon DEF Range
  <2> QED BY <2>1, <2>4, <2>5, Zenon
<1>7. CASE cs = h
  <2> HIDE DEF h
  <2>1. DOMAIN h = 1..Len(h)
    BY <1>4
  <2> QED BY <1>4, <1>5, <1>7, <2>1, ZenonT(30)
<1> QED BY <1>6, <1>7, Zenon DEF Candidates

(* resolve finds the candidates, or fails when there are none. *)
LEMMA DueResolve ==
    ASSUME FwdIInv, DueIInv, NEW k \in Conn, Resolve(k)
    PROVE  \E d : Step(k, d) /\ DueOk(d)
<1> DEFINE due(host) == IF conf.upstream = "direct" THEN Range(host) ELSE {}
           next(cs, host) == [conn[k] EXCEPT !.pc = "dial", !.left = cs, !.due = due(host)]
           dial(forward, host) == IF conf.upstream = "direct" THEN Candidates(forward, host)
                                    ELSE {<<[ip |-> "relay", target |-> "relay"]>>}
<1>0. PICK forward \in Lookups, host \in Lookups :
        \E left \in dial(forward, host) :
          IF left = <<>> THEN Step(k, Answered(next(left, host), "dialerror"))
          ELSE Step(k, next(left, host))
  BY Zenon DEF Resolve
<1>1. PICK left \in dial(forward, host) :
          IF left = <<>> THEN Step(k, Answered(next(left, host), "dialerror"))
          ELSE Step(k, next(left, host))
  BY <1>0, Zenon
<1>2. DOMAIN conn[k] = DOMAIN NoConn /\ conn[k].answer # "dialerror"
  BY DEF FwdIInv, ConnOk, DueIInv, DueOk, Resolve
<1> DEFINE c == next(left, host)
           owed == due(host)
<1>3. c.pc = "dial" /\ c.left = left /\ c.due = owed /\ c.answer = conn[k].answer
  BY <1>2, NoConnFacts, Zenon
<1>4. /\ left \in Seq(Candidate)
      /\ \A ip \in owed : \E i \in DOMAIN left : left[i] = [ip |-> ip, target |-> "host"]
  <2>1. CASE conf.upstream = "direct"
    <3>1. conf \in Configs
      BY Zenon DEF FwdIInv
    <3>2. left \in Candidates(forward, host) /\ owed = Range(host)
      BY <1>1, <2>1, Zenon
    <3> HIDE DEF owed
    <3> QED BY <3>1, <3>2, CandidatesCoverHost, Zenon
  <2>2. CASE conf.upstream # "direct"
    <3>1. left = <<[ip |-> "relay", target |-> "relay"]>> /\ owed = {}
      BY <1>1, <2>2, Zenon
    <3>2. [ip |-> "relay", target |-> "relay"] \in Candidate
      BY DEF Candidate
    <3>3. left \in Seq(Candidate)
      BY <3>1, <3>2, OneIsSeq, Zenon
    <3> HIDE DEF owed
    <3> QED BY <3>1, <3>3, Zenon
  <2> QED BY <2>1, <2>2, Zenon
<1>5. IF left = <<>> THEN Step(k, Answered(c, "dialerror")) ELSE Step(k, c)
  BY <1>1, Zenon
<1> HIDE DEF c, owed
<1>6. CASE left = <<>>
  <2>1. c.due = {}
    BY <1>3, <1>4, <1>6
  <2>2. DueOk(Answered(c, "dialerror"))
    BY <2>1, DueAnswered, Zenon
  <2> QED BY <1>5, <1>6, <2>2, Zenon
<1>7. CASE left # <<>>
  <2>1. DueOk(c)
    BY <1>2, <1>3, <1>4, <1>7, ZenonT(30) DEF DueOk
  <2>2. Step(k, c)
    BY <1>5, <1>7, Zenon
  <2> QED BY <2>1, <2>2, Zenon
<1> QED BY <1>6, <1>7, Zenon

(* Every step of a handler. *)
LEMMA DueSteps ==
    ASSUME FwdIInv, DueIInv, NEW k \in Conn, ConnNext(k)
    PROVE  \E d : Step(k, d) /\ DueOk(d)
<1> DEFINE c == conn[k]
           Well == \E d : Step(k, d) /\ DueOk(d)
<1>0. DOMAIN c = DOMAIN NoConn /\ DueOk(c)
  BY DEF FwdIInv, ConnOk, DueIInv
<1> SUFFICES Well
  OBVIOUS
<1>a. ASSUME NEW d, Step(k, d), DueOk(d) PROVE Well
  BY <1>a
<1> HIDE DEF Well
<1>1. CASE Accept(k)
  <2>1. PICK port \in listening :
          Step(k, [NoConn EXCEPT !.pc = "idle", !.port = port, !.client = "open"])
    BY <1>1, Zenon DEF Accept
  <2> DEFINE d == [NoConn EXCEPT !.pc = "idle", !.port = port, !.client = "open"]
  <2>2. d.pc = "idle" /\ d.answer = "none"
    BY DEF NoConn
  <2> HIDE DEF d
  <2>3. DueOk(d)
    BY <2>2, DueDone, Zenon DEF Dialling, Handshake
  <2> QED BY <1>a, <2>1, <2>3, Zenon DEF d
<1>2. CASE Admit(k)
  <2>1. PICK kind \in {"http", "connect"} :
          LET e == [c EXCEPT !.kind = kind, !.answer = "none", !.due = {}]
          IN  \/ Step(k, [e EXCEPT !.pc = IF kind = "http" THEN "trip" ELSE "resolve"])
              \/ Step(k, Answered(e, "answered"))
    BY <1>2, Zenon DEF Admit
  <2> DEFINE e == [c EXCEPT !.kind = kind, !.answer = "none", !.due = {}]
             d == [e EXCEPT !.pc = IF kind = "http" THEN "trip" ELSE "resolve"]
  <2>2. Step(k, d) \/ Step(k, Answered(e, "answered"))
    BY <2>1
  <2>3. DOMAIN e = DOMAIN NoConn /\ e.answer = "none"
    BY <1>0, NoConnFacts
  <2> HIDE DEF e
  <2>4. d.pc \in {"trip", "resolve"} /\ d.answer = "none"
    BY <2>3, NoConnFacts, Zenon
  <2> HIDE DEF d
  <2>5. DueOk(d)
    BY <2>4, DueDone, Zenon DEF Dialling, Handshake
  <2>6. DueOk(Answered(e, "answered"))
    BY DueAnswered
  <2> QED BY <1>a, <2>2, <2>5, <2>6, Zenon
<1>3. CASE RoundTrip(k)
  <2>0. c.pc = "trip" /\ c.answer # "dialerror"
    BY <1>0, <1>3 DEF RoundTrip, DueOk
  <2> DEFINE d1 == NoConn
             d2 == [c EXCEPT !.pc = "exchange", !.socks = 1, !.far = "open"]
             d3 == [c EXCEPT !.pc = "resolve"]
  <2>1. Step(k, d1) \/ Step(k, d2) \/ Step(k, d3)
    BY <1>3 DEF RoundTrip
  <2>2. /\ d1.pc = "none" /\ d1.answer = "none"
        /\ d2.pc = "exchange" /\ d2.answer = c.answer
        /\ d3.pc = "resolve" /\ d3.answer = c.answer
    BY <1>0, NoConnFacts, Zenon DEF NoConn
  <2> HIDE DEF d1, d2, d3
  <2>3. DueOk(d1) /\ DueOk(d2) /\ DueOk(d3)
    BY <2>0, <2>2, DueDone, Zenon DEF Dialling, Handshake
  <2> QED BY <1>a, <2>1, <2>3, Zenon
<1>4. CASE Resolve(k)
  BY <1>4, DueResolve DEF Well
<1>5. CASE DialOk(k)
  <2>0. c.pc \in Dialling /\ c.answer # "dialerror"
    BY <1>0, <1>5, Zenon DEF DialOk, DueOk, Dialling
  <2> DEFINE e == [c EXCEPT !.socks = @ + 1, !.far = "open"]
             d1 == Dialled(k, e)
             d2 == [e EXCEPT !.pc = "handshake"]
             d3 == [e EXCEPT !.pc = "handshake", !.deadline = TRUE]
             d4 == [e EXCEPT !.pc = "greeting", !.deadline = TRUE]
  <2>1. Step(k, d1) \/ Step(k, d2) \/ Step(k, d3) \/ Step(k, d4)
    <3>1. conf \in Configs
      BY DEF FwdIInv
    <3>2. conf.upstream \in {"direct", "http", "socks5"}
      BY <3>1, FwdAssumption
    <3> HIDE DEF d1, d2, d3, d4
    <3>3. CASE conf.upstream = "direct" /\ ~DialsTLS(k) BY <1>5, <3>3 DEF DialOk, d1
    <3>4. CASE conf.upstream = "direct" /\ DialsTLS(k) BY <1>5, <3>4 DEF DialOk, d2
    <3>5. CASE conf.upstream = "http" BY <1>5, <3>5 DEF DialOk, d3
    <3>6. CASE conf.upstream = "socks5" BY <1>5, <3>6 DEF DialOk, d4
    <3> QED BY <3>2, <3>3, <3>4, <3>5, <3>6, ZenonT(30)
  <2>2. /\ DOMAIN e = DOMAIN NoConn /\ e.pc = c.pc
        /\ e.answer = c.answer /\ e.due = c.due /\ e.left = c.left
    BY <1>0, NoConnFacts
  <2> HIDE DEF e
  <2>3. /\ d1.pc \in {"exchange", "hijack"} /\ d1.answer = c.answer
        /\ d2.pc = "handshake" /\ d2.answer = c.answer /\ d2.due = c.due /\ d2.left = c.left
    BY <2>2, NoConnFacts DEF Dialled
  <2>4. /\ d3.pc = "handshake" /\ d3.answer = c.answer /\ d3.due = c.due /\ d3.left = c.left
        /\ d4.pc = "greeting" /\ d4.answer = c.answer /\ d4.due = c.due /\ d4.left = c.left
    BY <2>2, NoConnFacts
  <2> HIDE DEF c, d1, d2, d3, d4
  <2>5. DueOk(d1)
    BY <2>0, <2>3, DueDone, Zenon DEF Dialling, Handshake
  <2>6. DueOk(d2) /\ DueOk(d3) /\ DueOk(d4)
    BY <1>0, <2>0, <2>3, <2>4, DueKept, Zenon DEF Dialling, Handshake
  <2> QED BY <1>a, <2>1, <2>5, <2>6, Zenon
<1>6. CASE DialFails(k)
  <2>1. Step(k, NextCandidate(c)) /\ c.pc \in Dialling
    BY <1>6 DEF DialFails, Dialling
  <2>2. DueOk(NextCandidate(c))
    BY <1>0, <2>1, DueNext, Zenon
  <2> QED BY <1>a, <2>1, <2>2, Zenon
<1>7. CASE HandshakeFails(k)
  <2> DEFINE e == [c EXCEPT !.socks = @ - 1]
  <2>1. Step(k, NextCandidate(e)) /\ c.pc \in Dialling
    BY <1>7 DEF HandshakeFails, Dialling
  <2>2. /\ DOMAIN e = DOMAIN NoConn /\ e.pc = c.pc
        /\ e.answer = c.answer /\ e.due = c.due /\ e.left = c.left
    BY <1>0, NoConnFacts, Zenon
  <2> HIDE DEF c, e
  <2>3. DueOk(e)
    BY <1>0, <2>2, DueKept, ZenonT(30)
  <2>4. DueOk(NextCandidate(e))
    BY <2>1, <2>2, <2>3, DueNext, Zenon
  <2> QED BY <1>a, <2>1, <2>4
<1>8. CASE HandshakeOk(k)
  <2>0. c.pc \in Dialling /\ c.answer # "dialerror"
    BY <1>0, <1>8 DEF HandshakeOk, DueOk, Dialling
  <2> DEFINE d1 == [c EXCEPT !.pc = "auth"]
             d2 == [c EXCEPT !.pc = "connect"]
             d3 == Dialled(k, c)
  <2>1. Step(k, d1) \/ Step(k, d2) \/ Step(k, d3)
    BY <1>8 DEF HandshakeOk
  <2>2. /\ d1.pc = "auth" /\ d1.answer = c.answer /\ d1.due = c.due /\ d1.left = c.left
        /\ d2.pc = "connect" /\ d2.answer = c.answer /\ d2.due = c.due /\ d2.left = c.left
    BY <1>0, NoConnFacts
  <2>3. d3.pc \in {"exchange", "hijack"} /\ d3.answer = c.answer
    BY <1>0, NoConnFacts, Zenon DEF Dialled
  <2> HIDE DEF c, d1, d2, d3
  <2>4. DueOk(d1) /\ DueOk(d2)
    BY <1>0, <2>0, <2>2, DueKept, Zenon DEF Dialling, Handshake
  <2>5. DueOk(d3)
    BY <2>0, <2>3, DueDone, Zenon DEF Dialling, Handshake
  <2> QED BY <1>a, <2>1, <2>4, <2>5, Zenon
<1>9. CASE ExchangeOk(k) \/ ExchangeFails(k)
  <2> DEFINE e == [c EXCEPT !.socks = @ - 1]
  <2>1. Step(k, Answered(e, "answered"))
    BY <1>9 DEF ExchangeOk, ExchangeFails
  <2> HIDE DEF e
  <2>2. DueOk(Answered(e, "answered"))
    BY DueAnswered
  <2> QED BY <1>a, <2>1, <2>2
<1>10. CASE Hijack(k)
  <2> DEFINE d1 == [NoConn EXCEPT !.socks = c.socks - 1]
             d2 == [c EXCEPT !.pc = "tunnel", !.copying = {"up", "down"}]
  <2>1. Step(k, d1) \/ Step(k, d2)
    BY <1>10 DEF Hijack
  <2>2. /\ d1.pc = "none" /\ d1.answer = "none"
        /\ d2.pc = "tunnel" /\ d2.answer = c.answer /\ d2.due = c.due /\ d2.left = c.left
    BY <1>0, NoConnFacts DEF NoConn
  <2> HIDE DEF c, d1, d2
  <2>3. DueOk(d1)
    BY <2>2, DueDone, Zenon DEF Dialling, Handshake
  <2>4. DueOk(d2)
    BY <1>0, <2>2, DueKept DEF Dialling, Handshake
  <2> QED BY <1>a, <2>1, <2>3, <2>4, Zenon
<1>11. ASSUME NEW d, Step(k, d), d.pc = c.pc, d.answer = c.answer, d.due = c.due, d.left = c.left
       PROVE  Well
  <2> HIDE DEF c
  <2>1. DueOk(d)
    BY <1>0, <1>11, DueKept
  <2> QED BY <1>a, <1>11, <2>1, Zenon
<1>12. CASE Tunnel(k)
  <2>1. CASE \E x \in {"up", "down"} : Step(k, [c EXCEPT !.copying = @ \ {x}])
    <3>1. PICK x \in {"up", "down"} : Step(k, [c EXCEPT !.copying = @ \ {x}])
      BY <2>1
    <3> DEFINE d == [c EXCEPT !.copying = @ \ {x}]
    <3>2. d.pc = c.pc /\ d.answer = c.answer /\ d.due = c.due /\ d.left = c.left
      BY <1>0, NoConnFacts
    <3> HIDE DEF d
    <3> QED BY <1>11, <3>1, <3>2, Zenon DEF d
  <2>2. CASE Step(k, [c EXCEPT !.socks = 0, !.client = "closed"])
    <3> DEFINE d == [c EXCEPT !.socks = 0, !.client = "closed"]
    <3>1. d.pc = c.pc /\ d.answer = c.answer /\ d.due = c.due /\ d.left = c.left
      BY <1>0, NoConnFacts
    <3> HIDE DEF d
    <3> QED BY <1>11, <2>2, <3>1, Zenon DEF d
  <2>3. CASE Step(k, NoConn)
    BY <1>a, <2>3, NoConnDue, Zenon
  <2> QED BY <1>12, <2>1, <2>2, <2>3, ZenonT(30) DEF Tunnel, CopyEnds, TearDown, TunnelDone
<1>13. CASE ClientEnds(k) \/ UpstreamEnds(k)
  <2> DEFINE d1 == [c EXCEPT !.client = "eof"]
             d2 == [c EXCEPT !.far = "eof"]
  <2>1. Step(k, NoConn) \/ Step(k, d1) \/ Step(k, d2)
    BY <1>13 DEF ClientEnds, UpstreamEnds
  <2>2. /\ d1.pc = c.pc /\ d1.answer = c.answer /\ d1.due = c.due /\ d1.left = c.left
        /\ d2.pc = c.pc /\ d2.answer = c.answer /\ d2.due = c.due /\ d2.left = c.left
    BY <1>0, NoConnFacts
  <2> HIDE DEF c, d1, d2
  <2> QED BY <1>a, <1>11, <2>1, <2>2, NoConnDue, ZenonT(30)
<1>14. CASE Stall(k)
  <2>1. PICK e : Step(k, [c EXCEPT !.stalled = e])
    BY <1>14, Zenon DEF Stall
  <2> DEFINE d == [c EXCEPT !.stalled = e]
  <2>2. d.pc = c.pc /\ d.answer = c.answer /\ d.due = c.due /\ d.left = c.left
    BY <1>0, NoConnFacts
  <2> HIDE DEF d
  <2> QED BY <1>11, <2>1, <2>2, Zenon DEF d
<1> QED
  BY <1>1, <1>2, <1>3, <1>4, <1>5, <1>6, <1>7, <1>8, <1>9, <1>10, <1>12, <1>13, <1>14, ZenonT(30)
     DEF ConnNext

(* DueIInv is inductive; Shutdown and Close only end connections. *)
LEMMA DueNextInv == FwdIInv /\ DueIInv /\ [Next]_fwdVars => DueIInv'
<1> SUFFICES ASSUME FwdIInv, DueIInv, [Next]_fwdVars PROVE DueIInv'
  OBVIOUS
<1>1. CASE conn' = conn
  BY <1>1 DEF DueIInv
<1>2. ASSUME NEW k \in Conn, ConnNext(k) PROVE DueIInv'
  <2>1. PICK d : Step(k, d) /\ DueOk(d)
    BY <1>2, DueSteps
  <2>2. \A j \in Conn : conn'[j] = d \/ conn'[j] = conn[j]
    BY <2>1 DEF Step, FwdIInv
  <2> QED BY <2>1, <2>2 DEF DueIInv
<1>3. CASE ShutdownOk \/ ShutdownExpires
  <2>1. ASSUME NEW k \in Conn PROVE DueOk(Cut(conn[k]))
    <3> DEFINE c == conn[k]
               d == [c EXCEPT !.client = "closed"]
    <3>1. DOMAIN c = DOMAIN NoConn /\ DueOk(c)
      BY DEF FwdIInv, ConnOk, DueIInv
    <3>2. d.pc = c.pc /\ d.answer = c.answer /\ d.due = c.due /\ d.left = c.left
      BY <3>1, NoConnFacts
    <3>3. Cut(c) = NoConn \/ Cut(c) = d
      BY DEF Cut
    <3> HIDE DEF c, d
    <3>4. DueOk(d)
      BY <3>1, <3>2, DueKept, Zenon
    <3>5. DueOk(Cut(c))
      BY <3>3, <3>4, NoConnDue, Zenon
    <3> QED BY <3>5 DEF c
  <2>2. \A k \in Conn : conn'[k] \in {NoConn, conn[k], Cut(conn[k])}
    BY <1>3, Zenon DEF ShutdownOk, ShutdownExpires
  <2>3. \A k \in Conn : DueOk(conn'[k])
    BY <2>1, <2>2, NoConnDue DEF DueIInv
  <2> QED BY <2>3 DEF DueIInv
<1> QED
  BY <1>1, <1>2, <1>3, Zenon
     DEF Next, fwdVars, Start, StartFails, StopNext, StopSwap, CloseListener, StopIdle, StopWait

(* A dial reports failure only after every address of the host asked for   *)
(* has been tried, whatever candidates a profile puts in front of them.    *)
THEOREM FwdFallbackTried == FwdSpec => []FallbackTried
<1>1. Init => DueIInv
  BY NoConnDue, Zenon DEF Init, DueIInv
<1>2. DueIInv => FallbackTried
  BY DEF DueIInv, DueOk, FallbackTried
<1> QED BY <1>1, <1>2, DueNextInv, FwdInvariant, PTL DEF FwdSpec

-----------------------------------------------------------------------------
(* Resolver: how long an address may be used *)

LEMMA AnswerTTLEmpty == AnswerTTL(<<>>) = 0
  BY LoopEmpty, Zenon DEF AnswerTTL

LEMMA AnswerTTLAppend ==
    ASSUME NEW R, \A r \in R : r.ttl \in Nat, NEW s \in Seq(R), NEW x \in R
    PROVE  /\ AnswerTTL(s) \in Nat
           /\ AnswerTTL(Append(s, x)) = MinPositiveTTL(AnswerTTL(s), x.ttl)
<1> DEFINE D == Range(s)
           D2 == Range(Append(s, x))
           F(E) == [r \in E |-> [cur \in Nat |-> MinPositiveTTL(cur, r.ttl)]]
<1>1. AnswerTTL(s) = LoopOver(F(D), 0, s) /\ AnswerTTL(Append(s, x)) = LoopOver(F(D2), 0, Append(s, x))
  BY Zenon DEF AnswerTTL
<1>2. s \in Seq(D) /\ D \subseteq R /\ D2 = D \cup {x}
  BY RangeOfSeq, RangeAppend, Zenon
<1> HIDE DEF D, D2
<1>3. F(D) \in [D -> [Nat -> Nat]]
  BY <1>2 DEF MinPositiveTTL
<1>4. \A b \in D, a \in Nat : F(D2)[b][a] = F(D)[b][a]
  BY <1>2
<1>5. \A a \in Nat : F(D2)[x][a] = MinPositiveTTL(a, x.ttl)
  BY <1>2
<1> DEFINE f == F(D)
           g == F(D2)
<1>6. LoopIn(Nat, D, f, 0, s) /\ Extends(g, f, Nat, D)
  BY <1>2, <1>3, <1>4, Zenon DEF LoopIn, Extends
<1>7. \A a \in Nat : g[x][a] = MinPositiveTTL(a, x.ttl)
  BY <1>5
<1>8. AnswerTTL(s) = LoopOver(f, 0, s) /\ AnswerTTL(Append(s, x)) = LoopOver(g, 0, Append(s, x))
  BY <1>1, Zenon
<1> HIDE DEF f, g
<1>9. LoopOver(f, 0, s) \in Nat /\ LoopOver(g, 0, Append(s, x)) = g[x][LoopOver(f, 0, s)]
  BY <1>6, LoopAppend, SMTT(30)
<1> QED BY <1>7, <1>8, <1>9

(* minPositiveTTL over the records of an answer is the least of their TTLs *)
(* if they are all positive.                                               *)
LEMMA AnswerTTLFacts ==
    ASSUME NEW R, \A x \in R : x.ttl \in Nat, NEW answer \in Seq(R), answer # <<>>
    PROVE  /\ AnswerTTL(answer) \in Nat
           /\ (\A x \in Range(answer) : x.ttl # 0) =>
                 AnswerTTL(answer) # 0 /\ \A x \in Range(answer) : AnswerTTL(answer) <= x.ttl
<1> DEFINE Positive(s) == \A r \in Range(s) : r.ttl # 0
           Least(s) == /\ (s # <<>> <=> AnswerTTL(s) # 0)
                       /\ \A r \in Range(s) : AnswerTTL(s) <= r.ttl
           T == {s \in Seq(R) : AnswerTTL(s) \in Nat /\ (Positive(s) => Least(s))}
<1>1. <<>> \in T
  BY AnswerTTLEmpty, RangeEmpty, SMTT(30)
<1>2. ASSUME NEW s \in Seq(R), NEW x \in R, s \in T PROVE Append(s, x) \in T
  <2> DEFINE v == AnswerTTL(s)
             w == AnswerTTL(Append(s, x))
             ttl == x.ttl
  <2>1. v \in Nat /\ w = MinPositiveTTL(v, ttl) /\ ttl \in Nat
    BY AnswerTTLAppend
  <2>2. Range(Append(s, x)) = Range(s) \cup {x} /\ Append(s, x) # <<>> /\ Append(s, x) \in Seq(R)
    BY RangeAppend
  <2>3. Range(s) \subseteq R
    BY RangeOfSeq
  <2>4. ASSUME Positive(Append(s, x)) PROVE Least(Append(s, x))
    <3>1. Positive(s) /\ ttl # 0
      BY <2>2, <2>4, Zenon
    <3>2. (v # 0 <=> s # <<>>) /\ \A r \in Range(s) : v <= r.ttl /\ r.ttl \in Nat
      BY <1>2, <2>3, <3>1, Zenon
    <3> HIDE DEF v, w, ttl
    <3>3. CASE v = 0
      <4>1. w = ttl /\ s = <<>>
        BY <2>1, <3>2, <3>3, Zenon DEF MinPositiveTTL
      <4>2. Range(s) = {}
        BY <4>1, RangeEmpty, Zenon
      <4>3. w # 0 /\ w <= ttl
        BY <2>1, <3>1, <4>1
      <4> QED BY <2>2, <4>2, <4>3, Zenon DEF w, ttl
    <3>4. CASE v # 0
      <4>1. w # 0 /\ w <= ttl /\ w <= v /\ w \in Nat
        BY <2>1, <3>1, <3>4 DEF MinPositiveTTL
      <4>2. \A r \in Range(s) : w <= r.ttl
        BY <2>1, <3>2, <4>1, AtMost, Zenon
      <4> QED BY <2>2, <4>1, <4>2, Zenon DEF w, ttl
    <3> QED BY <3>3, <3>4, Zenon
  <2>5. w \in Nat
    BY <2>1 DEF MinPositiveTTL
  <2> HIDE DEF Positive, Least
  <2> QED BY <2>2, <2>4, <2>5, Zenon
<1>3. Seq(R) \subseteq T
  <2> HIDE DEF T
  <2> QED BY <1>1, <1>2, SeqInduct, Zenon
<1> QED BY <1>3

(* Times and lifetimes. *)
LEMMA MinDurationFacts ==
    ASSUME NEW a \in Nat, NEW b \in Nat
    PROVE  /\ MinDuration(a, b) \in Nat
           /\ b # 0 => MinDuration(a, b) # 0 /\ MinDuration(a, b) <= b
           /\ a # 0 => MinDuration(a, b) # 0 /\ MinDuration(a, b) <= a
  BY DEF MinDuration

LEMMA TimesFacts ==
    /\ 0 \in Nat /\ CacheTTL \in Nat /\ CacheTTL # 0 /\ Timeout \in Nat
    /\ \A t \in Nat : t <= t /\ t - t <= Timeout /\ t + 1 \in Nat /\ t - t <= t + Timeout
<1>1. CacheTTL \in Nat /\ CacheTTL # 0 /\ Timeout \in Nat
  BY ResolverAssumption, Zenon
<1> QED BY <1>1

LEMMA CapFacts ==
    ASSUME NEW ttl \in Nat
    PROVE  CapTTL(ttl) \in Nat /\ CapTTL(ttl) <= CacheTTL /\ (ttl # 0 => CapTTL(ttl) <= ttl)
  BY TimesFacts DEF CapTTL

Gathered(g) ==
    /\ DOMAIN g = DOMAIN Nothing
    /\ {g.ttl, g.born, g.expire} \subseteq Nat /\ g.seen \subseteq Nat

(* What g holds may be used at the time t. *)
InTime(g, t) ==
    /\ t - g.born <= CacheTTL + Timeout
    /\ 0 \notin g.seen => \A s \in g.seen : t - g.born <= s + Timeout

(* While its servers are asked, a call is within its Timeout, the first    *)
(* answer came after it began, and its TTL is none of more than was seen.  *)
CallOk(d, time) ==
    /\ DOMAIN d = DOMAIN NoCall /\ Gathered(d.got) /\ d.start \in Nat
    /\ d.pc \in {"query", "finish"} =>
          /\ d.start <= time /\ time - d.start <= Timeout
          /\ d.got.raw # <<>> => d.start <= d.got.born /\ d.got.born <= time
          /\ 0 \notin d.got.seen => \A s \in d.got.seen : d.got.ttl # 0 /\ d.got.ttl <= s
    /\ d.pc = "ok" => InTime(d.got, time)

EntryOk(e) == Gathered(e) /\ InTime(e, e.expire)

ResIInv ==
    /\ now \in Nat
    /\ DOMAIN call = Caller
    /\ EntryOk(entry)
    /\ \A c \in Caller : CallOk(call[c], now)

LEMMA NothingFacts ==
    /\ DOMAIN Nothing = {"raw", "ips", "ttl", "born", "seen", "expire"}
    /\ DOMAIN NoCall = {"pc", "fam", "i", "start", "got"}
    /\ EntryOk(Nothing)
    /\ \A time \in Nat : CallOk(NoCall, time)
<1>1. /\ DOMAIN Nothing = {"raw", "ips", "ttl", "born", "seen", "expire"}
      /\ Nothing.ttl = 0 /\ Nothing.born = 0 /\ Nothing.expire = 0 /\ Nothing.seen = {}
  BY DEF Nothing
<1>2. /\ DOMAIN NoCall = {"pc", "fam", "i", "start", "got"}
      /\ NoCall.pc = "idle" /\ NoCall.start = 0 /\ NoCall.got = Nothing
  BY DEF NoCall
<1>3. 0 - 0 <= CacheTTL + Timeout
  BY TimesFacts
<1>4. EntryOk(Nothing)
  BY <1>1, <1>3, TimesFacts, Zenon DEF EntryOk, Gathered, InTime
<1>5. ASSUME NEW time \in Nat PROVE CallOk(NoCall, time)
  <2>1. NoCall.pc \notin {"query", "finish", "ok"}
    BY <1>2
  <2>2. DOMAIN NoCall = DOMAIN NoCall /\ Gathered(NoCall.got) /\ NoCall.start \in Nat
    BY <1>2, <1>4, TimesFacts, Zenon DEF EntryOk
  <2> QED BY <2>1, <2>2, Zenon DEF CallOk
<1> QED BY <1>1, <1>2, <1>4, <1>5, Zenon

(* A step of one call, from its new state. *)
LEMMA CallStep ==
    ASSUME ResIInv, NEW c \in Caller, NEW d, Set(c, d), CallOk(d, now), now' = now, EntryOk(entry')
    PROVE  ResIInv'
<1>1. DOMAIN call' = Caller /\ \A b \in Caller : call'[b] = d \/ call'[b] = call[b]
  BY Zenon DEF Set, ResIInv
<1> QED BY <1>1 DEF ResIInv

(* A call that goes on as it is. *)
LEMMA CallGoesOn ==
    ASSUME NEW time, NEW b, CallOk(b, time), b.pc \in {"query", "finish"},
           NEW d, DOMAIN d = DOMAIN NoCall, d.got = b.got, d.start = b.start,
           d.pc \in {"query", "finish"}
    PROVE  CallOk(d, time)
BY DEF CallOk

LEMMA NextFamilyFacts ==
    ASSUME NEW time, NEW b, CallOk(b, time), b.pc = "query"
    PROVE  CallOk(NextFamily(b), time)
<1> DEFINE d1 == [b EXCEPT !.fam = "AAAA", !.i = 1]
           d2 == [b EXCEPT !.pc = "finish"]
<1>1. DOMAIN b = DOMAIN NoCall
  BY DEF CallOk
<1>2. /\ DOMAIN d1 = DOMAIN NoCall /\ d1.got = b.got /\ d1.start = b.start /\ d1.pc = b.pc
      /\ DOMAIN d2 = DOMAIN NoCall /\ d2.got = b.got /\ d2.start = b.start /\ d2.pc = "finish"
  BY <1>1, NothingFacts
<1>3. NextFamily(b) = d1 \/ NextFamily(b) = d2
  BY Zenon DEF NextFamily
<1> HIDE DEF d1, d2
<1>4. CallOk(d1, time) /\ CallOk(d2, time)
  BY <1>2, CallGoesOn
<1> QED BY <1>3, <1>4, Zenon

(* An answer joins what the call has. *)
LEMMA GatherFacts ==
    ASSUME NEW got, Gathered(got), NEW answer, NEW ttl
    PROVE  LET g == Gather(got, answer, ttl)
           IN  /\ DOMAIN g = DOMAIN Nothing
               /\ g.ttl = MinDuration(got.ttl, ttl)
               /\ g.born = IF got.raw = <<>> THEN now ELSE got.born
               /\ g.seen = got.seen \cup {r.ttl : r \in Range(answer)}
               /\ g.expire = got.expire
BY NothingFacts DEF Gather, Gathered

LEMMA GatherDomain ==
    ASSUME NEW got, Gathered(got), NEW answer, NEW ttl
    PROVE  DOMAIN Gather(got, answer, ttl) = DOMAIN Nothing
BY GatherFacts

LEMMA QueryOkStep ==
    ASSUME ResIInv, NEW c \in Caller, NEW answer \in UNION {Answers[f] : f \in Family},
           QueryOk(c, answer)
    PROVE  ResIInv'
<1> DEFINE b == call[c]
           got == b.got
           ttl == AnswerTTL(answer)
           g == Gather(got, answer, ttl)
           d == [b EXCEPT !.got = g]
           ttls == {r.ttl : r \in Range(answer)}
<1>0. CallOk(b, now) /\ b.pc = "query" /\ now \in Nat /\ Set(c, NextFamily(d))
  BY DEF ResIInv, QueryOk
<1>1. /\ answer \in Seq(Range(answer)) /\ answer # <<>>
      /\ \A r \in Range(answer) : r.ttl \in Nat
  BY ResolverAssumption, SMTT(30) DEF Family
<1>2. ttl \in Nat /\ ttls \subseteq Nat
  <2>1. ttl \in Nat
    BY <1>1, AnswerTTLFacts, Zenon
  <2> QED BY <1>1, <2>1, Zenon
<1>3. 0 \notin ttls => ttl # 0 /\ \A s \in ttls : ttl <= s
  <2>1. (\A r \in Range(answer) : r.ttl # 0) => ttl # 0 /\ \A r \in Range(answer) : ttl <= r.ttl
    BY <1>1, AnswerTTLFacts, Zenon
  <2> HIDE DEF ttl
  <2> QED BY <2>1, Zenon
<1>4. Gathered(got) /\ DOMAIN b = DOMAIN NoCall
  BY <1>0 DEF CallOk
<1>5. /\ DOMAIN d = DOMAIN NoCall /\ d.got = g /\ d.start = b.start /\ d.pc = "query"
  BY <1>0, <1>4, NothingFacts, ZenonT(30)
<1>6. /\ DOMAIN g = DOMAIN Nothing
      /\ g.ttl = MinDuration(got.ttl, ttl)
      /\ g.born = IF got.raw = <<>> THEN now ELSE got.born
      /\ g.seen = got.seen \cup ttls
      /\ g.expire = got.expire
  <2> HIDE DEF got, ttl
  <2> QED BY <1>4, GatherFacts
<1> HIDE DEF g, d, ttl, ttls
<1>7. Gathered(g)
  BY <1>0, <1>2, <1>4, <1>6, ZenonT(30) DEF Gathered, MinDuration
<1>8. /\ b.start \in Nat /\ b.start <= now /\ now - b.start <= Timeout
      /\ b.start <= g.born /\ g.born <= now
  <2>1. /\ b.start \in Nat /\ b.start <= now /\ now - b.start <= Timeout
        /\ got.raw # <<>> => b.start <= got.born /\ got.born <= now
    BY <1>0, Zenon DEF CallOk
  <2>2. now <= now
    BY <1>0, TimesFacts, Zenon
  <2> QED BY <1>6, <2>1, <2>2, Zenon
<1>9. ASSUME 0 \notin g.seen, NEW s \in g.seen PROVE g.ttl # 0 /\ g.ttl <= s
  <2> DEFINE old == got.ttl
             seen == got.seen
  <2>1. old \in Nat /\ seen \subseteq Nat
    BY <1>4, Zenon DEF Gathered
  <2>2. 0 \notin ttls /\ 0 \notin seen /\ s \in seen \cup ttls
    BY <1>6, <1>9, Zenon
  <2>3. \A x \in seen : old # 0 /\ old <= x
    BY <1>0, <2>2, Zenon DEF CallOk
  <2> HIDE DEF old, seen
  <2>4. g.ttl = MinDuration(old, ttl)
    BY <1>6, Zenon DEF old
  <2>5. g.ttl # 0 /\ g.ttl <= ttl /\ (old # 0 => g.ttl <= old) /\ g.ttl \in Nat
    BY <1>2, <1>3, <2>1, <2>2, <2>4, MinDurationFacts, ZenonT(30)
  <2>6. CASE s \in ttls
    BY <1>2, <1>3, <2>2, <2>5, <2>6, AtMost, ZenonT(30)
  <2>7. CASE s \in seen
    <3>1. old # 0 /\ old <= s /\ s \in Nat
      BY <2>1, <2>3, <2>7, Zenon
    <3> HIDE DEF g
    <3> QED BY <2>1, <2>5, <3>1, AtMost, Zenon
  <2> QED BY <2>2, <2>5, <2>6, <2>7, Zenon
<1>10. CallOk(d, now)
  BY <1>5, <1>7, <1>8, <1>9, Zenon DEF CallOk
<1>11. CallOk(NextFamily(d), now)
  BY <1>5, <1>10, NextFamilyFacts, Zenon
<1> QED BY <1>0, <1>11, CallStep, Zenon DEF QueryOk, ResIInv

LEMMA SystemOkStep ==
    ASSUME ResIInv, NEW c \in Caller, NEW four, NEW six, SystemOk(c, four, six)
    PROVE  ResIInv'
<1> DEFINE b == call[c]
           got == b.got
           g == Gather(got, four \o six, CacheTTL)
           h == [g EXCEPT !.seen = {CacheTTL}]
           d == [b EXCEPT !.pc = "finish", !.got = h]
<1>0. CallOk(b, now) /\ b.pc = "query" /\ now \in Nat /\ Set(c, d)
  BY DEF ResIInv, SystemOk
<1>1. Gathered(got) /\ DOMAIN b = DOMAIN NoCall
  BY <1>0 DEF CallOk
<1>2. /\ DOMAIN d = DOMAIN NoCall /\ d.got = h /\ d.start = b.start /\ d.pc = "finish"
  BY <1>0, <1>1, NothingFacts, ZenonT(30)
<1>3. /\ DOMAIN g = DOMAIN Nothing
      /\ g.ttl = MinDuration(got.ttl, CacheTTL)
      /\ g.born = IF got.raw = <<>> THEN now ELSE got.born
      /\ g.expire = got.expire
  <2> HIDE DEF got
  <2> QED BY <1>1, GatherFacts, SMTT(30)
<1> HIDE DEF g, d
<1>4. /\ DOMAIN h = DOMAIN Nothing /\ h.ttl = g.ttl /\ h.born = g.born
      /\ h.expire = g.expire /\ h.seen = {CacheTTL}
  BY <1>3, NothingFacts, Zenon
<1> HIDE DEF h
<1>5. Gathered(h) /\ h.ttl # 0 /\ h.ttl <= CacheTTL
  <2>1. {got.ttl, got.born, got.expire} \subseteq Nat
    BY <1>1, Zenon DEF Gathered
  <2>2. h.ttl \in Nat /\ h.ttl # 0 /\ h.ttl <= CacheTTL
    <3>1. got.ttl \in Nat /\ CacheTTL \in Nat /\ CacheTTL # 0
      BY <2>1, TimesFacts, Zenon
    <3>2. h.ttl = MinDuration(got.ttl, CacheTTL)
      BY <1>3, <1>4, Zenon
    <3> HIDE DEF got
    <3> QED BY <3>1, <3>2, MinDurationFacts, Zenon
  <2>3. h.born \in Nat /\ h.expire \in Nat
    BY <1>0, <1>3, <1>4, <2>1, Zenon
  <2> QED BY <1>4, <2>2, <2>3, TimesFacts, Zenon DEF Gathered
<1>6. /\ b.start \in Nat /\ b.start <= now /\ now - b.start <= Timeout
      /\ b.start <= h.born /\ h.born <= now
  <2>1. /\ b.start \in Nat /\ b.start <= now /\ now - b.start <= Timeout
        /\ got.raw # <<>> => b.start <= got.born /\ got.born <= now
    BY <1>0, Zenon DEF CallOk
  <2>2. now <= now
    BY <1>0, TimesFacts, Zenon
  <2> QED BY <1>3, <1>4, <2>1, <2>2, Zenon
<1>7. CallOk(d, now)
  BY <1>2, <1>4, <1>5, <1>6, Zenon DEF CallOk
<1> QED BY <1>0, <1>7, CallStep, Zenon DEF SystemOk, ResIInv

LEMMA FinishStep ==
    ASSUME ResIInv, NEW c \in Caller, Finish(c)
    PROVE  ResIInv'
<1> DEFINE b == call[c]
           got == b.got
           ips == ApplyPolicy(got.raw)
           cap == CapTTL(got.ttl)
           full == [got EXCEPT !.ips = ips, !.ttl = CapTTL(@), !.expire = now + cap]
           d1 == [b EXCEPT !.pc = "failed"]
           d2 == [b EXCEPT !.pc = "ok", !.got = full]
<1>0. CallOk(b, now) /\ b.pc = "finish" /\ now \in Nat
  BY DEF ResIInv, Finish
<1>1. \/ Set(c, d1) /\ entry' = entry
      \/ Set(c, d2) /\ entry' = full /\ got.raw # <<>>
  BY ZenonT(30) DEF Finish
<1>2. Gathered(got) /\ DOMAIN b = DOMAIN NoCall
  BY <1>0 DEF CallOk
<1>3. /\ DOMAIN d1 = DOMAIN NoCall /\ d1.got = got /\ d1.start = b.start /\ d1.pc = "failed"
      /\ DOMAIN d2 = DOMAIN NoCall /\ d2.got = full /\ d2.start = b.start /\ d2.pc = "ok"
  BY <1>2, NothingFacts, Zenon
<1>4. /\ DOMAIN full = DOMAIN Nothing /\ full.ttl = cap /\ full.expire = now + cap
      /\ full.born = got.born /\ full.seen = got.seen
  BY <1>2, NothingFacts, Zenon DEF Gathered
<1> HIDE DEF full, d1, d2
<1>5. cap \in Nat /\ cap <= CacheTTL /\ (got.ttl # 0 => cap <= got.ttl)
  <2>1. got.ttl \in Nat
    BY <1>2, Zenon DEF Gathered
  <2> QED BY <2>1, CapFacts, Zenon
<1> HIDE DEF cap
<1>6. Gathered(full)
  <2>1. now + cap \in Nat
    BY <1>0, <1>5
  <2>2. got.born \in Nat /\ got.seen \subseteq Nat
    BY <1>2, Zenon DEF Gathered
  <2> QED BY <1>4, <1>5, <2>1, <2>2, ZenonT(30) DEF Gathered
<1>7. CASE Set(c, d1) /\ entry' = entry
  <2>1. CallOk(d1, now)
    BY <1>0, <1>3, Zenon DEF CallOk
  <2> QED BY <1>7, <2>1, CallStep, Zenon DEF Finish, ResIInv
<1>8. CASE Set(c, d2) /\ entry' = full /\ got.raw # <<>>
  <2> DEFINE born == got.born
             seen == got.seen
  <2>1. born \in Nat /\ seen \subseteq Nat /\ now - born <= Timeout
    <3>1. born \in Nat /\ seen \subseteq Nat
      BY <1>2, Zenon DEF Gathered
    <3>2. b.start \in Nat /\ b.start <= born /\ now - b.start <= Timeout
      BY <1>0, <1>8, Zenon DEF CallOk
    <3> HIDE DEF born, seen
    <3> QED BY <1>0, <3>1, <3>2, Ages, TimesFacts, ZenonT(30)
  <2>2. ASSUME 0 \notin seen, NEW s \in seen PROVE cap <= s
    <3>1. got.ttl # 0 /\ got.ttl <= s /\ got.ttl \in Nat /\ s \in Nat
      BY <1>0, <1>2, <2>2, Zenon DEF CallOk, Gathered
    <3> QED BY <1>5, <3>1, AtMost, Zenon
  <2> HIDE DEF born, seen
  <2>3. CacheTTL \in Nat /\ Timeout \in Nat
    BY ResolverAssumption, Zenon
  <2>4. (now + cap) - born <= CacheTTL + Timeout /\ now - born <= CacheTTL + Timeout
    BY <1>0, <1>5, <2>1, <2>3, Lasts, ZenonT(30)
  <2>5. ASSUME 0 \notin seen, NEW s \in seen
        PROVE  (now + cap) - born <= s + Timeout /\ now - born <= s + Timeout
    BY <1>0, <1>5, <2>1, <2>2, <2>3, <2>5, Lasts, ZenonT(30)
  <2>6. InTime(full, now) /\ InTime(full, full.expire)
    BY <1>4, <2>4, <2>5, Zenon DEF InTime, born, seen
  <2>7. CallOk(d2, now)
    BY <1>0, <1>3, <1>6, <2>6, Zenon DEF CallOk
  <2> QED BY <1>6, <1>8, <2>6, <2>7, CallStep, ZenonT(30) DEF Finish, EntryOk
<1> QED BY <1>1, <1>7, <1>8, Zenon

(* The beginning of a call, and the steps in which nothing is learnt. *)
LEMMA ResolverStep ==
    ASSUME ResIInv, NEW c \in Caller,
           \/ \E ip \in Address : ResolveLiteral(c, ip)
           \/ ResolveCached(c) \/ ResolveFresh(c)
           \/ QueryFails(c) \/ QueryTimesOut(c) \/ Return(c)
    PROVE  ResIInv'
<1> DEFINE b == call[c]
<1>0. CallOk(b, now) /\ DOMAIN b = DOMAIN NoCall /\ EntryOk(entry) /\ now \in Nat
  BY ZenonT(30) DEF ResIInv, CallOk
<1>t. CacheTTL \in Nat /\ Timeout \in Nat
  BY ResolverAssumption, Zenon
<1>1. ASSUME NEW ip \in Address, ResolveLiteral(c, ip) PROVE ResIInv'
  <2> DEFINE ips == ApplyPolicy(<<ip>>)
             g == [Nothing EXCEPT !.raw = <<ip>>, !.ips = ips, !.born = now]
             d == [NoCall EXCEPT !.pc = IF ips = <<>> THEN "failed" ELSE "ok", !.start = now, !.got = g]
  <2>1. Set(c, d) /\ entry' = entry /\ now' = now
    BY <1>1, Zenon DEF ResolveLiteral
  <2>2. /\ DOMAIN d = DOMAIN NoCall /\ d.got = g /\ d.start = now /\ d.pc \in {"failed", "ok"}
    BY NothingFacts
  <2>3. /\ DOMAIN g = DOMAIN Nothing /\ g.ttl = 0 /\ g.expire = 0 /\ g.seen = {} /\ g.born = now
    BY Zenon DEF Nothing
  <2> HIDE DEF g, d
  <2>4. Gathered(g) /\ InTime(g, now)
    <3>1. now - now <= CacheTTL + Timeout
      BY <1>0, <1>t
    <3> QED BY <1>0, <2>3, <3>1, TimesFacts, ZenonT(30) DEF Gathered, InTime
  <2>5. CallOk(d, now)
    BY <1>0, <2>2, <2>4, ZenonT(30) DEF CallOk
  <2> QED BY <1>0, <2>1, <2>5, CallStep, Zenon
<1>2. CASE ResolveCached(c)
  <2> DEFINE d == [NoCall EXCEPT !.pc = "ok", !.start = now, !.got = entry]
  <2>1. Set(c, d) /\ entry' = entry /\ now' = now /\ now <= entry.expire
    BY <1>2 DEF ResolveCached
  <2>2. DOMAIN d = DOMAIN NoCall /\ d.got = entry /\ d.start = now /\ d.pc = "ok"
    BY NothingFacts, Zenon
  <2> HIDE DEF d
  <2>3. Gathered(entry) /\ InTime(entry, now)
    <3>1. entry.expire \in Nat /\ entry.born \in Nat /\ entry.seen \subseteq Nat
      BY <1>0, ZenonT(30) DEF EntryOk, Gathered
    <3>2. now - entry.born <= CacheTTL + Timeout
      BY <1>0, <1>t, <2>1, <3>1, Earlier, ZenonT(30) DEF EntryOk, InTime
    <3>3. ASSUME 0 \notin entry.seen, NEW s \in entry.seen PROVE now - entry.born <= s + Timeout
      BY <1>0, <1>t, <2>1, <3>1, <3>3, Earlier, ZenonT(30) DEF EntryOk, InTime
    <3> QED BY <1>0, <3>2, <3>3, Zenon DEF EntryOk, InTime
  <2>4. CallOk(d, now)
    BY <1>0, <2>2, <2>3, ZenonT(30) DEF CallOk
  <2> QED BY <1>0, <2>1, <2>4, CallStep, Zenon
<1>3. CASE ResolveFresh(c)
  <2> DEFINE ttl == IF cfg.mode = "dns" THEN CacheTTL ELSE 0
             d == [NoCall EXCEPT !.pc = "query", !.start = now, !.got.ttl = ttl]
             g == [Nothing EXCEPT !.ttl = ttl]
  <2>1. Set(c, d) /\ entry' = Nothing /\ now' = now
    BY <1>3 DEF ResolveFresh
  <2>2. DOMAIN d = DOMAIN NoCall /\ d.got = g /\ d.start = now /\ d.pc = "query"
    BY DEF NoCall
  <2>3. /\ DOMAIN g = DOMAIN Nothing /\ g.ttl \in Nat /\ g.expire = 0 /\ g.seen = {} /\ g.born = 0
        /\ g.raw = <<>>
    BY <1>t, Zenon DEF Nothing
  <2> HIDE DEF d, g
  <2>4. Gathered(g)
    BY <2>3, TimesFacts, Zenon DEF Gathered
  <2>5. CallOk(d, now)
    <3>1. now <= now /\ now - now <= Timeout
      BY <1>0, TimesFacts, Zenon
    <3>2. d.pc # "ok" /\ \A s \in {} : d.got.ttl # 0 /\ d.got.ttl <= s
      BY <2>2
    <3> QED BY <1>0, <2>2, <2>3, <2>4, <3>1, <3>2, ZenonT(30) DEF CallOk
  <2> QED BY <2>1, <2>5, CallStep, NothingFacts, ZenonT(30)
<1>4. CASE QueryFails(c)
  <2> DEFINE d == [b EXCEPT !.i = @ + 1]
  <2>1. (Set(c, d) \/ Set(c, NextFamily(b))) /\ entry' = entry /\ now' = now /\ b.pc = "query"
    BY <1>4 DEF QueryFails
  <2>2. DOMAIN d = DOMAIN NoCall /\ d.got = b.got /\ d.start = b.start /\ d.pc = b.pc
    BY <1>0, NothingFacts, ZenonT(30)
  <2> HIDE DEF b, d
  <2>3. CallOk(d, now) /\ CallOk(NextFamily(b), now)
    BY <1>0, <2>1, <2>2, CallGoesOn, NextFamilyFacts, ZenonT(30)
  <2> QED BY <1>0, <2>1, <2>3, CallStep, ZenonT(30)
<1>5. CASE QueryTimesOut(c)
  <2> DEFINE d == [b EXCEPT !.pc = "finish"]
  <2>1. Set(c, d) /\ entry' = entry /\ now' = now /\ b.pc = "query"
    BY <1>5 DEF QueryTimesOut
  <2>2. DOMAIN d = DOMAIN NoCall /\ d.got = b.got /\ d.start = b.start /\ d.pc = "finish"
    BY <1>0, NothingFacts, Zenon
  <2> HIDE DEF b, d
  <2>3. CallOk(d, now)
    BY <1>0, <2>1, <2>2, CallGoesOn, Zenon
  <2> QED BY <1>0, <2>1, <2>3, CallStep, ZenonT(30)
<1>6. CASE Return(c)
  BY <1>0, <1>6, CallStep, NothingFacts, ZenonT(30) DEF Return
<1> QED BY <1>1, <1>2, <1>3, <1>4, <1>5, <1>6, ZenonT(30)

(* The clock does not run past the Timeout of a call, nor while a result   *)
(* is being used.                                                          *)
LEMMA CallWaits ==
    ASSUME NEW t \in Nat, NEW d, CallOk(d, t), d.pc \notin {"finish", "ok"},
           d.pc = "query" => t - d.start < Timeout
    PROVE  CallOk(d, t + 1)
<1>1. d.start \in Nat /\ Gathered(d.got) /\ d.got.born \in Nat /\ Timeout \in Nat
  BY ResolverAssumption, Zenon DEF CallOk, Gathered
<1>2. CASE d.pc = "query"
  <2>1. d.start <= t + 1 /\ (t + 1) - d.start <= Timeout
    <3>1. d.start <= t /\ t - d.start < Timeout
      BY <1>2, Zenon DEF CallOk
    <3> QED BY <1>1, <3>1, StillPast, OneLater, Zenon
  <2>2. d.got.raw # <<>> => d.start <= d.got.born /\ d.got.born <= t + 1
    <3>1. d.got.raw # <<>> => d.start <= d.got.born /\ d.got.born <= t
      BY <1>2, ZenonT(30) DEF CallOk
    <3> QED BY <1>1, <3>1, StillPast, ZenonT(30)
  <2> QED BY <1>2, <2>1, <2>2, Zenon DEF CallOk
<1>3. CASE d.pc # "query"
  BY <1>3 DEF CallOk
<1> QED BY <1>2, <1>3, Zenon

LEMMA TickStep == ASSUME ResIInv, Tick PROVE ResIInv'
<1>1. now \in Nat /\ now' = now + 1 /\ now' \in Nat /\ call' = call /\ entry' = entry
  BY TimesFacts, Zenon DEF ResIInv, Tick
<1>2. \A c \in Caller : CallOk(call[c], now + 1)
  BY <1>1, CallWaits, Zenon DEF ResIInv, Tick
<1> QED BY <1>1, <1>2, Zenon DEF ResIInv

LEMMA ResNextInv == ResIInv /\ [ResNext]_resVars => ResIInv'
<1> SUFFICES ASSUME ResIInv, [ResNext]_resVars PROVE ResIInv'
  OBVIOUS
<1>1. CASE UNCHANGED resVars
  BY <1>1 DEF resVars, ResIInv
<1> QED
  BY <1>1, TickStep, ResolverStep, QueryOkStep, SystemOkStep, FinishStep, ZenonT(30) DEF ResNext

(* No address is returned later than cache_ttl and one timeout after a     *)
(* server gave it, nor, where all TTLs are positive, later than the least  *)
(* of them and one timeout: however Resolve calls overlap and whichever of *)
(* them fills the cache.                                                   *)
THEOREM ResHonoursTTL == ResSpec => []HonoursTTL
<1>1. ResInit => ResIInv
  <2>1. ASSUME ResInit PROVE /\ now \in Nat /\ DOMAIN call = Caller /\ entry = Nothing
                             /\ \A c \in Caller : call[c] = NoCall
    BY <2>1, TimesFacts, ZenonT(30) DEF ResInit
  <2> QED BY <2>1, NothingFacts, Zenon DEF ResIInv
<1>2. ResIInv => HonoursTTL
  BY DEF ResIInv, CallOk, InTime, HonoursTTL
<1> QED BY <1>1, <1>2, ResNextInv, PTL DEF ResSpec

-----------------------------------------------------------------------------
(* Resolver: what the policy makes of the answers *)

LEMMA FirstFacts ==
    ASSUME NEW B, NEW s \in Seq(B), NEW y \in Range(s)
    PROVE  /\ First(s, y) \in 1..Len(s) /\ s[First(s, y)] = y
           /\ \A j \in 1..First(s, y) - 1 : s[j] # y
<1> DEFINE At == {i \in DOMAIN s : s[i] = y}
<1>1. At \subseteq Nat /\ At # {} /\ DOMAIN s = 1..Len(s)
  BY DEF Range
<1>2. PICK i \in At : \A j \in At : i <= j
  BY <1>1, LeastExists, Zenon
<1>3. i \in DOMAIN s /\ s[i] = y /\ \A j \in 1..i - 1 : s[j] # y
  <2>1. \A j \in 1..i - 1 : j \in DOMAIN s /\ ~(i <= j)
    BY <1>1
  <2> QED BY <1>2, <2>1, Zenon
<1> QED BY <1>1, <1>3, Zenon DEF First

LEMMA KeepKept ==
    \A x \in Seq(Address) : \A S, U : Keep(Keep(x, S), U) = Keep(x, S \cap U)
  BY KeepKeep, Zenon

LEMMA KeepJoined ==
    \A x, y \in Seq(Address) : \A S : Keep(x \o y, S) = Keep(x, S) \o Keep(y, S)
  BY KeepConcat

LEMMA FirstIs ==
    ASSUME NEW B, NEW s \in Seq(B), NEW y, NEW i \in 1..Len(s), s[i] = y,
           \A j \in 1..i - 1 : s[j] # y
    PROVE  First(s, y) = i
<1>1. y \in Range(s)
  BY DEF Range
<1> DEFINE f == First(s, y)
<1>2. f \in 1..Len(s) /\ s[f] = y /\ \A j \in 1..f - 1 : s[j] # y
  BY <1>1, FirstFacts, ZenonT(30)
<1> HIDE DEF f
<1>3. f <= i /\ i <= f
  BY <1>2
<1>4. f = i
  <2>1. f \in Nat /\ i \in Nat
    BY <1>2
  <2> QED BY <1>3, <2>1, SameNat, Zenon
<1> QED BY <1>4, Zenon DEF f

(* An address keeps its place when another one is added. *)
LEMMA FirstAppend ==
    ASSUME NEW B, NEW s \in Seq(B), NEW x \in B
    PROVE  /\ \A y \in Range(s) : First(Append(s, x), y) = First(s, y)
           /\ x \notin Range(s) => First(Append(s, x), x) = Len(s) + 1
<1> DEFINE t == Append(s, x)
<1>1. /\ t \in Seq(B) /\ Len(t) = Len(s) + 1 /\ t[Len(s) + 1] = x /\ Len(s) \in Nat
      /\ \A i \in 1..Len(s) : t[i] = s[i]
  OBVIOUS
<1> HIDE DEF t
<1>2. ASSUME NEW y \in Range(s) PROVE First(t, y) = First(s, y)
  <2> DEFINE i == First(s, y)
  <2>1. i \in 1..Len(s) /\ s[i] = y /\ \A j \in 1..i - 1 : s[j] # y
    BY FirstFacts, Zenon
  <2> HIDE DEF i
  <2>2. i \in 1..Len(t) /\ t[i] = y /\ \A j \in 1..i - 1 : t[j] # y
    <3>1. i \in 1..Len(t) /\ \A j \in 1..i - 1 : j \in 1..Len(s)
      BY <1>1, <2>1
    <3> QED BY <1>1, <2>1, <3>1, Zenon
  <2>3. First(t, y) = i
    BY <1>1, <2>2, FirstIs, Zenon
  <2> QED BY <2>3, Zenon DEF i
<1>3. ASSUME x \notin Range(s) PROVE First(t, x) = Len(s) + 1
  <2>1. \A j \in 1..Len(s) : s[j] # x
    BY <1>3 DEF Range
  <2> DEFINE i == Len(s) + 1
  <2>2. i \in 1..Len(t) /\ t[i] = x /\ \A j \in 1..i - 1 : t[j] # x
    BY <1>1, <2>1
  <2> HIDE DEF i
  <2>3. First(t, x) = i
    BY <1>1, <2>2, FirstIs, Zenon
  <2> QED BY <2>3, Zenon DEF i
<1> QED BY <1>2, <1>3, Zenon DEF t

Rank(s) == [y \in Range(s) |-> First(s, y)]

LEMMA RankAppend ==
    ASSUME NEW B, NEW s \in Seq(B), NEW x \in B
    PROVE  /\ \A y \in Range(s) : Rank(Append(s, x))[y] = Rank(s)[y]
           /\ x \notin Range(s) => \A y \in Range(s) : Rank(Append(s, x))[y] < Rank(Append(s, x))[x]
<1>1. Range(Append(s, x)) = Range(s) \cup {x}
  BY RangeAppend, Zenon
<1>2. \A y \in Range(s) : First(s, y) \in 1..Len(s)
  BY FirstFacts
<1>3. Len(s) \in Nat
  OBVIOUS
<1>4. /\ \A y \in Range(s) : First(Append(s, x), y) = First(s, y)
      /\ x \notin Range(s) => First(Append(s, x), x) = Len(s) + 1
  BY FirstAppend, Zenon
<1>5. \A y \in Range(s) : Rank(Append(s, x))[y] = First(s, y) /\ Rank(s)[y] = First(s, y)
  BY <1>1, <1>4, Zenon DEF Rank
<1>6. x \notin Range(s) => Rank(Append(s, x))[x] = Len(s) + 1
  BY <1>1, <1>4, Zenon DEF Rank
<1>7. \A i \in 1..Len(s) : i < Len(s) + 1
  BY <1>3
<1> QED BY <1>2, <1>5, <1>6, <1>7, Zenon

(* Dropping what is not allowed and what comes again keeps the order in    *)
(* which the addresses were first given.                                   *)
LEMMA DistinctInOrder ==
    ASSUME NEW B, NEW s \in Seq(B), NEW S
    PROVE  InOrder(Rank(s), Distinct(Keep(s, S)))
<1> DEFINE T == {t \in Seq(B) : InOrder(Rank(t), Distinct(Keep(t, S)))}
<1>1. <<>> \in T
  <2>1. <<>> \in Seq(B)
    OBVIOUS
  <2> QED BY <2>1, KeepEmpty, DistinctEmpty, InOrderEmpty, Zenon
<1>2. ASSUME NEW t \in Seq(B), NEW x \in B, t \in T PROVE Append(t, x) \in T
  <2> DEFINE k == Keep(t, S)
             u == Distinct(k)
             r == Rank(t)
             r2 == Rank(Append(t, x))
  <2>0. Append(t, x) \in Seq(B)
    OBVIOUS
  <2>1. k \in Seq(B) /\ Range(k) = Range(t) \cap S
    BY KeepFacts, Zenon
  <2>2. u \in Seq(B) /\ Range(u) = Range(t) \cap S
    BY <2>1, DistinctFacts, Zenon
  <2>3. InOrder(r, u)
    BY <1>2, Zenon
  <2>4. /\ \A y \in Range(t) : r2[y] = r[y]
        /\ x \notin Range(t) => \A y \in Range(t) : r2[y] < r2[x]
    BY RankAppend, ZenonT(30)
  <2>5. Keep(Append(t, x), S) = IF x \in S THEN Append(k, x) ELSE k
    BY KeepAppend, Zenon
  <2>6. Distinct(Append(k, x)) = IF x \in Range(u) THEN u ELSE Append(u, x)
    BY <2>1, DistinctAppend, Zenon
  <2> HIDE DEF u, r, r2, k
  <2>7. InOrder(r2, u)
    <3>1. \A i \in DOMAIN u : u[i] \in Range(t)
      BY <2>2, Zenon DEF Range
    <3> QED BY <2>3, <2>4, <3>1, Zenon DEF InOrder
  <2>8. ASSUME x \in S, x \notin Range(u) PROVE InOrder(r2, Append(u, x))
    <3>1. \A y \in Range(u) : r2[y] < r2[x]
      BY <2>2, <2>4, <2>8, Zenon
    <3> QED BY <2>2, <2>7, <3>1, InOrderAppend, Zenon
  <2>9. InOrder(r2, Distinct(Keep(Append(t, x), S)))
    <3>1. CASE x \notin S
      <4>1. Distinct(Keep(Append(t, x), S)) = u
        BY <2>5, <3>1, Zenon DEF u
      <4> QED BY <2>7, <4>1, Zenon
    <3>2. CASE x \in S
      <4>1. Distinct(Keep(Append(t, x), S)) = IF x \in Range(u) THEN u ELSE Append(u, x)
        BY <2>5, <2>6, <3>2, Zenon
      <4> QED BY <2>7, <2>8, <3>2, <4>1, Zenon
    <3> QED BY <3>1, <3>2, Zenon
  <2> QED BY <2>0, <2>9, Zenon DEF r2
<1>3. Seq(B) \subseteq T
  <2> HIDE DEF T
  <2> QED BY <1>1, <1>2, SeqInduct, Zenon
<1> QED BY <1>3

(* The elements of s, those in S first, each part by rank. *)
Sorted(t, s, S, rank) ==
    /\ Range(t) = Range(s)
    /\ \A i, j \in DOMAIN t : i < j =>
          /\ t[i] # t[j]
          /\ t[j] \in S => t[i] \in S
          /\ (t[i] \in S <=> t[j] \in S) => rank[t[i]] < rank[t[j]]

Ranked(rank, s) == InOrder(rank, s) /\ \A y \in Range(s) : rank[y] \in Nat

Divides(S, U, B) == B \subseteq S \cup U /\ S \cap U = {}

LEMMA LessDiffers ==
    ASSUME NEW rank, NEW x, NEW y, rank[x] \in Nat, rank[y] \in Nat, rank[x] < rank[y]
    PROVE  x # y
  OBVIOUS

(* One part of an ordered sequence in front of the rest: a stable sort. *)
LEMMA PartsInOrder ==
    ASSUME NEW B, NEW s \in Seq(B), NEW S, NEW U, Divides(S, U, B), NEW rank, Ranked(rank, s)
    PROVE  Sorted(Keep(s, S) \o Keep(s, U), s, S, rank)
<1> DEFINE a == Keep(s, S)
           b == Keep(s, U)
           t == a \o b
           m == Len(a)
           n == Len(b)
<1>1. /\ a \in Seq(B) /\ Range(a) = Range(s) \cap S
      /\ b \in Seq(B) /\ Range(b) = Range(s) \cap U
  BY KeepFacts, Zenon
<1>0. B \subseteq S \cup U /\ S \cap U = {} /\ InOrder(rank, s) /\ \A y \in Range(s) : rank[y] \in Nat
  BY DEF Divides, Ranked
<1>2. InOrder(rank, a) /\ InOrder(rank, b)
  BY <1>0, KeepInOrder, Zenon
<1>3. Range(s) \subseteq B
  BY RangeOfSeq, Zenon
<1> HIDE DEF a, b
<1>4. /\ m \in Nat /\ n \in Nat /\ DOMAIN a = 1..m /\ DOMAIN b = 1..n
      /\ t \in Seq(B) /\ DOMAIN t = 1..m + n
  BY <1>1, SMTT(30)
<1>5. /\ \A i \in 1..m : t[i] = a[i]
      /\ \A i \in 1..m + n : ~(i \in 1..m) => t[i] = b[i - m]
  BY <1>1, SMTT(30)
<1> HIDE DEF m, n, t
<1>6. \A i \in 1..m : t[i] \in Range(a)
  BY <1>4, <1>5, Zenon DEF Range
<1>7. \A i \in 1..m + n : i \notin 1..m => i - m \in 1..n /\ t[i] \in Range(b)
  <2> SUFFICES ASSUME NEW i \in 1..m + n, i \notin 1..m PROVE i - m \in 1..n /\ t[i] \in Range(b)
    OBVIOUS
  <2>1. i - m \in 1..n
    BY <1>4
  <2>2. t[i] = b[i - m]
    BY <1>5, Zenon
  <2> QED BY <1>4, <2>1, <2>2, Zenon DEF Range
<1>8. Range(t) = Range(s)
  <2>1. \A y \in Range(a) : \E i \in 1..m + n : t[i] = y
    BY <1>4, <1>5 DEF Range
  <2>2. ASSUME NEW y \in Range(b) PROVE \E i \in 1..m + n : t[i] = y
    <3>1. PICK j \in 1..n : b[j] = y
      BY <1>4, Zenon DEF Range
    <3>2. m + j \in 1..m + n /\ m + j \notin 1..m /\ (m + j) - m = j
      BY <1>4, SMTT(30)
    <3>3. t[m + j] = b[j]
      BY <1>5, <3>2, Zenon
    <3> QED BY <3>1, <3>2, <3>3, Zenon
  <2>3. Range(t) \subseteq Range(a) \cup Range(b)
    BY <1>4, <1>6, <1>7, Zenon DEF Range
  <2>4. Range(a) \cup Range(b) = Range(s)
    BY <1>0, <1>1, <1>3, Zenon
  <2>5. Range(a) \cup Range(b) \subseteq Range(t)
    BY <1>4, <2>1, <2>2, Zenon DEF Range
  <2> QED BY <2>3, <2>4, <2>5, ZenonT(30)
<1>9. ASSUME NEW i \in 1..m + n, NEW j \in 1..m + n, i < j
      PROVE  /\ t[i] # t[j]
             /\ t[j] \in S => t[i] \in S
             /\ (t[i] \in S <=> t[j] \in S) => rank[t[i]] < rank[t[j]]
  <2>0. t[i] \in Range(s) /\ t[j] \in Range(s)
    BY <1>4, <1>8, Zenon DEF Range
  <2>r. rank[t[i]] \in Nat /\ rank[t[j]] \in Nat
    BY <1>0, <2>0, Zenon
  <2>1. CASE j \in 1..m
    <3>1. i \in 1..m /\ t[i] \in S /\ t[j] \in S
      <4>1. i \in 1..m
        BY <1>4, <1>9, <2>1
      <4> QED BY <1>1, <1>6, <2>1, <4>1, Zenon
    <3>2. rank[t[i]] < rank[t[j]]
      BY <1>2, <1>4, <1>5, <1>9, <2>1, <3>1, ZenonT(30) DEF InOrder
    <3>3. t[i] # t[j]
      BY <2>r, <3>2, LessDiffers, Zenon
    <3> QED BY <3>1, <3>2, <3>3, Zenon
  <2>2. CASE j \notin 1..m /\ i \in 1..m
    <3>1. t[i] \in S /\ t[j] \in U
      BY <1>1, <1>6, <1>7, <2>2, Zenon
    <3> QED BY <1>0, <3>1, Zenon
  <2>3. CASE j \notin 1..m /\ i \notin 1..m
    <3>1. t[i] \in U /\ t[j] \in U
      BY <1>1, <1>7, <2>3, Zenon
    <3>2. i - m \in 1..n /\ j - m \in 1..n /\ i - m < j - m
      <4>1. i - m < j - m
        BY <1>4, <1>9
      <4> QED BY <1>7, <2>3, <4>1, ZenonT(30)
    <3>3. rank[b[i - m]] < rank[b[j - m]]
      BY <1>2, <1>4, <3>2, Zenon DEF InOrder
    <3>4. t[i] = b[i - m] /\ t[j] = b[j - m]
      BY <1>5, <2>3, Zenon
    <3>5. t[i] \notin S /\ t[j] \notin S
      BY <1>0, <3>1, Zenon
    <3>6. t[i] # t[j]
      BY <2>r, <3>3, <3>4, LessDiffers, ZenonT(30)
    <3> QED BY <3>3, <3>4, <3>5, <3>6, Zenon
  <2> QED BY <2>1, <2>2, <2>3, Zenon
<1>10. Sorted(t, s, S, rank)
  BY <1>4, <1>8, <1>9, Zenon DEF Sorted
<1> QED BY <1>10, Zenon DEF t, a, b

(* What applyPolicy returns, in terms of what it is given. *)
Promised(raw, ips) ==
    /\ Range(ips) = {ip \in Range(raw) : IsV4(ip) \/ ~cfg.disable6}
    /\ \A i, j \in DOMAIN ips : i < j =>
          /\ ips[i] # ips[j]
          /\ Preferred(ips[j]) => Preferred(ips[i])
          /\ (Preferred(ips[i]) <=> Preferred(ips[j])) =>
                First(raw, ips[i]) < First(raw, ips[j])

LEMMA PolicyFacts ==
    ASSUME NEW raw \in Seq(Address), cfg \in ResolverConfigs
    PROVE  Promised(raw, ApplyPolicy(raw))
<1> DEFINE k == Keep(raw, Allowed)
           f == Distinct(k)
           ips == ApplyPolicy(raw)
           rank == Rank(raw)
           b4 == cfg.prefer4
           b6 == cfg.prefer6
<1>0. b4 \in BOOLEAN /\ b6 \in BOOLEAN
  BY ResolverAssumption, Zenon
<1>1. k \in Seq(Address) /\ Range(k) = Range(raw) \cap Allowed
  BY KeepFacts, Zenon
<1>2. f \in Seq(Address) /\ Range(f) = Range(raw) \cap Allowed
  BY <1>1, DistinctFacts, Zenon
<1>3. InOrder(rank, f)
  BY DistinctInOrder, Zenon
<1>4. Range(raw) \subseteq Address
  BY RangeOfSeq, Zenon
<1>5. Range(f) = {ip \in Range(raw) : IsV4(ip) \/ ~cfg.disable6}
  BY <1>2, <1>4, Zenon DEF Allowed
<1>6. \A y \in Range(f) : rank[y] \in Nat /\ rank[y] = First(raw, y)
  <2>1. \A y \in Range(raw) : First(raw, y) \in 1..Len(raw)
    BY FirstFacts, Zenon
  <2>2. Len(raw) \in Nat /\ \A i \in 1..Len(raw) : i \in Nat
    OBVIOUS
  <2> QED BY <1>2, <2>1, <2>2, Zenon DEF Rank
<1>7. Address \subseteq V4 \cup V6 /\ V4 \cap V6 = {} /\ V6 \cap V4 = {}
  BY DEF V4, V6
<1>8. ips = IF b6 THEN FirstV6(IF b4 THEN FirstV4(f) ELSE f) ELSE IF b4 THEN FirstV4(f) ELSE f
  BY Zenon DEF ApplyPolicy
<1> HIDE DEF k, f, ips, rank, b4, b6
<1>9. b6 => ips = Keep(f, V6) \o Keep(f, V4)
  <2> DEFINE x == Keep(f, V4)
             y == Keep(f, V6)
  <2>1. x \in Seq(Address) /\ y \in Seq(Address)
    BY <1>2, KeepFacts, ZenonT(30)
  <2>2. /\ Keep(x, V6) = Keep(f, V4 \cap V6) /\ Keep(y, V6) = Keep(f, V6 \cap V6)
        /\ Keep(x, V4) = Keep(f, V4 \cap V4) /\ Keep(y, V4) = Keep(f, V6 \cap V4)
    <3>1. \A S, U : Keep(Keep(f, S), U) = Keep(f, S \cap U)
      BY <1>2, KeepKept, ZenonT(30)
    <3>2. Keep(x, V6) = Keep(f, V4 \cap V6) /\ Keep(x, V4) = Keep(f, V4 \cap V4)
      BY <3>1, ZenonT(30)
    <3>3. Keep(y, V6) = Keep(f, V6 \cap V6) /\ Keep(y, V4) = Keep(f, V6 \cap V4)
      BY <3>1, ZenonT(30)
    <3> QED BY <3>2, <3>3, Zenon
  <2>3. V6 \cap V6 = V6 /\ V4 \cap V4 = V4 /\ V4 \cap V6 = {} /\ V6 \cap V4 = {}
    BY <1>7, Zenon
  <2>4. Keep(f, {}) = <<>>
    BY <1>2, KeepNone, Zenon
  <2> HIDE DEF x, y
  <2>5. \A S : Keep(x \o y, S) = Keep(x, S) \o Keep(y, S)
    BY <2>1, KeepJoined, ZenonT(30)
  <2>5a. Keep(x \o y, V6) = Keep(x, V6) \o Keep(y, V6)
    BY <2>5, ZenonT(30)
  <2>5b. Keep(x \o y, V4) = Keep(x, V4) \o Keep(y, V4)
    BY <2>5, ZenonT(30)
  <2>6. Keep(x \o y, V6) = <<>> \o y /\ Keep(x \o y, V4) = x \o <<>>
    BY <2>2, <2>3, <2>4, <2>5a, <2>5b, Zenon DEF x, y
  <2>7. Keep(x \o y, V6) = y /\ Keep(x \o y, V4) = x
    BY <2>1, <2>6, ConcatEmpty, ZenonT(30)
  <2>8. FirstV4(f) = x \o y /\ FirstV6(x \o y) = y \o x /\ FirstV6(f) = y \o x
    BY <2>7 DEF FirstV4, FirstV6, x, y
  <2> QED BY <1>8, <2>8, Zenon DEF x, y
<1>10. ~b6 /\ b4 => ips = Keep(f, V4) \o Keep(f, V6)
  BY <1>8, Zenon DEF FirstV4
<1>11. ~b6 /\ ~b4 => ips = f
  BY <1>8, Zenon
<1>12. ASSUME NEW S, NEW U, Address \subseteq S \cup U, S \cap U = {},
              ips = Keep(f, S) \o Keep(f, U),
              \A y \in Address : Preferred(y) <=> y \in S
       PROVE  /\ Range(ips) = Range(f)
              /\ \A i, j \in DOMAIN ips : i < j =>
                     /\ ips[i] # ips[j]
                     /\ Preferred(ips[j]) => Preferred(ips[i])
                     /\ (Preferred(ips[i]) <=> Preferred(ips[j])) =>
                           First(raw, ips[i]) < First(raw, ips[j])
  <2>0. Ranked(rank, f) /\ Divides(S, U, Address)
    BY <1>3, <1>6, <1>12, Zenon DEF Ranked, Divides
  <2>1. Sorted(ips, f, S, rank)
    BY <1>2, <1>12, <2>0, PartsInOrder, ZenonT(30)
  <2>2. \A i \in DOMAIN ips : ips[i] \in Range(f) /\ ips[i] \in Address
    <3>1. \A i \in DOMAIN ips : ips[i] \in Range(ips)
      BY Zenon DEF Range
    <3>2. Range(f) \subseteq Address
      BY <1>2, RangeOfSeq, Zenon
    <3> QED BY <2>1, <3>1, <3>2, Zenon DEF Sorted
  <2> HIDE DEF Preferred
  <2> SUFFICES ASSUME NEW i \in DOMAIN ips, NEW j \in DOMAIN ips, i < j
               PROVE  /\ ips[i] # ips[j]
                      /\ Preferred(ips[j]) => Preferred(ips[i])
                      /\ (Preferred(ips[i]) <=> Preferred(ips[j])) =>
                            First(raw, ips[i]) < First(raw, ips[j])
    BY <2>1, Zenon DEF Sorted
  <2>3. /\ ips[i] # ips[j]
        /\ ips[j] \in S => ips[i] \in S
        /\ (ips[i] \in S <=> ips[j] \in S) => rank[ips[i]] < rank[ips[j]]
    BY <2>1, Zenon DEF Sorted
  <2>4. rank[ips[i]] = First(raw, ips[i]) /\ rank[ips[j]] = First(raw, ips[j])
    BY <1>6, <2>2, ZenonT(30)
  <2>5. (Preferred(ips[i]) <=> ips[i] \in S) /\ (Preferred(ips[j]) <=> ips[j] \in S)
    BY <1>12, <2>2, Zenon
  <2> QED BY <2>3, <2>4, <2>5, Zenon
<1>13. CASE b6
  <2>1. \A y \in Address : Preferred(y) <=> y \in V6
    BY <1>13, Zenon DEF Preferred, V6, b6
  <2> QED BY <1>5, <1>7, <1>9, <1>12, <1>13, <2>1, ZenonT(30) DEF Promised, ips
<1>14. CASE ~b6 /\ b4
  <2>1. \A y \in Address : Preferred(y) <=> y \in V4
    BY <1>14, Zenon DEF Preferred, V4, b6, b4
  <2> QED BY <1>5, <1>7, <1>10, <1>12, <1>14, <2>1, ZenonT(30) DEF Promised, ips
<1>15. CASE ~b6 /\ ~b4
  <2>1. \A y \in Address : ~Preferred(y)
    BY <1>15 DEF Preferred, b6, b4
  <2>2. Keep(f, {}) \o Keep(f, Address) = f
    <3>1. Keep(f, {}) = <<>> /\ Keep(f, Address) = f
      BY <1>2, KeepNone, KeepAll, Zenon
    <3> QED BY <1>2, <3>1, ConcatEmpty, ZenonT(30)
  <2>3. /\ ips = Keep(f, {}) \o Keep(f, Address) /\ Address \subseteq {} \cup Address
        /\ {} \cap Address = {} /\ \A y \in Address : Preferred(y) <=> y \in {}
    BY <1>11, <1>15, <2>1, <2>2, ZenonT(30)
  <2> QED BY <1>5, <1>12, <2>3, ZenonT(30) DEF Promised, ips
<1> QED BY <1>0, <1>13, <1>14, <1>15, ZenonT(30)

(* applyPolicy under the configuration k. *)
PolicyOf(k, ips) ==
    LET filtered == Distinct(Keep(ips, {ip \in Address : IsV4(ip) \/ ~k.disable6}))
        four == IF k.prefer4 THEN FirstV4(filtered) ELSE filtered
    IN  IF k.prefer6 THEN FirstV6(four) ELSE four

LEMMA PolicyOfCfg == \A ips : ApplyPolicy(ips) = PolicyOf(cfg, ips)
  BY ZenonT(30) DEF ApplyPolicy, PolicyOf, Allowed

(* The addresses g holds are what the policy makes of what it was given. *)
Obeys(g, k) == g.raw \in Seq(Address) /\ g.ips = PolicyOf(k, g.raw) /\ g.ips # <<>>

CallFollows(d, k) == d.got.raw \in Seq(Address) /\ (d.pc = "ok" => Obeys(d.got, k))

PolicyIInv ==
    /\ cfg \in ResolverConfigs
    /\ entry # Nothing => Obeys(entry, cfg)
    /\ \A c \in Caller : CallFollows(call[c], cfg)

LEMMA PolicyStep ==
    ASSUME ResIInv, PolicyIInv, NEW c \in Caller, NEW d, Set(c, d), CallFollows(d, cfg), cfg' = cfg,
           entry' # Nothing => Obeys(entry', cfg)
    PROVE  PolicyIInv'
<1>1. \A b \in Caller : call'[b] = d \/ call'[b] = call[b]
  BY DEF Set, ResIInv
<1>2. \A b \in Caller : CallFollows(call'[b], cfg)
  BY <1>1, Zenon DEF PolicyIInv
<1> QED BY <1>2, ZenonT(30) DEF PolicyIInv

LEMMA NothingFollows == \A k : CallFollows(NoCall, k)
<1>1. NoCall.pc = "idle" /\ NoCall.got.raw = <<>> /\ <<>> \in Seq(Address)
  BY EmptyIsSeq, Zenon DEF NoCall, Nothing
<1> QED BY <1>1, ZenonT(30) DEF CallFollows

(* The addresses of an answer. *)
LEMMA AnswerAddresses ==
    ASSUME NEW f \in Family, NEW answer \in Answers[f] \cup {<<>>}
    PROVE  /\ [i \in DOMAIN answer |-> answer[i].ip] \in Seq(Address)
           /\ answer \in Seq(Range(answer))
           /\ \A r \in Range(answer) : r.ip \in Address
<1>1. CASE answer = <<>>
  <2>1. Range(answer) = {} /\ answer \in Seq(Range(answer))
    BY <1>1, RangeEmpty, EmptyIsSeq, Zenon
  <2>2. \A r \in Range(answer) : r.ip \in Address
    BY <2>1, Zenon
  <2> QED BY <2>1, <2>2, IpsAreSeq, Zenon
<1>2. CASE answer \in Answers[f]
  <2>1. answer \in Seq(Range(answer))
    BY <1>2, ResolverAssumption, Zenon DEF Family
  <2>2. \A r \in Range(answer) : r.ip \in Address
    BY <1>2, Zenon DEF Address
  <2> QED BY <2>1, <2>2, IpsAreSeq, ZenonT(30)
<1> QED BY <1>1, <1>2, ZenonT(30)

(* Gathering and the choice of the next family keep the addresses known. *)
LEMMA GatherFollows ==
    ASSUME NEW got, Gathered(got), got.raw \in Seq(Address), NEW answer, NEW ttl,
           [i \in DOMAIN answer |-> answer[i].ip] \in Seq(Address)
    PROVE  Gather(got, answer, ttl).raw \in Seq(Address)
<1>1. Gather(got, answer, ttl).raw = got.raw \o [i \in DOMAIN answer |-> answer[i].ip]
  BY NothingFacts, ZenonT(30) DEF Gather, Gathered
<1> QED BY <1>1, ConcatIsSeq, Zenon

LEMMA NextFamilyFollows ==
    ASSUME NEW b, DOMAIN b = DOMAIN NoCall, b.got.raw \in Seq(Address), b.pc = "query", NEW k
    PROVE  CallFollows(NextFamily(b), k)
<1>1. NextFamily(b).got = b.got /\ NextFamily(b).pc \in {"query", "finish"}
  BY NothingFacts, Zenon DEF NextFamily
<1> QED BY <1>1, Zenon DEF CallFollows

LEMMA PolicyNext == ResIInv /\ PolicyIInv /\ [ResNext]_resVars => PolicyIInv'
<1> SUFFICES ASSUME ResIInv, PolicyIInv, [ResNext]_resVars PROVE PolicyIInv'
  OBVIOUS
<1>e. entry # Nothing => Obeys(entry, cfg)
  BY ZenonT(30) DEF PolicyIInv
<1>c. ASSUME NEW c \in Caller
      PROVE  /\ DOMAIN call[c] = DOMAIN NoCall /\ Gathered(call[c].got)
             /\ call[c].got.raw \in Seq(Address) /\ CallFollows(call[c], cfg)
  BY DEF ResIInv, CallOk, PolicyIInv, CallFollows
<1>1. CASE UNCHANGED resVars \/ Tick
  <2>1. cfg' = cfg /\ call' = call /\ entry' = entry
    BY <1>1, Zenon DEF resVars, Tick
  <2> QED BY <2>1, Zenon DEF PolicyIInv
<1>2. ASSUME NEW c \in Caller, NEW ip \in Address, ResolveLiteral(c, ip) PROVE PolicyIInv'
  <2> DEFINE ips == ApplyPolicy(<<ip>>)
             g == [Nothing EXCEPT !.raw = <<ip>>, !.ips = ips, !.born = now]
             d == [NoCall EXCEPT !.pc = IF ips = <<>> THEN "failed" ELSE "ok", !.start = now, !.got = g]
  <2>1. Set(c, d) /\ entry' = entry /\ cfg' = cfg
    BY <1>2, Zenon DEF ResolveLiteral
  <2>2. d.got = g /\ (d.pc = "ok" => ips # <<>>)
    BY NothingFacts
  <2>3. g.raw = <<ip>> /\ g.ips = ips /\ <<ip>> \in Seq(Address)
    BY OneIsSeq, Zenon DEF Nothing
  <2> HIDE DEF g, d
  <2>4. CallFollows(d, cfg)
    BY <2>2, <2>3, PolicyOfCfg, ZenonT(30) DEF CallFollows, Obeys
  <2> QED BY <1>e, <2>1, <2>4, PolicyStep, ZenonT(30)
<1>3. ASSUME NEW c \in Caller, ResolveCached(c) PROVE PolicyIInv'
  <2> DEFINE d == [NoCall EXCEPT !.pc = "ok", !.start = now, !.got = entry]
  <2>1. Set(c, d) /\ entry' = entry /\ cfg' = cfg /\ entry # Nothing
    BY <1>3, Zenon DEF ResolveCached
  <2>2. d.got = entry
    BY NothingFacts, Zenon
  <2>3. CallFollows(d, cfg)
    BY <1>e, <2>1, <2>2, ZenonT(30) DEF CallFollows, Obeys
  <2> HIDE DEF d
  <2> QED BY <1>e, <2>1, <2>3, PolicyStep, ZenonT(30)
<1>4. ASSUME NEW c \in Caller, ResolveFresh(c) PROVE PolicyIInv'
  <2> DEFINE d == [NoCall EXCEPT !.pc = "query", !.start = now,
                     !.got.ttl = IF cfg.mode = "dns" THEN CacheTTL ELSE 0]
  <2>1. Set(c, d) /\ entry' = Nothing /\ cfg' = cfg
    BY <1>4, Zenon DEF ResolveFresh
  <2>2. d.pc = "query" /\ d.got.raw = <<>> /\ <<>> \in Seq(Address)
    BY DEF NoCall, Nothing
  <2> HIDE DEF d
  <2>3. CallFollows(d, cfg)
    BY <2>2, ZenonT(30) DEF CallFollows
  <2> QED BY <2>1, <2>3, PolicyStep, ZenonT(30)
<1>5. ASSUME NEW c \in Caller, NEW answer \in UNION {Answers[f] : f \in Family}, QueryOk(c, answer)
      PROVE  PolicyIInv'
  <2> DEFINE g == Gather(call[c].got, answer, AnswerTTL(answer))
             d == [call[c] EXCEPT !.got = g]
  <2>1. Set(c, NextFamily(d)) /\ entry' = entry /\ cfg' = cfg /\ call[c].pc = "query"
    BY <1>5, Zenon DEF QueryOk
  <2>2. [i \in DOMAIN answer |-> answer[i].ip] \in Seq(Address)
    BY AnswerAddresses, Zenon
  <2>3. g.raw \in Seq(Address)
    BY <1>c, <2>2, GatherFollows, ZenonT(30)
  <2>4. DOMAIN d = DOMAIN NoCall /\ d.got = g /\ d.pc = "query"
    BY <1>c, <2>1, NothingFacts, ZenonT(30)
  <2> HIDE DEF g, d
  <2>5. CallFollows(NextFamily(d), cfg)
    BY <2>3, <2>4, NextFamilyFollows, ZenonT(30)
  <2> QED BY <1>e, <2>1, <2>5, PolicyStep, ZenonT(30)
<1>6. ASSUME NEW c \in Caller, NEW four \in Answers["A"] \cup {<<>>},
             NEW six \in Answers["AAAA"] \cup {<<>>}, SystemOk(c, four, six)
      PROVE  PolicyIInv'
  <2> DEFINE both == four \o six
             g == Gather(call[c].got, both, CacheTTL)
             h == [g EXCEPT !.seen = {CacheTTL}]
             d == [call[c] EXCEPT !.pc = "finish", !.got = h]
             R == Range(four) \cup Range(six)
  <2>1. Set(c, d) /\ entry' = entry /\ cfg' = cfg
    BY <1>6, Zenon DEF SystemOk
  <2>2. /\ four \in Seq(Range(four)) /\ \A r \in Range(four) : r.ip \in Address
        /\ six \in Seq(Range(six)) /\ \A r \in Range(six) : r.ip \in Address
    BY AnswerAddresses, ZenonT(30) DEF Family
  <2>3. four \in Seq(R) /\ six \in Seq(R) /\ \A r \in R : r.ip \in Address
    <3>1. Range(four) \subseteq R /\ Range(six) \subseteq R
      BY Zenon
    <3>2. four \in Seq(R) /\ six \in Seq(R)
      <4> HIDE DEF R
      <4> QED BY <2>2, <3>1, WiderSeq, ZenonT(30)
    <3> QED BY <2>2, <3>2, Zenon
  <2> HIDE DEF R
  <2>4. both \in Seq(R)
    BY <2>3, ConcatIsSeq, Zenon
  <2> HIDE DEF both
  <2>5. [i \in DOMAIN both |-> both[i].ip] \in Seq(Address)
    BY <2>3, <2>4, IpsAreSeq, ZenonT(30)
  <2>6. g.raw \in Seq(Address) /\ DOMAIN g = DOMAIN Nothing
    <3>1. g.raw \in Seq(Address)
      BY <1>c, <2>5, GatherFollows, ZenonT(30)
    <3>2. DOMAIN g = DOMAIN Nothing
      <4>1. Gathered(call[c].got)
        BY <1>c, Zenon
      <4> QED BY <4>1, GatherDomain, ZenonT(30)
    <3> QED BY <3>1, <3>2, Zenon
  <2> HIDE DEF g
  <2>7. d.got = h /\ d.pc = "finish" /\ h.raw = g.raw
    BY <1>c, <2>6, NothingFacts, ZenonT(30)
  <2> HIDE DEF h, d
  <2>8. CallFollows(d, cfg)
    BY <2>6, <2>7, Zenon DEF CallFollows
  <2> QED BY <1>e, <2>1, <2>8, PolicyStep, ZenonT(30)
<1>7. ASSUME NEW c \in Caller, QueryFails(c) PROVE PolicyIInv'
  <2> DEFINE b == call[c]
             d == [b EXCEPT !.i = @ + 1]
  <2>1. /\ Set(c, d) \/ Set(c, NextFamily(b))
        /\ entry' = entry /\ cfg' = cfg /\ b.pc = "query"
    BY <1>7, Zenon DEF QueryFails
  <2>2. d.got = b.got /\ d.pc = b.pc
    BY <1>c, NothingFacts, Zenon
  <2>3. CallFollows(d, cfg)
    BY <1>c, <2>1, <2>2, ZenonT(30) DEF CallFollows
  <2> HIDE DEF d
  <2>4. CallFollows(NextFamily(b), cfg)
    BY <1>c, <2>1, NextFamilyFollows, ZenonT(30)
  <2> QED BY <1>e, <2>1, <2>3, <2>4, PolicyStep, ZenonT(30)
<1>8. ASSUME NEW c \in Caller, QueryTimesOut(c) PROVE PolicyIInv'
  <2> DEFINE d == [call[c] EXCEPT !.pc = "finish"]
  <2>1. Set(c, d) /\ entry' = entry /\ cfg' = cfg
    BY <1>8, Zenon DEF QueryTimesOut
  <2>2. d.got = call[c].got /\ d.pc = "finish"
    BY <1>c, NothingFacts, Zenon
  <2>3. CallFollows(d, cfg)
    BY <1>c, <2>2, Zenon DEF CallFollows
  <2> HIDE DEF d
  <2> QED BY <1>e, <2>1, <2>3, PolicyStep, ZenonT(30)
<1>9. ASSUME NEW c \in Caller, Finish(c) PROVE PolicyIInv'
  <2> DEFINE b == call[c]
             got == b.got
             ips == ApplyPolicy(got.raw)
             full == [got EXCEPT !.ips = ips, !.ttl = CapTTL(@), !.expire = now + CapTTL(got.ttl)]
             d1 == [b EXCEPT !.pc = "failed"]
             d2 == [b EXCEPT !.pc = "ok", !.got = full]
  <2>1. /\ cfg' = cfg
        /\ \/ Set(c, d1) /\ entry' = entry
           \/ Set(c, d2) /\ entry' = full /\ ips # <<>>
    BY <1>9, ZenonT(30) DEF Finish
  <2>2. d1.got = got /\ d1.pc = "failed" /\ d2.got = full
    BY <1>c, NothingFacts, Zenon
  <2>3. full.raw = got.raw /\ full.ips = ips
    BY <1>c, NothingFacts, Zenon DEF Gathered
  <2> HIDE DEF d1, d2, full
  <2>4. CallFollows(d1, cfg)
    BY <1>c, <2>2, Zenon DEF CallFollows
  <2>5. ips # <<>> => Obeys(full, cfg) /\ CallFollows(d2, cfg)
    BY <1>c, <2>2, <2>3, PolicyOfCfg, ZenonT(30) DEF CallFollows, Obeys
  <2> HIDE DEF ips
  <2> QED BY <1>e, <2>1, <2>4, <2>5, PolicyStep, ZenonT(30)
<1>10. ASSUME NEW c \in Caller, Return(c) PROVE PolicyIInv'
  <2>1. Set(c, NoCall) /\ entry' = entry /\ cfg' = cfg
    BY <1>10 DEF Return
  <2> QED BY <1>e, <2>1, NothingFollows, PolicyStep, ZenonT(30)
<1> QED BY <1>1, <1>2, <1>3, <1>4, <1>5, <1>6, <1>7, <1>8, <1>9, <1>10, ZenonT(30) DEF ResNext

(* Every result of Resolve, fresh, cached or of an IP literal, is what the *)
(* policy promises, for any answers of the servers: not empty, without     *)
(* duplicates, nothing missing but what is disabled, the preferred family  *)
(* first, and the order of the answers within a family.                    *)
THEOREM ResFollowsPolicy == ResSpec => []ResultFollowsPolicy
<1>1. ResInit => ResIInv /\ PolicyIInv
  <2>1. ASSUME ResInit PROVE /\ now \in Nat /\ DOMAIN call = Caller /\ entry = Nothing /\ cfg \in ResolverConfigs
                             /\ \A c \in Caller : call[c] = NoCall
    BY <2>1, TimesFacts, Zenon DEF ResInit
  <2> QED BY <2>1, NothingFacts, NothingFollows, ZenonT(30) DEF ResIInv, PolicyIInv
<1>2. PolicyIInv => ResultFollowsPolicy
  <2> SUFFICES ASSUME PolicyIInv, NEW c \in Caller, call[c].pc = "ok"
               PROVE  LET raw == call[c].got.raw
                          ips == call[c].got.ips
                      IN  /\ ips # <<>>
                          /\ Range(ips) = {ip \in Range(raw) : IsV4(ip) \/ ~cfg.disable6}
                          /\ \A i, j \in DOMAIN ips : i < j =>
                                /\ ips[i] # ips[j]
                                /\ Preferred(ips[j]) => Preferred(ips[i])
                                /\ (Preferred(ips[i]) <=> Preferred(ips[j])) =>
                                      First(raw, ips[i]) < First(raw, ips[j])
    BY ZenonT(30) DEF ResultFollowsPolicy
  <2> DEFINE raw == call[c].got.raw
             ips == call[c].got.ips
  <2>1. raw \in Seq(Address) /\ ips = ApplyPolicy(raw) /\ ips # <<>> /\ cfg \in ResolverConfigs
    BY PolicyOfCfg, Zenon DEF PolicyIInv, CallFollows, Obeys
  <2> HIDE DEF raw, ips
  <2>2. Promised(raw, ips)
    BY <2>1, PolicyFacts, ZenonT(30)
  <2> QED BY <2>1, <2>2, ZenonT(30) DEF Promised, raw, ips
<1>3. ResIInv /\ PolicyIInv /\ [ResNext]_resVars => ResIInv' /\ PolicyIInv'
  BY ResNextInv, PolicyNext
<1> QED BY <1>1, <1>2, <1>3, PTL DEF ResSpec
=============================================================================
