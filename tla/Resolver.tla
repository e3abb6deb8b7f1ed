------------------------------- MODULE Resolver -------------------------------
(***************************************************************************)
(* The resolver of outbound connections (internal/resolver): Resolve looks *)
(* in the cache, asks for A and then for AAAA records, each time the       *)
(* servers in order, all within one Timeout, orders the addresses by the   *)
(* configured policy and caches them.  Calls run concurrently and are not  *)
(* merged; the mutex covers the map only.                                  *)
(*                                                                         *)
(* One host is modelled: hosts do not interact.  An answer is a sequence   *)
(* of addresses with their TTLs; a TTL and the clock count the same ticks. *)
(***************************************************************************)
EXTENDS Naturals, Sequences, FiniteSets, Functions, Loops

CONSTANTS
    Caller,         \* concurrent calls of Resolve
    Answers,        \* Answers[f]: the answers a server gives for family f
    ResolverConfigs, \* the configurations in use
    ServerCount,    \* how many servers are configured
    CacheTTL, Timeout,
    MaxTime         \* bound: ticks

ASSUME ResolverAssumption ==
    /\ {ServerCount, CacheTTL, Timeout} \subseteq Nat \ {0}
    /\ MaxTime \in Nat
    /\ \A f \in {"A", "AAAA"} : \A s \in Answers[f] :
          s \in Seq(Range(s)) \ {<<>>} /\ \A r \in Range(s) : r.ttl \in Nat
    /\ ResolverConfigs \subseteq [mode : {"system", "dns"}, disable6 : BOOLEAN,
                                  prefer4 : BOOLEAN, prefer6 : BOOLEAN]

VARIABLES
    cfg,        \* Client.cfg
    now,        \* the clock
    entry,      \* the cache entry of the host
    call        \* call[c]: one run of Resolve

resVars == <<cfg, now, entry, call>>

Family == {"A", "AAAA"}
Address == {a.ip : a \in UNION {Range(s) : s \in UNION {Answers[f] : f \in Family}}}

\* ip.To4() != nil
IsV4(ip) == ip.fam = "A"

\* What a call gathers: the addresses as the servers gave them, the time to
\* live computed so far, and, as history variables, the time of the first
\* answer and the TTLs seen.
Nothing == [raw |-> <<>>, ips |-> <<>>, ttl |-> 0, born |-> 0, seen |-> {}, expire |-> 0]

NoCall == [pc |-> "idle", fam |-> "A", i |-> 1, start |-> 0, got |-> Nothing]

ResInit ==
    /\ cfg \in ResolverConfigs
    /\ now = 0
    /\ entry = Nothing
    /\ call = [c \in Caller |-> NoCall]

-----------------------------------------------------------------------------

\* minPositiveTTL, folded over the records of an answer by parseDNSResponse;
\* current = 0 stands for no TTL yet, so a TTL of 0 is forgotten again.
MinPositiveTTL(current, ttl) == IF current = 0 \/ ttl < current THEN ttl ELSE current

\* A parseDNSResponse that takes the TTL of the last record.
AnswerTTLLast(answer) ==
    LoopOver([r \in Range(answer) |-> [cur \in Nat |-> r.ttl]], 0, answer)

AnswerTTL(answer) ==
    LoopOver([r \in Range(answer) |-> [cur \in Nat |-> MinPositiveTTL(cur, r.ttl)]],
             0, answer)

\* minDuration: a value of 0 does not count.
MinDuration(a, b) == IF a = 0 THEN b ELSE IF b = 0 \/ a < b THEN a ELSE b

\* The caps at the end of Resolve.
CapTTL(ttl) == IF ttl = 0 \/ ttl > CacheTTL THEN CacheTTL ELSE ttl

\* applyPolicy: filter and drop duplicates, then two stable sorts.
V4 == {ip \in Address : IsV4(ip)}
V6 == {ip \in Address : ~IsV4(ip)}
FirstV4(ips) == Keep(ips, V4) \o Keep(ips, V6)
FirstV6(ips) == Keep(ips, V6) \o Keep(ips, V4)
Allowed == {ip \in Address : IsV4(ip) \/ ~cfg.disable6}

\* An applyPolicy that drops no duplicates.
ApplyPolicyRepeats(ips) ==
    LET filtered == Keep(ips, Allowed)
        four == IF cfg.prefer4 THEN FirstV4(filtered) ELSE filtered
    IN  IF cfg.prefer6 THEN FirstV6(four) ELSE four

ApplyPolicy(ips) ==
    LET filtered == Distinct(Keep(ips, Allowed))
        four == IF cfg.prefer4 THEN FirstV4(filtered) ELSE filtered
    IN  IF cfg.prefer6 THEN FirstV6(four) ELSE four

-----------------------------------------------------------------------------

Set(c, rec) == call' = [call EXCEPT ![c] = rec]

\* Resolve of an IP literal: only the policy applies.
ResolveLiteral(c, ip) ==
    LET ips == ApplyPolicy(<<ip>>)
    IN  /\ call[c].pc = "idle"
        /\ Set(c, [NoCall EXCEPT !.pc = IF ips = <<>> THEN "failed" ELSE "ok", !.start = now,
                      !.got = [Nothing EXCEPT !.raw = <<ip>>, !.ips = ips, !.born = now]])
        /\ UNCHANGED <<cfg, now, entry>>

\* Resolve: getCache, with the clock read under the mutex; an entry is live
\* up to and including its expiry.  An expired one is deleted.
ResolveCached(c) ==
    /\ call[c].pc = "idle" /\ entry # Nothing
    /\ now <= entry.expire
    /\ Set(c, [NoCall EXCEPT !.pc = "ok", !.start = now, !.got = entry])
    /\ UNCHANGED <<cfg, now, entry>>

ResolveFresh(c) ==
    /\ call[c].pc = "idle"
    /\ entry = Nothing \/ now > entry.expire
    /\ entry' = Nothing
    /\ Set(c, [NoCall EXCEPT !.pc = "query", !.start = now,
                  !.got.ttl = IF cfg.mode = "dns" THEN CacheTTL ELSE 0])
    /\ UNCHANGED <<cfg, now>>

\* resolveByQueries after a family: AAAA follows A unless it is disabled.
NextFamily(rec) ==
    IF rec.fam = "A" /\ ~cfg.disable6 /\ cfg.mode = "dns"
    THEN [rec EXCEPT !.fam = "AAAA", !.i = 1]
    ELSE [rec EXCEPT !.pc = "finish"]

\* The answer joins what the call has.
Gather(got, answer, ttl) ==
    [got EXCEPT !.raw = @ \o [i \in DOMAIN answer |-> answer[i].ip],
                !.ttl = MinDuration(@, ttl),
                !.born = IF got.raw = <<>> THEN now ELSE @,
                !.seen = @ \cup {r.ttl : r \in Range(answer)}]

\* A server answers with records of the family.
QueryOk(c, answer) ==
    /\ call[c].pc = "query" /\ cfg.mode = "dns"
    /\ answer \in Answers[call[c].fam]
    /\ Set(c, NextFamily([call[c] EXCEPT !.got = Gather(@, answer, AnswerTTL(answer))]))
    /\ UNCHANGED <<cfg, now, entry>>

\* resolveSystem: both families in one answer, with CacheTTL as its TTL.
SystemOk(c, four, six) ==
    /\ call[c].pc = "query" /\ cfg.mode = "system"
    /\ four \in Answers["A"] \cup {<<>>} /\ six \in Answers["AAAA"] \cup {<<>>}
    /\ four \o six # <<>>
    /\ Set(c, [call[c] EXCEPT !.pc = "finish",
                  !.got = [Gather(@, four \o six, CacheTTL) EXCEPT !.seen = {CacheTTL}]])
    /\ UNCHANGED <<cfg, now, entry>>

\* A server fails, or answers without a record of the family: the next one.
QueryFails(c) ==
    /\ call[c].pc = "query"
    /\ Set(c, IF call[c].i < ServerCount /\ cfg.mode = "dns"
              THEN [call[c] EXCEPT !.i = @ + 1] ELSE NextFamily(call[c]))
    /\ UNCHANGED <<cfg, now, entry>>

\* The context of the whole call is over: the query in progress and all that
\* would follow fail; an answer of the other family stands.
QueryTimesOut(c) ==
    /\ call[c].pc = "query" /\ now - call[c].start >= Timeout
    /\ Set(c, [call[c] EXCEPT !.pc = "finish"])
    /\ UNCHANGED <<cfg, now, entry>>

\* The end of Resolve: resolveByQueries fails if it has no address, then
\* applyPolicy, the caps, putCache; without a usable address the call fails and
\* nothing is cached.
Finish(c) ==
    LET ips == ApplyPolicy(call[c].got.raw)
        full == [call[c].got EXCEPT !.ips = ips, !.ttl = CapTTL(@),
                                    !.expire = now + CapTTL(call[c].got.ttl)]
    IN  /\ call[c].pc = "finish"
        /\ IF call[c].got.raw = <<>> \/ ips = <<>>
           THEN Set(c, [call[c] EXCEPT !.pc = "failed"]) /\ UNCHANGED entry
           ELSE Set(c, [call[c] EXCEPT !.pc = "ok", !.got = full]) /\ entry' = full
        /\ UNCHANGED <<cfg, now>>

\* The caller takes the result.
Return(c) ==
    /\ call[c].pc \in {"ok", "failed"}
    /\ Set(c, NoCall)
    /\ UNCHANGED <<cfg, now, entry>>

\* Time passes; a query ends with its context, the steps around it take none.
Tick ==
    /\ now < MaxTime
    /\ \A c \in Caller : call[c].pc = "query" => now - call[c].start < Timeout
    /\ \A c \in Caller : call[c].pc \notin {"finish", "ok", "failed"}
    /\ now' = now + 1
    /\ UNCHANGED <<cfg, entry, call>>

ResNext ==
    \/ Tick
    \/ \E c \in Caller :
          \/ \E ip \in Address : ResolveLiteral(c, ip)
          \/ ResolveCached(c) \/ ResolveFresh(c)
          \/ \E answer \in UNION {Answers[f] : f \in Family} : QueryOk(c, answer)
          \/ \E four \in Answers["A"] \cup {<<>>}, six \in Answers["AAAA"] \cup {<<>>} :
                SystemOk(c, four, six)
          \/ QueryFails(c) \/ QueryTimesOut(c) \/ Finish(c) \/ Return(c)

ResSpec == ResInit /\ [][ResNext]_resVars

-----------------------------------------------------------------------------

First(s, x) == CHOOSE i \in DOMAIN s : s[i] = x /\ \A j \in 1..i - 1 : s[j] # x

\* The family whose addresses come first, when a preference is set; Validate
\* refuses both preferences at once.
Preferred(ip) == IF cfg.prefer6 THEN ~IsV4(ip) ELSE cfg.prefer4 /\ IsV4(ip)

\* A result, fresh or cached, is what the policy promises: not empty, without
\* duplicates, without IPv6 if that is disabled and otherwise complete, the
\* preferred family first, and in the order of the answers within a family.
ResultFollowsPolicy ==
    \A c \in Caller : call[c].pc = "ok" =>
        LET raw == call[c].got.raw
            ips == call[c].got.ips
        IN  /\ ips # <<>>
            /\ Range(ips) = {ip \in Range(raw) : IsV4(ip) \/ ~cfg.disable6}
            /\ \A i, j \in DOMAIN ips : i < j =>
                  /\ ips[i] # ips[j]
                  /\ Preferred(ips[j]) => Preferred(ips[i])
                  /\ (Preferred(ips[i]) <=> Preferred(ips[j])) =>
                        First(raw, ips[i]) < First(raw, ips[j])

\* No address is returned later than cache_ttl and one timeout after a server
\* gave it: an answer for A waits for the query for AAAA before it is cached.
\* Where all TTLs are positive the least of them counts in the same way.  (A
\* TTL of 0 does not mean this to the code: it is cached like no TTL at all.)
HonoursTTL ==
    \A c \in Caller : call[c].pc = "ok" =>
        /\ now - call[c].got.born <= CacheTTL + Timeout
        /\ 0 \notin call[c].got.seen =>
              \A t \in call[c].got.seen : now - call[c].got.born <= t + Timeout
=============================================================================
