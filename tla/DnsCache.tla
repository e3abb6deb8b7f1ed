------------------------------- MODULE DnsCache -------------------------------
(***************************************************************************)
(* The ages of the answers the local DNS server caches                     *)
(* (internal/dnsintercept: forwardResponse, getCache, putCache).  Handlers *)
(* run concurrently, read the clock more than once and hold the cache's    *)
(* mutex only around the map, so time may pass between any two steps.      *)
(*                                                                         *)
(* A response is the sequence of the TTLs of all its records.  Time is     *)
(* counted in ticks, Second of them to a second, because TTLs are rounded  *)
(* to seconds.  One key of the cache is modelled: keys do not interact.    *)
(***************************************************************************)
EXTENDS Integers, Sequences, Functions

CONSTANTS
    Asker,         \* concurrent handlers of one question
    Responses,      \* the responses upstream gives
    AnswerCacheTTL,       \* resolver.cache_ttl, in ticks
    Second,         \* ticks in a second
    Uint32,         \* how many values a uint32 has
    MaxPause,       \* bound: ticks between two steps of one handler
    MaxClock         \* bound: ticks

ASSUME CacheAssumption ==
    /\ {AnswerCacheTTL, Second, Uint32} \subseteq Nat \ {0}
    /\ {MaxPause, MaxClock} \subseteq Nat
    /\ Responses \subseteq Seq(0..Uint32 - 1)

VARIABLES
    clock,      \* the clock
    cached,     \* the cache entry of the question
    asking      \* asking[c]: one run of forwardResponse

cacheVars == <<clock, cached, asking>>

\* An entry: the TTLs of the response, the time it came from upstream (born, for
\* the properties only), and the time the entry expires.
NoEntry == [ttls |-> <<>>, born |-> 0, expires |-> 0]

NoAsking == [pc |-> "idle", cached |-> NoEntry, at |-> 0, given |-> <<>>]

CacheInit ==
    /\ clock = 0
    /\ cached = NoEntry
    /\ asking = [c \in Asker |-> NoAsking]

-----------------------------------------------------------------------------

\* responseTTL: the least TTL of all records, AnswerCacheTTL at most.
ResponseTTL(ttls) ==
    IF ttls = <<>> THEN AnswerCacheTTL
    ELSE LET least == CHOOSE t \in Range(ttls) : \A u \in Range(ttls) : t <= u
         IN  IF least * Second > AnswerCacheTTL THEN AnswerCacheTTL ELSE least * Second

\* uint32(d / time.Second): a division that rounds towards zero, then the
\* conversion, which wraps.
Seconds(d) == (IF d >= 0 THEN d \div Second ELSE -((-d) \div Second)) % Uint32

\* capResponseTTL, and one that leaves the TTLs as upstream gave them.
KeepTTL(ttls, remaining) == ttls

CapResponseTTL(ttls, remaining) ==
    [i \in DOMAIN ttls |-> IF ttls[i] > remaining THEN remaining ELSE ttls[i]]

-----------------------------------------------------------------------------

\* A question for the key: getCache reads the clock.
Ask(c) ==
    /\ asking[c].pc = "idle"
    /\ asking' = [asking EXCEPT ![c] = [NoAsking EXCEPT !.pc = "get", !.at = clock]]
    /\ UNCHANGED <<clock, cached>>

\* getCache under the mutex: a live entry is copied, an expired one deleted.
GetEntry(c) ==
    /\ asking[c].pc = "get"
    /\ IF cached # NoEntry /\ asking[c].at < cached.expires
       THEN /\ asking' = [asking EXCEPT ![c].pc = "cap", ![c].cached = cached]
            /\ UNCHANGED cached
       ELSE /\ asking' = [asking EXCEPT ![c].pc = "fetch"]
            /\ cached' = NoEntry
    /\ UNCHANGED clock

\* The rest of getCache: the clock is read again.
GiveCached(c) ==
    /\ asking[c].pc = "cap"
    /\ asking' = [asking EXCEPT ![c].pc = "given", ![c].at = clock,
                   ![c].given = CapResponseTTL(asking[c].cached.ttls, Seconds(asking[c].cached.expires - clock))]
    /\ UNCHANGED <<clock, cached>>

\* Forward returns a response.
Fetch(c, ttls) ==
    /\ asking[c].pc = "fetch"
    /\ asking' = [asking EXCEPT ![c].pc = "put", ![c].at = clock, ![c].given = ttls,
                   ![c].cached = [ttls |-> ttls, born |-> clock,
                                 expires |-> clock + ResponseTTL(ttls)]]
    /\ UNCHANGED <<clock, cached>>

\* Forward fails: SERVFAIL, nothing is cached.
FetchFails(c) ==
    /\ asking[c].pc = "fetch"
    /\ asking' = [asking EXCEPT ![c] = NoAsking]
    /\ UNCHANGED <<clock, cached>>

\* putCache: the expiry counts from the clock it reads; a response that may
\* not be kept is only given to the client.
PutCache(c) ==
    LET ttl == ResponseTTL(asking[c].cached.ttls)
    IN  /\ asking[c].pc = "put"
        /\ cached' = IF ttl <= 0 THEN cached
                    ELSE [asking[c].cached EXCEPT !.expires = clock + ttl]
        /\ asking' = [asking EXCEPT ![c].pc = "given"]
        /\ UNCHANGED clock

\* The handler ends.
Done(c) ==
    /\ asking[c].pc = "given"
    /\ asking' = [asking EXCEPT ![c] = NoAsking]
    /\ UNCHANGED <<clock, cached>>

\* Time passes; a handler is held up for MaxPause ticks at most, except in
\* Forward, which may take as long as it likes.
ClockTick ==
    /\ clock < MaxClock
    /\ \A c \in Asker : asking[c].pc \in {"get", "cap", "put"} => clock - asking[c].at < MaxPause
    /\ \A c \in Asker : asking[c].pc # "given"
    /\ clock' = clock + 1
    /\ UNCHANGED <<cached, asking>>

CacheNext ==
    \/ ClockTick
    \/ \E c \in Asker :
          \/ Ask(c) \/ GetEntry(c) \/ GiveCached(c) \/ FetchFails(c) \/ PutCache(c) \/ Done(c)
          \/ \E ttls \in Responses : Fetch(c, ttls)

CacheSpec == CacheInit /\ [][CacheNext]_cacheVars

-----------------------------------------------------------------------------

\* A TTL handed to a client never outlives the record it came with: counted
\* from when the client gets it, it ends no later than upstream allowed, but
\* for the pause between the upstream answer and putCache.  Holds for every
\* overlap of handlers, also when a slow one overwrites a newer entry.  And no
\* answer is given from the cache after resolver.cache_ttl, whatever TTLs it
\* came with, but for the pauses of the two handlers involved.
NeverOutlives ==
    \A c \in Asker : asking[c].pc = "given" =>
        /\ \A i \in DOMAIN asking[c].given : asking[c].given[i] > 0 =>
              clock + asking[c].given[i] * Second
                <= asking[c].cached.born + asking[c].cached.ttls[i] * Second + MaxPause
        /\ clock - asking[c].cached.born < AnswerCacheTTL + 2 * MaxPause
=============================================================================
