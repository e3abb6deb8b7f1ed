------------------------------- MODULE MCParts -------------------------------
(***************************************************************************)
(* The parts that share no state with each other or with the rest, checked *)
(* in one run: the configuration, the hosts block, the rules and the PAC   *)
(* script, the cache of the DNS server, the resolver, the page             *)
(* enhancement.  One of them moves, chosen at the start, while the others  *)
(* stay in one initial state, so the run explores each part completely and *)
(* no product of them.                                                     *)
(***************************************************************************)
EXTENDS HostsBlock, Rules, DnsCache, Resolver, PageEnhance, Config, TLC

VARIABLE moving

-----------------------------------------------------------------------------
SmallBlocks == {<<"e">>, <<"e", "f">>}

\* The text of label "ba" ends with that of label "a".
MCChars == [l \in Label |-> CASE l = "a" -> <<"a">>
                              [] l = "ba" -> <<"b", "a">>
                              [] l = "b_a" -> <<"b", "_", "a">>
                              [] l = "constructor" -> <<"k">>]

\* Label "b_a" is one idna.Lookup refuses, "constructor" an inherited property.
SmallNames == {<<"a">>, <<"ba">>, <<"a", "a">>, <<"ba", "a">>, <<"a", "a", "a">>,
               <<"b_a", "a">>, <<"constructor">>}
Inherited == {<<"constructor">>}

SmallResponses == {<<>>, <<0>>, <<3>>, <<2, 1>>}

Rec(fam, n, ttl) == [ip |-> [fam |-> fam, n |-> n], ttl |-> ttl]

SmallAnswers ==
    [A |-> {<<Rec("A", 2, 3), Rec("A", 1, 1), Rec("A", 2, 2)>>,
            <<Rec("A", 1, 2), Rec("A", 2, 0)>>},
     AAAA |-> {<<Rec("AAAA", 1, 2)>>, <<Rec("AAAA", 1, 0)>>}]

Conf(mode, d, p4, p6) == [mode |-> mode, disable6 |-> d, prefer4 |-> p4, prefer6 |-> p6]

\* Validate refuses both preferences at once.
SmallConfigs ==
    {Conf("dns", FALSE, FALSE, TRUE), Conf("dns", TRUE, TRUE, FALSE),
     Conf("system", FALSE, TRUE, FALSE), Conf("system", TRUE, FALSE, FALSE)}

SmallTransforms == <<[name |-> "headers", header |-> TRUE, body |-> FALSE],
                     [name |-> "inject", header |-> TRUE, body |-> TRUE]>>
SmallCustoms == <<[name |-> "first", body |-> FALSE], [name |-> "second", body |-> TRUE]>>

-----------------------------------------------------------------------------
Addr(host, port) == [host |-> host, port |-> port]
Addrs == {Addr("lo4", "53"), Addr("lo6", "53"), Addr("localhost", "53"),
          Addr("lo4", "5353"), Addr("lan", "53"), Addr("", ""), Addr("", "53")}

Plain ==
    [mode |-> "proxy_only", nonTarget |-> "reject", scope |-> "machine", path |-> "p", timeout |-> 1,
     listen |-> Addr("lo4", "1"), lan |-> FALSE, control |-> Addr("lo4", "0"),
     pac |-> [listen |-> Addr("lo4", "2"), lan |-> FALSE],
     hosts |-> [map |-> "lo", listen |-> Addr("lo4", "443"), lan |-> FALSE, extra |-> {"exact"}],
     dns |-> [enabled |-> FALSE, strategy |-> "manual", listen |-> Addr("lo4", "53"), lan |-> FALSE,
              map4 |-> "v4", map6 |-> "", ttl |-> 1, interfaces |-> {}],
     resolver |-> [mode |-> "system", servers |-> {}, prefer4 |-> TRUE, prefer6 |-> FALSE],
     upstream |-> [type |-> "direct", address |-> "", profiles |-> {}],
     page |-> [enabled |-> FALSE, onError |-> "pass_through", maxBody |-> 1, assets |-> {},
               transforms |-> {}]]

\* All about mode and DNS, and each other field on its own.
SmallFiles ==
    {[Plain EXCEPT !.mode = m, !.dns.enabled = e, !.dns.strategy = s, !.dns.listen = a,
                   !.dns.lan = l, !.dns.interfaces = i] :
        m \in {"", "dns-intercept", "dns", "pac", "odd"}, e \in BOOLEAN,
        s \in {"", "system", "external", "odd"}, a \in Addrs, l \in BOOLEAN,
        i \in {{}, {"Ethernet"}}}
    \cup {[Plain EXCEPT !.mode = m, !.resolver = r, !.upstream.type = u, !.upstream.address = a] :
        m \in {"hosts", "dns"}, u \in {"", "http", "odd"}, a \in {"", "corp"},
        r \in [mode : {"", "udp", "doh"}, servers : {{}, {"own"}},
               prefer4 : BOOLEAN, prefer6 : BOOLEAN]}
    \cup {[Plain EXCEPT !.listen = a, !.lan = l] : a \in Addrs, l \in BOOLEAN}
    \cup {[Plain EXCEPT !.control = a] : a \in Addrs}
    \cup {[Plain EXCEPT !.dns.map4 = m, !.dns.ttl = t, !.mode = "dns"] : m \in {"", "v6"}, t \in 0..1}
    \cup {[Plain EXCEPT !.hosts.map = m, !.hosts.lan = l] : m \in {"lan", "name"}, l \in BOOLEAN}
    \cup {[Plain EXCEPT !.scope = s] : s \in {"", "current_user", "odd"}}
    \cup {[Plain EXCEPT !.nonTarget = ""], [Plain EXCEPT !.path = ""], [Plain EXCEPT !.timeout = 0],
          [Plain EXCEPT !.hosts.extra = {"wildcard"}], [Plain EXCEPT !.pac.listen = Addr("lan", "2")]}
    \cup {[Plain EXCEPT !.upstream.profiles = {[domains |-> d, does |-> o]}] :
        d \in {{}, {"exact"}, {"a*b"}}, o \in {{}, {"ips"}, {"not an IP"}}}
    \cup {[Plain EXCEPT !.page = [enabled |-> e, onError |-> o, maxBody |-> b, assets |-> a,
                                  transforms |-> {[match |-> m, does |-> t]}]] :
        e \in BOOLEAN, o \in {"", "fail-closed", "odd"}, b \in -1..1, a \in {{}, {"malformed"}},
        m \in {{}, {"malformed"}}, t \in {{}, {"inject"}, {"malformed"}}}

SmallFlags ==
    {[mode |-> m, dnsListen |-> a] : m \in {"proxy-only", "dns", "hosts"},
                                     a \in {Addr("lo4", "53"), Addr("lo4", "5353")}}
    \cup {[mode |-> "dns"], [mode |-> "odd"], [state |-> "q", nonTarget |-> "odd"]}
    \cup {[listen |-> Addr("lan", "1"), allowLAN |-> l] : l \in BOOLEAN}
    \cup {[listen |-> Addr("lan", "1")], [control |-> Addr("lan", "0")],
          [pacListen |-> Addr("lo6", "2"), hostsListen |-> Addr("", "")]}

-----------------------------------------------------------------------------
PartNames == {"hosts", "rules", "cache", "resolver", "page", "config"}

Still(part, expr, value) == moving # part => expr = value

PartsInit ==
    /\ moving \in PartNames
    /\ HostsInit /\ RulesInit /\ CacheInit
    /\ ResInit /\ Still("resolver", cfg, CHOOSE c \in ResolverConfigs : TRUE)
    /\ PageInit /\ Still("page", onError, CHOOSE o \in OnErrors : TRUE)
    /\ IF moving = "config" THEN ConfInit
       ELSE confFile = Plain /\ confFlags = [mode |-> "dns"] /\ conf = Plain /\ stage = "parsed"

PartsNext ==
    /\ \/ moving = "hosts" /\ HostsNext
          /\ UNCHANGED <<rulesVars, cacheVars, resVars, pageVars, confVars>>
       \/ moving = "rules" /\ RulesNext
          /\ UNCHANGED <<hostsVars, cacheVars, resVars, pageVars, confVars>>
       \/ moving = "cache" /\ CacheNext
          /\ UNCHANGED <<hostsVars, rulesVars, resVars, pageVars, confVars>>
       \/ moving = "resolver" /\ ResNext
          /\ UNCHANGED <<hostsVars, rulesVars, cacheVars, pageVars, confVars>>
       \/ moving = "page" /\ PageNext
          /\ UNCHANGED <<hostsVars, rulesVars, cacheVars, resVars, confVars>>
       \/ moving = "config" /\ ConfNext
          /\ UNCHANGED <<hostsVars, rulesVars, cacheVars, resVars, pageVars>>
    /\ UNCHANGED moving

partsVars == <<hostsVars, rulesVars, cacheVars, resVars, pageVars,
               confVars, moving>>

PartsSpec == PartsInit /\ [][PartsNext]_partsVars

Symmetry == Permutations(Caller) \cup Permutations(Asker)
=============================================================================
