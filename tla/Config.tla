-------------------------------- MODULE Config --------------------------------
(***************************************************************************)
(* The configuration on its way into the engine (internal/config, the      *)
(* start command and engine.New): a file is laid over the defaults and     *)
(* validated, flags are laid over the result, which is validated again,    *)
(* and engine.New validates its copy once more.  Validate normalises in    *)
(* place, so what one call leaves behind is what the next one sees.        *)
(*                                                                         *)
(* An address is a host of a certain sort and a port, both empty if there  *)
(* is none.  Of the fields that are only checked for being present or      *)
(* positive one stands for all: timeout for the durations, path for the    *)
(* paths, hosts.listen for its two ports.  Of a list whose members are     *)
(* checked one by one, "malformed" is a member that fails.  A refused      *)
(* configuration is dropped, so it does not matter how far Validate got    *)
(* with it.                                                                *)
(***************************************************************************)
EXTENDS Integers, FiniteSets

CONSTANTS
    Files,          \* configurations as parsed, over the defaults
    Flags           \* the flags given to start, as a function of their names

\* A Config struct, with the structs inside it.
IsConfig(c) ==
    /\ c = [mode |-> c.mode, nonTarget |-> c.nonTarget, scope |-> c.scope, path |-> c.path,
            timeout |-> c.timeout, listen |-> c.listen, lan |-> c.lan, control |-> c.control,
            pac |-> c.pac, hosts |-> c.hosts, dns |-> c.dns, resolver |-> c.resolver,
            upstream |-> c.upstream, page |-> c.page]
    /\ c.pac = [listen |-> c.pac.listen, lan |-> c.pac.lan]
    /\ c.hosts = [map |-> c.hosts.map, listen |-> c.hosts.listen, lan |-> c.hosts.lan,
                  extra |-> c.hosts.extra]
    /\ c.dns = [enabled |-> c.dns.enabled, strategy |-> c.dns.strategy, listen |-> c.dns.listen,
                lan |-> c.dns.lan, map4 |-> c.dns.map4, map6 |-> c.dns.map6, ttl |-> c.dns.ttl,
                interfaces |-> c.dns.interfaces]
    /\ c.dns.enabled \in BOOLEAN
    /\ c.resolver = [mode |-> c.resolver.mode, servers |-> c.resolver.servers,
                     prefer4 |-> c.resolver.prefer4, prefer6 |-> c.resolver.prefer6]
    /\ c.upstream = [type |-> c.upstream.type, address |-> c.upstream.address,
                     profiles |-> c.upstream.profiles]
    /\ c.page = [enabled |-> c.page.enabled, onError |-> c.page.onError,
                 maxBody |-> c.page.maxBody, assets |-> c.page.assets,
                 transforms |-> c.page.transforms]

ASSUME ConfigAssumption == \A c \in Files : IsConfig(c)

VARIABLES
    confFile,       \* the file as it was
    confFlags,      \* the flags given
    conf,           \* the configuration as it is by now
    stage           \* how far it has come

confVars == <<confFile, confFlags, conf, stage>>

ModeNames == {"proxy_only", "pac", "system", "hosts", "dns"}

\* normalizeMode, and its like below, with the aliases that are in use.
NormalizeMode(m) ==
    CASE m \in {"", "proxy-only"} -> "proxy_only" [] m = "dns-intercept" -> "dns" [] OTHER -> m

NormalizeScope(s) ==
    CASE s = "" -> "machine" [] s = "current_user" -> "user" [] OTHER -> s

NormalizeOnError(e) ==
    CASE e = "" -> "pass_through" [] e = "fail-closed" -> "fail_closed" [] OTHER -> e

OrElse(v, default) == IF v = "" THEN default ELSE v

-----------------------------------------------------------------------------
Loopback(a) == a.host \in {"lo4", "lo6", "localhost"}

\* A listen_addr: localhost, or an IP address that is loopback or allowed.
ValidListen(a, lan) ==
    a.port # "" /\ a.host \in {"lo4", "lo6", "localhost", "lan"} /\ (lan \/ Loopback(a))

\* validateDNSSystemConfig, which takes localhost for 127.0.0.1.
ValidDNSSystem(d) ==
    d.listen.port = "53" /\ d.listen.host \in {"lo4", "localhost"} /\ d.interfaces # {}

\* Mutant: the system strategy works with any port.
ValidDNSAnyPort(d, mode) ==
    /\ d.strategy \in {"manual", "system", "external"}
    /\ d.enabled => mode = "dns"
    /\ mode = "dns" =>
          /\ d.strategy # "external"
          /\ ValidListen(d.listen, d.lan)
          /\ d.map4 # "" \/ d.map6 # ""
          /\ d.map4 \in {"", "v4"} /\ d.map6 \in {"", "v6"}
          /\ d.ttl > 0

\* validateDNSConfig: outside mode dns only the strategy is looked at.
ValidDNS(d, mode) ==
    /\ d.strategy \in {"manual", "system", "external"}
    /\ d.enabled => mode = "dns"
    /\ mode = "dns" =>
          /\ d.strategy # "external"
          /\ ValidListen(d.listen, d.lan)
          /\ d.map4 # "" \/ d.map6 # ""
          /\ d.map4 \in {"", "v4"} /\ d.map6 \in {"", "v6"}
          /\ d.ttl > 0
          /\ d.strategy = "system" => ValidDNSSystem(d)

\* validateOutboundProfiles: domains to match, and something to do for them.
ValidProfile(p) ==
    /\ p.domains # {} /\ p.domains \subseteq {"exact", "wildcard"}
    /\ p.does # {} /\ "not an IP" \notin p.does

WellFormed(list) == "malformed" \notin list

\* validatePageEnhanceConfig: the assets and the transforms count only if it
\* is enabled.
ValidPage(p) ==
    /\ p.onError \in {"pass_through", "fail_closed"}
    /\ p.maxBody >= 0
    /\ p.enabled =>
          /\ WellFormed(p.assets)
          /\ \A t \in p.transforms : WellFormed(t.match) /\ WellFormed(t.does) /\ t.does # {}

-----------------------------------------------------------------------------
(* Validate: what it makes of a configuration, and whether it accepts it.  *)

NoAddr == [host |-> "", port |-> ""]
ControlDefault == [host |-> "lo4", port |-> "0"]
MaxBodyDefault == 1048576

OrControl(a) == IF a = NoAddr THEN ControlDefault ELSE a

OrMaxBody(n) == IF n = 0 THEN MaxBodyDefault ELSE n

Normalized(c) ==
    LET mode == NormalizeMode(c.mode)
    IN  [c EXCEPT !.mode = mode,
                  !.dns.enabled = @ \/ mode = "dns",
                  !.dns.strategy = OrElse(@, "manual"),
                  !.nonTarget = OrElse(@, "reject"),
                  !.scope = NormalizeScope(@),
                  !.control = OrControl(@),
                  !.resolver.mode = OrElse(@, "system"),
                  !.resolver.servers = IF c.resolver.mode = "doh" /\ @ = {} THEN {"default"} ELSE @,
                  !.upstream.type = OrElse(@, "direct"),
                  !.page.onError = NormalizeOnError(@),
                  !.page.maxBody = OrMaxBody(@)]

Valid(c) ==
    /\ c.mode \in ModeNames
    /\ ValidDNS(c.dns, c.mode)
    /\ c.nonTarget \in {"reject", "direct"}
    /\ ValidListen(c.listen, c.lan) /\ ValidListen(c.pac.listen, c.pac.lan)
    /\ c.hosts.map \in {"lo", "lan"} /\ (c.hosts.map = "lo" \/ c.hosts.lan)
    /\ ValidListen(c.hosts.listen, c.hosts.lan)
    /\ "wildcard" \notin c.hosts.extra
    /\ c.scope \in {"machine", "user"}
    /\ ValidListen(c.control, FALSE)
    /\ c.path # ""
    /\ c.resolver.mode \in {"system", "udp", "tcp", "doh"}
    /\ c.resolver.mode # "system" => c.resolver.servers # {}
    /\ ~(c.resolver.prefer4 /\ c.resolver.prefer6)
    /\ c.upstream.type \in {"direct", "http", "socks5"}
    /\ c.upstream.type # "direct" => c.upstream.address # ""
    /\ \A p \in c.upstream.profiles : ValidProfile(p)
    /\ ValidPage(c.page)
    /\ c.timeout > 0

Accepts(c) == Valid(Normalized(c))

\* visited: the flag's value if it was given.
Flag(f, name, old) == IF name \in DOMAIN f THEN f[name] ELSE old

\* Mutant: the mode counts only where the file names none.
OverriddenIfEmpty(c, f) ==
    [c EXCEPT !.mode = IF @ = "" THEN Flag(f, "mode", @) ELSE @]

\* applyStartOverrides.
Overridden(c, f) ==
    [c EXCEPT !.mode = Flag(f, "mode", @),
              !.listen = Flag(f, "listen", @),
              !.pac.listen = Flag(f, "pacListen", @),
              !.hosts.listen = Flag(f, "hostsListen", @),
              !.dns.listen = Flag(f, "dnsListen", @),
              !.nonTarget = Flag(f, "nonTarget", @),
              !.lan = Flag(f, "allowLAN", @),
              !.path = Flag(f, "state", @),
              !.control = Flag(f, "control", @)]

-----------------------------------------------------------------------------
ConfInit ==
    /\ confFile \in Files
    /\ confFlags \in Flags
    /\ conf = confFile
    /\ stage = "parsed"

\* A call of Validate, on the way to the next stage.
Validate(next) ==
    /\ conf' = Normalized(conf)
    /\ stage' = IF Accepts(conf) THEN next ELSE "refused"
    /\ UNCHANGED <<confFile, confFlags>>

LoadFile == stage = "parsed" /\ Validate("loaded")

ApplyStartOverrides ==
    /\ stage = "loaded"
    /\ conf' = Overridden(conf, confFlags)
    /\ stage' = "flagged"
    /\ UNCHANGED <<confFile, confFlags>>

CheckFlags == stage = "flagged" /\ Validate("checked")

EngineNew == stage = "checked" /\ Validate("built")

ConfNext == LoadFile \/ ApplyStartOverrides \/ CheckFlags \/ EngineNew

ConfSpec == ConfInit /\ [][ConfNext]_confVars

-----------------------------------------------------------------------------
(* effectiveResolverConfig: with the name service diverted to ourselves    *)
(* the system resolver would ask us, so DoH takes its place.               *)
RequiresLoopSafeResolver(c) ==
    c.mode = "dns" \/ (c.mode = "hosts" /\ c.upstream.type \in {"", "direct"})

EffectiveResolver(c) ==
    IF /\ RequiresLoopSafeResolver(c)
       /\ c.resolver.mode = "system" \/ (c.resolver.mode = "doh" /\ c.resolver.servers = {})
    THEN [c.resolver EXCEPT !.mode = "doh", !.servers = {"default"}]
    ELSE c.resolver

Listener(address, lan) == [address |-> address, lan |-> lan]

(* Where the servers of a mode listen, with the allow_lan that goes with   *)
(* the address: engine.Start and the control server of the command.        *)
ListensAt(c) ==
    {Listener(c.control, FALSE)}
    \cup (IF c.mode \in {"hosts", "dns"} THEN {Listener(c.hosts.listen, c.hosts.lan)}
          ELSE {Listener(c.listen, c.lan)})
    \cup (IF c.mode = "pac" THEN {Listener(c.pac.listen, c.pac.lan)} ELSE {})
    \cup (IF c.mode = "dns" THEN {Listener(c.dns.listen, c.dns.lan)} ELSE {})

(* The engine runs what the file and the flags say together, a flag before *)
(* the file, although by the time the flags come in the file has been      *)
(* validated and normalised; and it is refused only if that is not a valid *)
(* configuration.  A file for mode dns is the exception: its Validate has  *)
(* set dns_intercept.enabled, which no other mode accepts, so --mode       *)
(* cannot leave that mode.                                                 *)
FlagsOverFile ==
    LET wanted == Overridden(confFile, confFlags)
    IN  /\ stage = "built" => Accepts(wanted) /\ conf = Normalized(wanted)
        /\ stage = "refused" /\ NormalizeMode(confFile.mode) # "dns" =>
              ~Accepts(wanted) \/ ~Accepts(confFile)

(* What the rest takes for granted of a configuration the engine runs,     *)
(* whatever the file says and whichever flag overrides a part of it: none  *)
(* of the servers of its mode listens beyond the machine unless the        *)
(* allow_lan of that server is set, and the control server never does; the *)
(* DNS of the system is pointed at a loopback IPv4 address and port 53, of *)
(* interfaces that are named; and where names are diverted to ourselves    *)
(* the resolver is not the one of the system and has servers to ask.  (To  *)
(* find a DoH server that is given by name it still asks the system's: see *)
(* LoopSafe in DnsIntercept.)                                              *)
SoundConfig ==
    stage = "built" =>
        LET r == EffectiveResolver(conf)
        IN  /\ \A l \in ListensAt(conf) : Loopback(l.address) \/ l.lan
            /\ conf.mode = "dns" /\ conf.dns.strategy = "system" =>
                  /\ conf.dns.listen.host \in {"lo4", "localhost"} /\ conf.dns.listen.port = "53"
                  /\ conf.dns.interfaces # {}
            /\ RequiresLoopSafeResolver(conf) => r.mode # "system"
            /\ r.mode # "system" => r.servers # {}
=============================================================================
