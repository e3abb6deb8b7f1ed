# A TLA+ model of siteboost-core

siteboost-core is a local accelerator for Steam and GitHub. It starts servers on
the loopback interface (a forward proxy, a PAC server, a reverse proxy, a DNS
server), points the operating system at them, and is expected to put everything
back when it stops. These modules model that life cycle and the data path behind
it. TLC checks them on small instances. TLAPS proves for every instance the central
promise, that no setting of the user gets lost, first of Apply and Restore alone
and then of racing engines, commands and service requests; and all safety
properties of the other parts that the passing runs check.

`PROJECT.json` lists the components, the runs, a seeded defect for each property
(a mutated definition under which TLC finds the property violated), the source
lines of each definition, the hazards and the theorems.

    tlc -config Engine.cfg MCEngine
    tlapm SystemChangeProofs.tla

## The system

| Part | State | Operations | Talks to |
|---|---|---|---|
| `internal/systemproxy`, `systemdns`, `hosts` | proxy values on Windows, proxies of the network services on macOS, DNS of the interfaces, hosts file; one shared rollback file | Apply, Restore | operating system |
| `internal/engine` | fields for the servers, `running` | Start, Stop, a goroutine that stops on cancellation | all servers, Apply and Restore |
| `cmd/steam-accelerator`, `internal/runtime` | runtime state file, control server | start, stop, status, restore | engine, other processes through the state file |
| `internal/privilege` | Windows service, named pipe | request, restart and resend; install, uninstall, start, stop of the service | Apply and Restore on behalf of unprivileged processes; the service manager |
| `internal/certstore` | root certificate and key files, two Root stores | EnsureRootCA, EnsureTrusted, Uninstall | reverse proxy, AppHost |
| `internal/dnsintercept` | two sockets, answer cache | Start, Stop, ServeDNS | matcher, upstream servers, operating system |
| `internal/resolver` | address cache | Resolve | dialers |
| `internal/proxy`, `reverse`, `upstream` | listeners, connections, idle pool | Start, Stop, requests, tunnels, dials | matcher, resolver |
| `internal/rules`, `pac` | exact and wildcard rules | NewMatcher, MatchHost, the script | every server, the browser |
| `internal/pageenhance` | one response in progress | ApplyResponseWithMeta | reverse proxy |
| `internal/config` | a configuration, normalised in place | Load, flags, Validate | engine |
| `internal/provider`, `diagnostics`, `upstream/probe.go` | none | static lists, messages | |

What makes it hard: the process may die between any two steps of Apply and
Restore; every file is written in place; two threads of one process stop the
engine; two processes share the files and ports; the service may carry out a
request whose answer is lost, and is deleted only when nobody holds a handle on
it; network services come and go while they are being changed; the DNS server may
be asked by its own forwarder; servers are stopped with requests, dials and tunnels
in progress.

## The modules

`Engine` and `AppHost` extend `SystemChange`, and `Lifecycle` extends `Engine`:
they are compositions, in which the callers decide when a call of `SystemChange`
begins and what happens with its result. There are three levels:

    Engine, Lifecycle, AppHost   servers, commands, requests         implement
    SystemChange                 Apply and Restore, one at a time    implements
    GuardedChange                record, take, release, forget

Both steps are checked by TLC and proved. `MacProxy` implements `GuardedChange`
directly, which is checked and proved too.

`SysSpec`, the specification of `SystemChange` on its own, is abstract for the
modules above it; the mapping is the identity on the variables they share.

**GuardedChange** is what Apply and Restore promise together on any platform: a
part of the system is taken over only while the user's value is on record, and the
record goes only when nothing it covers is taken over. The one way to lose a value
is to overwrite a record that was still needed. Its variables are three sets:
`taken`, `recorded`, `lost`. `SystemChange` maps them to the settings that differ
from the user's, to those the rollback file has the user's value of, and to
`clobbered`; `MacProxy` does the same with network services.

**SystemChange**: `settings` is what the operating system holds, `rollback` the
rollback file (`NoFile`, `Torn`, or a state of one kind), `job[a]` the call actor
`a` is in, with the local variables of the code. `TakeSnapshot`,
`TruncateRollback`, `FillRollback`, `ApplyWrite`, `HostsTruncate`, `HostsFill`,
`ReadRollback`, `RestoreWrite`, `RemoveRollback` are the calls the code makes, one
step each; each may also fail, and `Crash` ends the actor anywhere. `user` and
`clobbered` are history variables: what the user chose, and which settings were
still taken over when one rollback state was written over another. `UserEdit` is
the user, who changes settings when there is nothing to restore. A snapshot reads
all values of its kind in one step, as only the accelerator is assumed to change
them meanwhile.

**MacProxy** is the same Apply and Restore on macOS, where three channels of every
network service are changed by one networksetup command at a time, and the services
are listed twice. `net` holds the channels, `macJob` the call: the services still to
come (`rest`) and the commands still to run for the present one (`todo`). The file has
the saved services in the order they were listed in, which is the order of a Restore.
`MacService` goes on to the next service, `MacCommand` runs one command, `MacStops`
is a command that fails or a process that dies. Setting an address turns a channel
on, so the order of the commands matters. `late` is the history of services that
came up between the two listings.

**Engine**: Start is the sequence `StartPlan(mode)` of steps (build, listen,
prepare, apply), each with its error path; Stop takes the fields (`StopSwap`),
restores, and closes servers. `thr` holds the two threads of a process, the caller
and the goroutine, and `port` who listens where.

**Lifecycle**: `cli[p]` is the progress of `runStart`, `stateFile` the process the
state file leads to, `cmd[c]` a stop or status command between its request and its
polls. Signals, kills, an unreadable state file and slow control answers happen at
any time.

**AppHost**: `client[c]` follows `runAppHostRequestPlatform`, `pipe[c]` is its
connection, `job[c]` what the service executes for it.

**AppHostService**: `scm` is the service manager's entry (registered, marked for
deletion, or none; its state; the executable on record and the one that runs),
`handles` who holds a handle, `cmd[a]` where the command of administrator `a` is
and where it goes on when the call it is in returns. The manager, which starts the
service by itself and deletes it when the last handle goes, is external.

**CertStore**: `task[m]` follows one operation of a Manager through the two files,
which are truncated and written in separate steps, and through the stores.

**DnsIntercept**: `handler[h]` is one run of ServeDNS; the lookups of the
forwarder's own servers, which come back through the operating system, are
handlers too. **DnsCache** has the clock that this module leaves out: the ages of
answers, seconds rounded down, and the conversion to `uint32`.

**Forwarding**: `conn[k]` is a client connection with its handler, the candidates
left to dial (`left`), the sockets held (`socks`) and the directions of a tunnel.
net/http is modelled from its use and marked external in the map.

**Config** follows one configuration through `LoadFile`, `ApplyStartOverrides`, the
two calls of Validate and `EngineNew`; `Normalized` is what Validate leaves behind,
`Accepts` whether it returns nil.

**HostsBlock**, **Rules**, **Resolver**, **PageEnhance** model the text of the
hosts file, the matcher and the PAC script, concurrent Resolve calls, and one
response in the transform pipeline. **Loops** has the loops of the code over
sequences (`LoopOver`), among them those that keep some elements (`Keep`) or the first
of each (`Distinct`).

Data is abstract throughout: a registry value is one of ten, a key pair a model
value, a host name a sequence of labels (spelled out in characters only where the
code compares text), a body the sequence of changes made to it.

## The runs

The runs DnsIntercept, Forwarding and Parts do not check for deadlock, as their
parts may stop: a server has been stopped, all connections are used, the bound on a
clock or on the number of rules is reached, a configuration is built or refused.

| Run | Instance | Shows |
|---|---|---|
| Changes | four parts, one moving at a time: Windows settings (2 actors, 4 modes, 2 interfaces, 2 users), macOS (2 services), root CA (2 Managers, 3 pairs, both scopes), service (2 administrators); 918,000 states | `RecoverableUnlessOverwritten`: a setting that is not the user's is on record; `RemovedOnlyWhenRestored`: the record goes last; `Guarded`, `MacGuarded`: both platforms implement `GuardedChange`; certificate and key match, a complete pair is kept, a trusted root is the one that signs; an install has the service run its executable, and no command waits for a deletion it holds up |
| Engine | 1 process, 5 modes; 106,000 states | servers listen as long as the system points at them; a failed Start frees its ports; a Stop without an error has restored; a cancelled engine ends; it implements `SysSpec` |
| Lifecycle | 2 starts in pac mode, 1 shell; 677,000 states | one engine at most runs and one Apply or Restore at most is in progress, which is the premise of `SysSpec` |
| Lifecycle_stop | 1 start in dns mode, 2 shells; 10,000 states | stop and signals end the process |
| AppHost | 2 clients, dns and hosts requests; 20,000 states | an OK is true although requests are resent; every request ends; it implements `SysSpec` |
| DnsIntercept | 2 questions, 2 servers, 3 configurations; 148,000 states | targets never come from upstream, failing servers are passed over, every question is answered, both sockets come and go together |
| Forwarding | 2 connections, 5 configurations; 189,000 states | no socket is left behind, the original host is tried, tunnels end, Stop drains, and returns even without a deadline unless some one request never ends |
| Parts | six parts, one moving at a time; 230,000 states | configuration, hosts text, matcher and PAC script, cache ages, address policy, whole responses |
| SystemChange_overwrite, SystemChange_hosts, Lifecycle_exit, DnsIntercept_default | | violations, see below |

Parts that share no state are put in one run with a variable `moving` that is
chosen at the start: the others keep still, and the states are those of the parts
one after the other.

Bounds, and why they are enough. Two actors, processes, handlers, callers or
connections are the fewest that interleave; calls are short and start over, so
that all sequences of calls are covered, not a bounded number of them. Two
interfaces are the fewest for a failure between them; one is used where processes
are added. Two users differ in every setting, so each write changes something for
one of them. Engine leaves out `system`, which is `pac` with one server less.
Three key pairs allow for a second generation while a third is being made. Two
services of macOS, listed by name or as they come up, are the fewest of which one
can be missed; `MaxStops` allows for one call cut short between two edits of the
user, and any number of complete ones. Two administrators can overtake each other
in every step of the service commands. Two
upstream servers let one fail and the other take over. `MaxClock`, `MaxTime`,
`MaxLines` and `MaxRules` bound the parts with time or growth: the clocks run past
every TTL in use, the file holds a block between user lines, two rules can
compete. The configurations of Config vary the fields that depend on each other.
`MaxPause` says how long a handler may be held up between two steps.
Three more constants are assumptions on the environment: `RestoreAlone` (restore
is used after a crash, not beside a running start), `TakeTurns` in AppHost and
CertStore (two clients, two Managers do not work at the same time). What happens
without them is described below.

Fairness is weak fairness of the steps a scheduled thread takes by itself: the
threads of Start and Stop, the calls they are in (which return or fail, since
helper requests and shutdowns have deadlines), commands that poll with a deadline,
handlers of DNS questions (the forward timeout) and the lookups of the operating
system they wait for, the steps of Stop in Forwarding
and of a tunnel's copy loops. The expiry of Stop's context is fair only where the
caller has set a deadline (`conf.bounded`). No fairness is assumed
of the user, of upstream servers, of crashes or of failures.

## What is proved

All safety properties of the passing runs, refinements included, are theorems:

| Module | Theorems | Hold for every | Assume |
|---|---|---|---|
| SystemChangeProofs | `SysRecoverable`, `SysRemoval`, `SysRestoreReturned`, `SysTypeCorrect`; `SysImplementsGuarded`: `SysSpec => Guarded` | set of actors, modes, interfaces, settings | modes are the four; interfaces are named by strings that are not names of other settings; a user owns no managed block |
| EngineProofs | `EngPorts`, `EngServersOutlive`, `EngFailedStart` | number of processes, modes | |
| | `EngImplementsSys`: `EngSpec => SysSpec`; `EngClosesRestored` | as above | `SharedPort` |
| | `LifePorts`, `LifeServersOutlive` | number of starts and shells | |
| | `LifeOneEngine` | as above | `SharedPort` |
| | `LifeImplementsSys`: `LifeSpec => SysSpec`; `LifeOneCall`, `LifeRecoverable` | as above | `SharedPort`, `RestoreAlone` |
| AppHostProofs | `AppImplementsSys`: `AppSpec => SysSpec`; `AppAnswerIsTrue`, `AppRecoverable` | number of clients, requests | clients take turns (`TakeTurns`) |
| | `DeletionWaitsForOthers`, `InstalledRunsItself` | number of administrators | the viewer is none of them |
| ForwardingProofs | `FwdNoSocketLeaks`, `FwdStopDrains`, `FwdFallbackTried` | number of connections, addresses, candidates, configurations | |
| | `ResHonoursTTL`, `ResFollowsPolicy` | number of overlapping calls, answers, TTLs, `cache_ttl`, timeout | an answer is a nonempty sequence of records |
| DnsProofs | `TargetsAlwaysLocal`, `DnsStartsAndStopsWhole`, `DnsFailsOnlyIfServersDo` | number of questions, servers, configurations | the servers given by name are no targets |
| | `TTLNeverOutlives` | handlers, responses, TTLs, width of the TTL field | no handler is held up for more than a second (`MaxPause <= Second`) |
| PartsProofs | `CertMatchingPair`, `CertCompletePairKept`, `CertTrustedIsServed` | set of Managers and of key pairs | operations of two Managers do not overlap (`TakeTurns`) |
| | `ConfFlagsOverFile`, `ConfSound` | configuration file, flags | a file is a `Config` struct with all its fields |
| | `PageResponseWhole` | list of transforms | |
| | `MacImplementsGuard`: `MacSpec => MacGuarded` | network services, listings, settings of the user | a channel the user has on has an address |
| HostProofs | `HostsUserLinesKept`, `HostsRoundTrip` | hosts file, edits, blocks | the user writes no markers, and the block has no empty entry or marker |
| | `RulesMatchesCovered`, `RulesPacAgrees` | labels, host names, rules | a label has characters, none of them a dot, and is known by them |
| Induction | lemmas only | | |

The constants are restricted by named assumptions in the modules that declare them,
which TLC evaluates on the instances of the runs. Four hypotheses are more than that,
and the section on disagreements says what happens without them:

- `SharedPort`: there is one process, or all modes in use share the port that faces
  the clients (the proxy's: `proxy_only`, `system`, `pac`; the reverse proxy's:
  `hosts`, `dns`). The code has no other lock between processes: the second start
  fails because it cannot bind.
- `RestoreAlone`: `restore` is used after a crash, not beside a running start.
- `TakeTurns`: clients of the service, or Managers of the root CA, do not work at the
  same time.
- `MaxPause <= Second`.

### The arguments

**SystemChange.** `RecoverableUnlessOverwritten` is not inductive: in the middle of a
Restore the settings already put back no longer need the record, and nothing in the
statement says which these are; and nothing says that the record is complete before
the first write. The inductive invariant `SysIInv` adds what each call knows at each
of its steps (`ApplyPhase`: from the first write on, the file holds the state this
call took; `RestorePhase`: the settings before `next` have their saved values, at
`remove` all have), that only one call is in progress (`OneBusy`), that idle actors
hold nothing (`AtRest`), and that what the file promises is the user's
(`SavedIsUsers`). The proof has one lemma per action; `EndStep` serves all actions
that only end a call. `SysRemoval` follows since only `RemoveRollback` and
`HostsUnsave` remove the file, and their phases say what the settings are. For
`SysImplementsGuarded` a step is looked at through what it does to the three sets of
`GuardedChange`: it leaves them alone, begins or completes the record, changes one
setting, or removes the file. That a write finds its setting on record, and that a
removal finds nothing taken over, is again what `SysIInv` says of the phase.

**Engine.** `PortIInv` is a book of the ports: a process listens at exactly the
servers that its main thread, its goroutine and the fields of its engine hold between
them; only one of the three holds any; and what a thread in Start holds is what its
plan has brought up so far. `ServersOutliveTakeover` and `FailedStartReleases` are
read off it. For the refinement, a thread is in a call only where Start or Stop makes
one (`CallIInv`), and there it holds the server that faces the clients; as two
processes cannot both listen there, no two calls overlap. This is why `SharedPort` is
needed, and all that is. `EngClosesRestored` also needs the result of Restore
(`SysRestoreReturned`): a Restore without an error has removed the file.

**Lifecycle.** `CliPhase` carries the same invariant through the commands: a process
that has not got to its engine, or is gone, holds nothing; one that serves has
started. `ShellPhase`: a `restore` used alone finds no engine at work. With
`LifeImplementsSys` the theorems about `SystemChange` hold of racing processes, which
is how `LifeRecoverable` is proved. The Lifecycle run checks `OneCallAtATime` only:
`SysSpec` as its PROPERTY holds as well, but takes TLC seven to eight minutes.

**AppHost.** `RequestPhase` ties a client's place in `runAppHostRequestPlatform` to
its connection and to what the service executes for it, through restarts, resent
requests and clients that die; `Carried` says what an OK on its way back means.

**AppHostService.** `HandleIInv`: a command holds a handle only inside the call that
opened it. `WaitsForOthers` alone says too little about commands that are not waiting
yet. `RunIInv`, for `InstallRunsItself`: what an install that nobody has overtaken
knows of the service at each step (`InstallSees`): until it configures, a service it
found stopped or stopping has not come up again; once configured or created, the entry
names the new executable; and from its Start on, what runs is that executable.
`InstallForm` says where an install goes on after each of the calls it is in.

**Forwarding.** `ConnOk` says what a handler holds at each of its points, `StageOk`
which listeners are open and which connections a server still tracks while Start and
Stop proceed. For `FallbackTried`, `DueIInv`: while a handler dials, every address of
the host that is still due is among the candidates left. It begins to hold in
`Resolve`, where the candidates go through `addCandidate`; that this fold drops
repetitions and nothing else is `DistinctFacts`, an induction over the sequence.

**DNS.** `LocalIInv`: a handler that forwards or has replied from upstream, and every
cached question, is one `shouldForwardTarget` lets through. The question has to be
typed along with it, as the forwarder's own lookups are questions too, which is where
the assumption on the servers' names comes in. `StopIInv` relates the sockets held to
the place Start or Stop is at, and says that no question is left on a socket that was
shut down; nobody can begin one there, as the adapters have been given back before.
`FailIInv`: a handler at server i has been failed by all servers before it
(`FairlyTried`), and without a loop no question of our own ever begins, so nobody
fails because somebody else's lookup did.
`CacheIInv` bounds, for each handler, how long ago its answer was made and when its
entry expires, in terms of the records' lifetimes and the pause; the theorem follows
by arithmetic with the rounding to seconds and the conversion to `uint32`. The bound
is tight: with `MaxPause = 3` and `Second = 2` TLC finds a counterexample.

**Root CA.** `CertIInv`: the key file is written after the certificate it belongs to
(`FilesAgree`), a pair in memory is the pair on disk (`MemoryAgrees`), and what an
operation knows of the files at each step (`TaskPhase`: there is no key from the
decision to generate until the key file is opened). Without `TakeTurns` the last
part fails, and so does the theorem.

**Configuration.** The content of `ConfFlagsOverFile` is that Validate, which changes
what it validates, may run before and after the flags are applied: `ConfIInv` says
what the configuration is at each stage in terms of the file and the flags, and rests
on lemmas about `Normalized`: it is idempotent (`NormalizedTwice`), and it can be
applied before the flags without a difference after them, unless a file for mode dns
meets a flag for another mode (`NormalizedFirst`, `StaysInDnsMode`).

**Page enhancement.** `PageIInv`: until a run is over the response is as it came but
for edits of its headers, and the local body differs from the upstream's only if it is
marked modified; so whichever step fails, what is restored is the original.

**Resolver.** `ResIInv`: a call that asks servers is within its timeout, its first
answer came after it began, and where all TTLs seen are positive its own is positive
and none of them is less; an entry expires in time for the records it came from,
whichever call has written it. That `parseDNSResponse` computes the least TTL of an
answer is `AnswerTTLFacts`, an induction over the records. `PolicyIInv`, for
`ResultFollowsPolicy`: what a call has gathered are addresses, and every result and
every cache entry is what the policy makes of some such sequence. The rest is about
`ApplyPolicy`: `KeepFacts`, `DistinctFacts` and `KeepInOrder` say that its loops keep
exactly the allowed addresses, once each, in the order of their first occurrence.

**macOS.** `MacIInv` ties the call that runs to the rollback file (`JobPhase`,
`FilePhase`): before the file is filled nothing has been changed since the snapshot;
while commands run, the file is the one this call saved or read. A Restore in the
middle of a service is the hard part: the channel under way has neither the value that
was saved nor the one it had. `Back` says that each channel of a recorded service has
its saved value, or a command that will give it this value is still to run, or the
service is still to come; `Orderly`, that a command for an address is followed by the
one for the channel's state, since the former turns the channel on. `BackStep` carries
both over one command and `BackService` over the change to the next service. At
`remove` nothing is to come any more, so all is back. The assumption that a channel
which is on has an address is needed: Restore sets no empty address, and a channel
that was on without one would keep this program's.

**Hosts text.** `HostsIInv`: the file is some lines of the user's, the block in force
and some more lines of the user's (`Laid`). `ScanBlock` says what the scan of
`removeManagedBlock` makes of such a file, by induction over each of its parts, and
`TrimKeep` that trimming removes no line of the user's. An insertion or a deletion
outside the block falls into one of the two parts (`InBlockPlace`, `InsertLaid`,
`DeleteLaid`). `RoundTrip` then follows, as both sides are computed from the same two
parts.

**Rules.** `RulesIInv` relates the tables of the matcher to the rules given: the exact
table has the last exact rule of each host, the wildcards stand in the order of their
rules. What remains is one statement about text, `BelowWays`: a name's text ends in a
dot and the text of another name exactly if the other's labels are its last ones. It
rests on `LastDot` (a text is cut at its last dot in one way, as no label holds a
dot) and on inductions over the labels (`BelowMore`, `JoinInjective`).

**Induction** has what the other modules need of induction over data: for a set of
numbers or of sequences instead of a predicate, as the provers do not instantiate
operators (`Induct`, `InductTo`, `SeqInduct`), that a loop over a sequence with one more
element is the loop and one more step (`LoopAppend`, `LoopEmpty`), and what `Keep` and
`Distinct` return. `LoopOver` takes the body of the loop as a function and not as an
operator, so that these lemmas can be stated of all loops. The folds of the community
modules do not, and extending SequencesExt makes the proofs about a module several
times slower. It also has the steps of arithmetic and the memberships of `Seq(S)` in
which the proofs of bounds and types end: in a module as long as ForwardingProofs the
translation of a step for the arithmetic prover takes seconds, in Induction it does not.

### Only model-checked

- Liveness: `CancelStops`, `StopCompletes`, `StopCommandStops`, `RequestEnds`,
  `EveryQuestionAnswered`, `TunnelEnds`, `StopReturns`. TLAPS does not reason about
  ENABLED and fairness.

They are the only properties of the passing runs without a theorem.

## Where the code and its documents disagree

Four runs expect a violation.

- **SystemChange_overwrite** (`Recoverable`): after a crash, start without restore
  saves the accelerator's own settings over the user's. docs/usage.md:359 has
  `stop` restore "the previous system setting".
- **SystemChange_hosts** (`HostsContentKept`): the hosts file is rewritten in place
  and not backed up; a crash or a failed write after the truncation loses the user's
  lines. The implementation roadmap (lines 684 to 686) asks for a backup before the
  write, a rollback after a failed one, and that the user's content is not damaged.
- **Lifecycle_exit** (`GracefulExitRestores`): the goroutine is first in Stop, the
  main thread's Stop returns nil at once and the process exits without an error
  before anything is restored.
- **DnsIntercept_default** (`LoopSafe`): the default DoH servers have host names,
  and in the system strategy the forwarder resolves them through itself; they are
  called "loop-safe" in docs/usage.md:256.

Met while modelling, and contradicted by no document:

- On macOS a network service that comes up between the two listings of Apply is
  taken over and never put back (`late` in MacProxy).
- A configuration file for mode dns refuses `--mode` for any other mode, its first
  Validate having set `dns_intercept.enabled`.
- `apphost install` over a service that is just starting leaves the old executable
  running (`raced` in AppHostService).
- `status` and `stop` can remove the state file of a process that serves, after
  one slow answer.
- `restore` beside a running start (`RestoreAlone = FALSE`), or two starts in
  modes that share no port (pac and hosts), overlap two calls and lose settings.
- AppHost requests of two clients at the same time (`TakeTurns = FALSE`) can get
  an OK for a change the other has undone; a resent Apply overwrites the rollback
  state of the first.
- Two processes that generate the root CA at the same time (`TakeTurns = FALSE`)
  can end up with a pair that does not match.
- A DNS answer whose handler is held up for more than a second past its expiry
  goes out with its original TTLs, the cap having wrapped (`MaxPause = 3`).
- A first DNS server that hangs uses up the time of the others.
- Records with TTL 0 are cached for `cache_ttl`.
- The PAC script sends two sorts of hosts to the proxy that the proxy refuses:
  those the IDNA lookup rejects below a wildcard, and names of inherited
  properties such as `constructor`.
- The HTTPS listener's connections may outlive a Stop that reports an error; a
  half-closed tunnel is cut in both directions.

## Not modelled

- Providers: static lists, which are the constants of Rules and Forwarding.
- `upstream/probe.go`, diagnostics, status output, logs and counters: they read,
  classify and print, and no other part depends on them.
- The UAC helper process with its request and answer files, and re-execution through
  sudo: they run the same Apply and Restore in another process that the caller waits
  for, with the effect AppHost models for the service.
- The contents of certificates and the cache of site certificates, which keeps a
  certificate past its ninety days if the process runs that long: CertStore has no
  clock.
- YAML, JSON, DNS and HTTP formats, PowerShell and registry encodings: abstracted to
  the values they carry.
- The bytes a CONNECT reply may leave in the dialer's buffer (upstream.go:400), as
  bytes are left out of Forwarding.

What is left is stateless or formatting. The models could go further in time (one
clock for certificates, caches and deadlines) rather than in breadth.

## Plan

Done: the modules above, in the order SystemChange, Engine, Lifecycle, AppHost,
CertStore, the data path, GuardedChange, MacProxy, AppHostService, Config; the proofs
of their safety properties. To come: the helper's retry after a refused direct call
(privilege.go) in AppHost, and the site certificates of the reverse proxy with a
clock.
