------------------------------ MODULE MacProxy -------------------------------
(***************************************************************************)
(* The system proxy on macOS (internal/systemproxy/macos_platform.go under *)
(* Apply and Restore of systemproxy.go).  There a takeover changes three   *)
(* channels of every network service, one networksetup command at a time,  *)
(* and the services are listed twice: by Snapshot, which saves what it     *)
(* finds, and again by ApplyPAC or ApplySystem, which change what they     *)
(* find.  One call runs at a time; SystemChange models the same two        *)
(* functions over the Windows platforms, with several callers.             *)
(***************************************************************************)
EXTENDS Naturals, Sequences, Functions

CONSTANTS
    Services,       \* the network services
    Listed,         \* what -listallnetworkservices may show as enabled
    Configured,     \* values of system_proxy.services; <<>> has the services
                    \* listed
    Address,        \* proxies and PAC URLs: "" is none, "auth" a proxy with
                    \* credentials, "ours" this program's
    UserNets,       \* what users may have set for the services
    MaxStops        \* bound: calls cut short before the user edits again

VARIABLES
    net,            \* the channels of each service
    macFile,        \* the rollback file
    macJob,         \* the call that runs
    macOwn,         \* history: what the user last chose for each service
    macLost,        \* history: services taken when a record was overwritten
    late,           \* history: services changed though Snapshot saw them not
    stops           \* calls cut short since the user last edited

macVars == <<net, macFile, macJob, macOwn, macLost, late, stops>>

Channel == {"web", "secure", "auto"}
Nets == [Services -> [Channel -> [on : BOOLEAN, addr : Address]]]
NoMacFile == [kind |-> "none", order |-> <<>>, saved |-> <<>>]
TornMacFile == [kind |-> "torn", order |-> <<>>, saved |-> <<>>]
NoJob == [pc |-> "idle", mode |-> "none", conf |-> <<>>,
          order |-> <<>>, saved |-> <<>>, rest |-> <<>>, todo |-> <<>>]

\* A channel the user has on has an address: Restore sets no empty address,
\* and could not bring back one that is on without.
ASSUME MacAssumption ==
    /\ Listed \subseteq Seq(Services)
    /\ Configured \subseteq Seq(Services)
    /\ "ours" \in Address
    /\ UserNets \subseteq Nets
    /\ \A n \in UserNets, s \in Services, ch \in Channel : n[s][ch].on => n[s][ch].addr # ""

\* services(): the configured names, or those listed as enabled at that time.
Listings(conf) == IF conf # <<>> THEN {conf} ELSE Listed

SetAddr(s, ch, v) == [svc |-> s, ch |-> ch, field |-> "addr", val |-> v]
SetState(s, ch, v) == [svc |-> s, ch |-> ch, field |-> "on", val |-> v]

\* The commands ApplyPAC and ApplySystem run for one service.
ApplyCommands(mode, s) ==
    IF mode = "pac"
    THEN <<SetAddr(s, "auto", "ours"), SetState(s, "auto", TRUE),
           SetState(s, "web", FALSE), SetState(s, "secure", FALSE)>>
    ELSE <<SetAddr(s, "web", "ours"), SetAddr(s, "secure", "ours"),
           SetState(s, "web", TRUE), SetState(s, "secure", TRUE),
           SetState(s, "auto", FALSE)>>

\* Mutant: the state first, and the address, which turns it on again, after.
RestoreChannelStateFirst(s, ch, c) ==
    <<SetState(s, ch, c.on)>> \o (IF c.addr = "" THEN <<>> ELSE <<SetAddr(s, ch, c.addr)>>)

\* The commands Restore runs for one channel: the address if there was one,
\* then the state.
RestoreChannel(s, ch, c) ==
    (IF c.addr = "" THEN <<>> ELSE <<SetAddr(s, ch, c.addr)>>) \o <<SetState(s, ch, c.on)>>

RestoreCommands(s, saved) ==
    RestoreChannel(s, "web", saved["web"]) \o RestoreChannel(s, "secure", saved["secure"])
        \o RestoreChannel(s, "auto", saved["auto"])

\* What a call runs for one service.
Commands(job, s) ==
    IF job.mode = "restore" THEN RestoreCommands(s, job.saved[s]) ELSE ApplyCommands(job.mode, s)

MacHolds == macFile.kind = "state"

\* The user's choice is in force; an address nobody had set may stay behind
\* in a channel that is off.
Kept(c, own) == c.on = own.on /\ (c.addr = own.addr \/ (own.addr = "" /\ ~own.on))

Same(chans, own) == \A ch \in Channel : Kept(chans[ch], own[ch])

MacTaken == {s \in Services \ late : ~Same(net[s], macOwn[s])}

MacRecorded == {s \in DOMAIN macFile.saved : Same(macFile.saved[s], macOwn[s])}

-----------------------------------------------------------------------------
MacInit ==
    /\ net \in UserNets
    /\ macFile = NoMacFile
    /\ macJob = NoJob
    /\ macOwn = net
    /\ macLost = {} /\ late = {} /\ stops = 0

MacApply(mode, conf) ==
    /\ macJob = NoJob
    /\ macJob' = [NoJob EXCEPT !.pc = "snapshot", !.mode = mode, !.conf = conf]
    /\ UNCHANGED <<net, macFile, macOwn, macLost, late>>

\* Snapshot: list the services and read their channels.  It refuses a proxy
\* with credentials, and fails if there is no service.
MacSnapshot ==
    /\ macJob.pc = "snapshot"
    /\ \E seen \in Listings(macJob.conf) :
          LET refused == \E s \in Range(seen), ch \in {"web", "secure"} :
                             net[s][ch].addr = "auth"
          IN  macJob' = IF seen = <<>> \/ refused THEN NoJob
                        ELSE [macJob EXCEPT !.pc = "truncate", !.order = seen,
                                            !.saved = Restrict(net, Range(seen))]
    /\ UNCHANGED <<net, macFile, macOwn, macLost, late>>

\* WriteState: os.WriteFile truncates the file ...
MacTruncate ==
    /\ macJob.pc = "truncate"
    /\ macFile' = TornMacFile
    /\ macLost' = macLost \cup (IF MacHolds THEN MacTaken ELSE {})
    /\ macJob' = [macJob EXCEPT !.pc = "save"]
    /\ UNCHANGED <<net, macOwn, late>>

\* ... and then fills it.
MacSave ==
    /\ macJob.pc = "save"
    /\ macFile' = [kind |-> "state", order |-> macJob.order, saved |-> macJob.saved]
    /\ macJob' = [macJob EXCEPT !.pc = "list"]
    /\ UNCHANGED <<net, macOwn, macLost, late>>

\* ApplyPAC and ApplySystem list the services again.
MacRelist ==
    /\ macJob.pc = "list"
    /\ \E seen \in Listings(macJob.conf) :
          macJob' = IF seen = <<>> THEN NoJob
                    ELSE [macJob EXCEPT !.pc = "run", !.rest = seen]
    /\ UNCHANGED <<net, macFile, macOwn, macLost, late>>

\* The loop over the services goes on to the next.
MacService ==
    /\ macJob.pc = "run"
    /\ macJob.todo = <<>> /\ macJob.rest # <<>>
    /\ macJob' = [macJob EXCEPT !.todo = Commands(macJob, Head(macJob.rest)), !.rest = Tail(@)]
    /\ UNCHANGED <<net, macFile, macOwn, macLost, late>>

\* One networksetup command.  Setting an address also turns the channel on.
MacCommand ==
    /\ macJob.pc = "run"
    /\ macJob.todo # <<>>
    /\ LET c == Head(macJob.todo)
       IN  /\ net' = [net EXCEPT ![c.svc][c.ch] =
                          IF c.field = "addr" THEN [on |-> TRUE, addr |-> c.val]
                                              ELSE [@ EXCEPT !.on = c.val]]
           /\ late' = late \cup ({c.svc} \ DOMAIN macJob.saved)
    /\ macJob' = [macJob EXCEPT !.todo = Tail(@)]
    /\ UNCHANGED <<macFile, macOwn, macLost>>

MacDone ==
    /\ macJob.pc = "run"
    /\ macJob.todo = <<>> /\ macJob.rest = <<>>
    /\ macJob' = [NoJob EXCEPT !.pc = IF macJob.mode = "restore" THEN "remove" ELSE "serving"]
    /\ UNCHANGED <<net, macFile, macOwn, macLost, late>>

\* The process that took over stops, or a later one restores.
MacRestore ==
    /\ macJob.pc \in {"idle", "serving"}
    /\ macJob' = [NoJob EXCEPT !.pc = "read", !.mode = "restore"]
    /\ UNCHANGED <<net, macFile, macOwn, macLost, late>>

\* ReadState, then the services in the order they were saved in.
MacRead ==
    /\ macJob.pc = "read"
    /\ macJob' = IF ~MacHolds THEN NoJob
                 ELSE [macJob EXCEPT !.pc = "run", !.saved = macFile.saved,
                                     !.rest = macFile.order]
    /\ UNCHANGED <<net, macFile, macOwn, macLost, late>>

MacRemove ==
    /\ macJob.pc = "remove"
    /\ macFile' = NoMacFile
    /\ macJob' = NoJob
    /\ UNCHANGED <<net, macOwn, macLost, late>>

\* A command or a file operation fails, and the call with it, or the process
\* dies.  Either way nothing is undone.
MacStops ==
    /\ macJob # NoJob
    /\ stops < MaxStops
    /\ macJob' = NoJob
    /\ stops' = stops + 1
    /\ UNCHANGED <<net, macFile, macOwn, macLost, late>>

\* The user sets everything by hand, there being nothing to restore.
MacUserEdit ==
    /\ macJob = NoJob
    /\ ~MacHolds
    /\ net' \in UserNets
    /\ macOwn' = net'
    /\ macLost' = {} /\ late' = {} /\ stops' = 0
    /\ UNCHANGED <<macFile, macJob>>

MacNext ==
    \/ /\ \/ \E mode \in {"pac", "system"}, conf \in Configured : MacApply(mode, conf)
          \/ MacSnapshot \/ MacTruncate \/ MacSave \/ MacRelist
          \/ MacService \/ MacCommand \/ MacDone
          \/ MacRestore \/ MacRead \/ MacRemove
       /\ UNCHANGED stops
    \/ MacStops \/ MacUserEdit

MacSpec == MacInit /\ [][MacNext]_macVars

-----------------------------------------------------------------------------
MacGuard == INSTANCE GuardedChange
    WITH Part <- Services, taken <- MacTaken, recorded <- MacRecorded, lost <- macLost

(* On macOS, too, Apply and Restore implement the guarded change, whatever *)
(* command fails and wherever the process dies: a service is changed only  *)
(* while what the user had is on record, and the record goes only when     *)
(* every channel of every service is back.  The services that came up      *)
(* between the two listings are the exception: nothing recorded them.      *)
MacGuarded == MacGuard!GuardSpec
=============================================================================
