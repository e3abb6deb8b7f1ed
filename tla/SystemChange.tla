---------------------------- MODULE SystemChange ----------------------------
(***************************************************************************)
(* The system settings the accelerator takes over and the one rollback     *)
(* file that guards them.                                                  *)
(*                                                                         *)
(* Packages systemproxy, systemdns and hosts each have an Apply and a      *)
(* Restore.  All three write the same file, cfg.Runtime.RollbackPath,      *)
(* before they touch the system, and remove it after they have put the     *)
(* system back.  Here each call that changes the file or the system is a   *)
(* step of its own, so that a process can die, and a call can fail,        *)
(* between any two of them.                                                *)
(*                                                                         *)
(* Simplifications: Windows only (hosts and dns modes exist nowhere else). *)
(* A registry value, an interface's DNS ("dhcp", or some static servers)   *)
(* and the managed hosts block are abstract values; a snapshot reads all   *)
(* values of its kind in one step.                                         *)
(***************************************************************************)
EXTENDS Naturals, Sequences

CONSTANTS
    Actor,          \* threads and commands that call Apply or Restore
    Mode,           \* the modes in use, of pac, system, hosts and dns
    Ifaces,         \* the interfaces dns_intercept.interfaces selects, in order
    Value,          \* values a setting may hold
    UserSettings    \* the settings a user may have chosen

VARIABLES
    settings,       \* what the operating system holds, per part
    hostsLines,     \* the user's own lines of the hosts file
    rollback,       \* the rollback file
    job,            \* the Apply or Restore each actor is in
    user,           \* history: the settings the user chose
    lost            \* history: parts whose user value went off the record

sysVars == <<settings, hostsLines, rollback, job, user, lost>>

-----------------------------------------------------------------------------
(* Settings, by the kind of change that touches them. *)

Kind == {"proxy", "dns", "hosts"}

DnsParts == {Ifaces[i] : i \in 1..Len(Ifaces)}

PartsOf(k) ==
    CASE k = "proxy" -> {"ProxyEnable", "ProxyServer", "AutoConfigURL"}
      [] k = "dns"   -> DnsParts
      [] k = "hosts" -> {"HostsBlock"}

Part == PartsOf("proxy") \cup PartsOf("dns") \cup PartsOf("hosts")

KindOf(m) ==
    CASE m \in {"pac", "system"} -> "proxy"
      [] m = "dns"               -> "dns"
      [] m = "hosts"             -> "hosts"

ASSUME ModeAssumption == Mode \subseteq {"pac", "system", "hosts", "dns"}

ASSUME IfacesAssumption ==
    /\ Ifaces \in Seq(STRING)
    /\ DnsParts \cap (PartsOf("proxy") \cup PartsOf("hosts")) = {}

\* The user never owns a managed block, and the values the code writes exist.
ASSUME ValueAssumption ==
    /\ {"absent", "0", "1", "ours", "loopback", "dhcp", "none", "block"} \subseteq Value
    /\ UserSettings \subseteq [Part -> Value]
    /\ \A u \in UserSettings : u["HostsBlock"] = "none"

(* A rollback state: its kind and the value to put back for every part.    *)
(* hosts.State saves no content, restoring means removing the block.       *)
SavedValue(k) == IF k = "hosts" THEN {"none"} ELSE Value

StateOf(k) == [kind : {k}, saved : [PartsOf(k) -> SavedValue(k)]]

RollbackState == StateOf("proxy") \cup StateOf("dns") \cup StateOf("hosts")

NoFile == [kind |-> "nofile"]      \* os.ErrNotExist
Torn == [kind |-> "torn"]        \* truncated by os.WriteFile, not yet filled

Holds(f) == f.kind \in Kind        \* the file parses as a rollback state

(* An interface has static servers if its NameServer value can be read,    *)
(* else DHCP: one in unread, whose value or GUID the script failed to get, *)
(* is recorded as DHCP whatever it has.                                    *)
Snapshot(k, unread) ==
    [kind  |-> k,
     saved |-> [p \in PartsOf(k) |-> IF k = "hosts" THEN "none"
                                    ELSE IF p \in unread THEN "dhcp" ELSE settings[p]]]

Taken == {p \in Part : settings[p] # user[p]}

(* The writes of one Apply, in the order the code makes them. *)
ApplyWrites(m) ==
    CASE m = "pac"    -> << <<"AutoConfigURL", "ours">>, <<"ProxyEnable", "0">> >>
      [] m = "system" -> << <<"ProxyServer", "ours">>, <<"ProxyEnable", "1">>,
                            <<"AutoConfigURL", "absent">> >>
      [] m = "dns"    -> [i \in 1..Len(Ifaces) |-> <<Ifaces[i], "loopback">>]
      [] m = "hosts"  -> << <<"HostsBlock", "block">> >>

RestoreOrder(k) ==
    CASE k = "proxy" -> <<"ProxyEnable", "ProxyServer", "AutoConfigURL">>
      [] k = "dns"   -> Ifaces
      [] k = "hosts" -> <<"HostsBlock">>

-----------------------------------------------------------------------------
(* The Apply or Restore an actor is executing.  target is the mode of an   *)
(* Apply, the kind of a Restore, or "any" for the restore command, which   *)
(* picks the kind from the file.                                           *)

Pc == {"idle", "snapshot", "truncate", "save", "write", "fill", "unsave",
       "dispatch", "read", "remove", "ok", "err", "nostate"}

Idle == [op |-> "none", target |-> "none", pc |-> "idle", next |-> 1,
         state |-> NoFile, lines |-> "kept"]

Returned == {"ok", "err", "nostate"}

JobType == [op     : {"none", "apply", "restore"},
            target : {"none", "any"} \cup Mode \cup Kind,
            pc     : Pc,
            next   : Nat \ {0},
            state  : RollbackState \cup {NoFile},
            lines  : {"kept", "lost"}]

At(a, op, pc) == job[a].op = op /\ job[a].pc = pc

Goto(a, pc) == job' = [job EXCEPT ![a].pc = pc]

AllIdle == \A a \in Actor : job[a].pc = "idle"

SysInit ==
    /\ user \in UserSettings
    /\ settings = user
    /\ hostsLines = "kept"
    /\ rollback = NoFile
    /\ job = [a \in Actor |-> Idle]
    /\ lost = {}

-----------------------------------------------------------------------------
(* Apply *)

CallApply(a, m) ==
    /\ job[a] = Idle
    /\ job' = [job EXCEPT ![a] = [Idle EXCEPT !.op = "apply", !.target = m,
                                              !.pc = "snapshot"]]

\* platform.Snapshot, or hosts.Apply reading the hosts file.
TakeSnapshot(a) ==
    /\ At(a, "apply", "snapshot")
    /\ \/ \E unread \in SUBSET DnsParts :
             job' = [job EXCEPT ![a].pc = "truncate",
                                ![a].state = Snapshot(KindOf(job[a].target), unread),
                                ![a].lines = hostsLines]
       \/ Goto(a, "err")
    /\ UNCHANGED <<settings, hostsLines, rollback, user, lost>>

\* WriteState: os.WriteFile truncates the file ...
TruncateRollback(a) ==
    /\ At(a, "apply", "truncate")
    /\ \/ /\ rollback' = Torn
          /\ Goto(a, "save")
          /\ lost' = lost \cup (IF Holds(rollback) THEN Taken ELSE {})
       \/ rollback' = rollback /\ Goto(a, "err") /\ UNCHANGED lost
    /\ UNCHANGED <<settings, hostsLines, user>>

Misread(f) == {p \in DOMAIN f.saved : f.kind = "dns" /\ f.saved[p] # settings[p]}

SavedRight(f) == {p \in DOMAIN f.saved : f.saved[p] = user[p]}

\* ... and then fills it.
FillRollback(a) ==
    LET f == job[a].state
    IN  /\ At(a, "apply", "save")
        /\ \/ /\ rollback' = f
              /\ Goto(a, "write")
              /\ lost' = (lost \cup Misread(f)) \ SavedRight(f)
           \/ rollback' = rollback /\ Goto(a, "err") /\ UNCHANGED lost
        /\ UNCHANGED <<settings, hostsLines, user>>

\* One registry value, or Set-DnsClientServerAddress for one interface.
ApplyWrite(a) ==
    LET w == ApplyWrites(job[a].target)
        i == job[a].next
    IN  /\ At(a, "apply", "write")
        /\ job[a].target # "hosts"
        /\ i <= Len(w)
        /\ settings' = [settings EXCEPT ![w[i][1]] = w[i][2]]
        /\ job' = [job EXCEPT ![a].next = i + 1]
        /\ UNCHANGED <<hostsLines, rollback, user, lost>>

ApplyDone(a) ==
    /\ At(a, "apply", "write")
    /\ job[a].target # "hosts"
    /\ job[a].next = Len(ApplyWrites(job[a].target)) + 1
    /\ Goto(a, "ok")
    /\ UNCHANGED <<settings, hostsLines, rollback, user, lost>>

\* A write, the change notification or the script fails; nothing is undone.
ApplyFails(a) ==
    /\ At(a, "apply", "write")
    /\ job[a].target # "hosts"
    /\ Goto(a, "err")
    /\ UNCHANGED <<settings, hostsLines, rollback, user, lost>>

-----------------------------------------------------------------------------
(* Writing the hosts file, in hosts.Apply and in hosts.Restore *)

AtHostsWrite(a, pc) ==
    /\ job[a].pc = pc
    /\ job[a].op \in {"apply", "restore"}
    /\ job[a].target = "hosts"

\* os.WriteFile truncates the hosts file ...
HostsTruncate(a) ==
    /\ AtHostsWrite(a, "write")
    /\ hostsLines' = "lost"
    /\ settings' = [settings EXCEPT !["HostsBlock"] = "none"]
    /\ Goto(a, "fill")
    /\ UNCHANGED <<rollback, user, lost>>

\* ... and writes the lines read before, with or without the block.
HostsFill(a) ==
    /\ AtHostsWrite(a, "fill")
    /\ hostsLines' = job[a].lines
    /\ \/ /\ job[a].op = "apply"
          /\ settings' = [settings EXCEPT !["HostsBlock"] = "block"]
          /\ Goto(a, "ok")
       \/ /\ job[a].op = "restore"
          /\ settings' = [settings EXCEPT !["HostsBlock"] = "none"]
          /\ Goto(a, "remove")
    /\ UNCHANGED <<rollback, user, lost>>

\* The block comes last: when a part of it is in the file the lines all are.
HostsFillPartly(a) ==
    /\ AtHostsWrite(a, "fill")
    /\ job[a].op = "apply"
    /\ hostsLines' = job[a].lines
    /\ settings' = [settings EXCEPT !["HostsBlock"] = "block"]
    /\ UNCHANGED <<rollback, job, user, lost>>

\* Before the truncation, or at any time after it.  hosts.Apply then drops its rollback state.
HostsWriteFails(a) ==
    /\ AtHostsWrite(a, "write") \/ AtHostsWrite(a, "fill")
    /\ Goto(a, IF job[a].op = "apply" THEN "unsave" ELSE "err")
    /\ UNCHANGED <<settings, hostsLines, rollback, user, lost>>

\* RemoveState after a failed write, whatever the write has left behind; its
\* own error is ignored.
HostsUnsave(a) ==
    /\ At(a, "apply", "unsave")
    /\ \/ rollback' = NoFile /\ lost' = lost \cup Taken
       \/ UNCHANGED <<rollback, lost>>
    /\ Goto(a, "err")
    /\ UNCHANGED <<settings, hostsLines, user>>

-----------------------------------------------------------------------------
(* Restore *)

CallRestore(a, k) ==
    /\ job[a] = Idle
    /\ job' = [job EXCEPT ![a] = [Idle EXCEPT !.op = "restore", !.target = k,
                  !.pc = IF k = "any" THEN "dispatch" ELSE "read"]]

\* restoreRollback of the CLI: look at the kind, then call that Restore.
Dispatch(a) ==
    /\ At(a, "restore", "dispatch")
    /\ \/ rollback = NoFile /\ Goto(a, "nostate")
       \/ rollback = Torn /\ Goto(a, "err")
       \/ /\ Holds(rollback)
          /\ job' = [job EXCEPT ![a].target = rollback.kind, ![a].pc = "read"]
    /\ UNCHANGED <<settings, hostsLines, rollback, user, lost>>

\* ReadState and the checks on kind and mode.  Restoring a proxy from a file
\* of another kind fails for want of its Windows values; hosts.Restore takes
\* such a file for no state at all.
ReadRollback(a) ==
    LET k == job[a].target
    IN  /\ At(a, "restore", "read")
        /\ \/ rollback = NoFile /\ Goto(a, "nostate")
           \/ rollback = Torn /\ Goto(a, "err")
           \/ /\ Holds(rollback) /\ rollback.kind # k
              /\ Goto(a, IF k = "hosts" THEN "nostate" ELSE "err")
           \/ /\ Holds(rollback) /\ rollback.kind = k
              /\ job' = [job EXCEPT ![a].pc = "write", ![a].state = rollback,
                                    ![a].lines = hostsLines]
           \/ Goto(a, "err")
        /\ UNCHANGED <<settings, hostsLines, rollback, user, lost>>

RestoreWrite(a) ==
    LET order == RestoreOrder(job[a].target)
        i     == job[a].next
    IN  /\ At(a, "restore", "write")
        /\ job[a].target # "hosts"
        /\ i <= Len(order)
        /\ settings' = [settings EXCEPT ![order[i]] = job[a].state.saved[order[i]]]
        /\ job' = [job EXCEPT ![a].next = i + 1]
        /\ UNCHANGED <<hostsLines, rollback, user, lost>>

\* Mutant: the last setting is not put back.
RestoreWrittenEarly(a) ==
    /\ At(a, "restore", "write")
    /\ job[a].target # "hosts"
    /\ job[a].next >= Len(RestoreOrder(job[a].target))
    /\ Goto(a, "remove")
    /\ UNCHANGED <<settings, hostsLines, rollback, user, lost>>

RestoreWritten(a) ==
    /\ At(a, "restore", "write")
    /\ job[a].target # "hosts"
    /\ job[a].next = Len(RestoreOrder(job[a].target)) + 1
    /\ Goto(a, "remove")
    /\ UNCHANGED <<settings, hostsLines, rollback, user, lost>>

\* Mutant: the error of platform.Restore is ignored.
RestoreFailsUnnoticed(a) ==
    /\ At(a, "restore", "write")
    /\ job[a].target # "hosts"
    /\ Goto(a, "remove")
    /\ UNCHANGED <<settings, hostsLines, rollback, user, lost>>

\* platform.Restore fails part way; the rollback state stays.
RestoreFails(a) ==
    /\ At(a, "restore", "write")
    /\ job[a].target # "hosts"
    /\ Goto(a, "err")
    /\ UNCHANGED <<settings, hostsLines, rollback, user, lost>>

\* RemoveState after everything has been put back.
RemoveRollback(a) ==
    /\ At(a, "restore", "remove")
    /\ \/ rollback' = NoFile /\ Goto(a, "ok")
       \/ rollback' = rollback /\ Goto(a, "err")
    /\ UNCHANGED <<settings, hostsLines, user, lost>>

-----------------------------------------------------------------------------
Working(a) ==
    \/ TakeSnapshot(a) \/ TruncateRollback(a) \/ FillRollback(a)
    \/ ApplyWrite(a) \/ ApplyDone(a) \/ ApplyFails(a)
    \/ HostsTruncate(a) \/ HostsFill(a) \/ HostsFillPartly(a)
    \/ HostsWriteFails(a) \/ HostsUnsave(a)
    \/ Dispatch(a) \/ ReadRollback(a)
    \/ RestoreWrite(a) \/ RestoreWritten(a) \/ RestoreFails(a) \/ RemoveRollback(a)

(* The module on its own: one operation at a time, which is what the       *)
(* processes above it have to see to.                                      *)

StartApply(a, m) ==
    /\ AllIdle
    /\ CallApply(a, m)
    /\ UNCHANGED <<settings, hostsLines, rollback, user, lost>>

StartRestore(a, k) ==
    /\ AllIdle
    /\ CallRestore(a, k)
    /\ UNCHANGED <<settings, hostsLines, rollback, user, lost>>

\* The call returns to its caller.
Return(a) ==
    /\ job[a].pc \in Returned
    /\ job' = [job EXCEPT ![a] = Idle]
    /\ UNCHANGED <<settings, hostsLines, rollback, user, lost>>

\* The process dies in the middle of the call.
Crash(a) ==
    /\ job[a] # Idle
    /\ job' = [job EXCEPT ![a] = Idle]
    /\ UNCHANGED <<settings, hostsLines, rollback, user, lost>>

\* The user sets everything by hand, there being nothing to restore.
UserEdit ==
    /\ AllIdle
    /\ ~Holds(rollback)
    /\ user' \in UserSettings
    /\ settings' = user'
    /\ lost' = {}
    /\ UNCHANGED <<hostsLines, rollback, job>>

SysNext ==
    \/ \E a \in Actor :
          \/ \E m \in Mode : StartApply(a, m)
          \/ \E k \in Kind \cup {"any"} : StartRestore(a, k)
          \/ Working(a) \/ Return(a) \/ Crash(a)
    \/ UserEdit

SysSpec == SysInit /\ [][SysNext]_sysVars

-----------------------------------------------------------------------------
OnRecord(p) ==
    /\ Holds(rollback)
    /\ p \in DOMAIN rollback.saved
    /\ rollback.saved[p] = user[p]

(* Every variable has its type; the rollback file is absent, cut short by  *)
(* os.WriteFile, or one of the three JSON states.                          *)
SysTypeOK ==
    /\ settings \in [Part -> Value]
    /\ hostsLines \in {"kept", "lost"}
    /\ rollback \in RollbackState \cup {NoFile, Torn}
    /\ job \in [Actor -> JobType]
    /\ user \in UserSettings
    /\ lost \subseteq Part

(* Whatever has happened so far, crashes and failed calls included, every  *)
(* setting that is not the user's own has the user's value on record in    *)
(* the rollback file: Apply writes the file before the first change and    *)
(* Restore removes it after the last (ApplyWithPlatform and                *)
(* RestoreWithPlatform of systemproxy, systemdns and hosts).               *)
Recoverable == \A p \in Part : settings[p] # user[p] => OnRecord(p)

(* The same, but for what three things lose: an Apply that writes its own  *)
(* state over one that is still needed, until that state has the user's    *)
(* value again; a hosts.Apply whose write fails and which drops the state  *)
(* although a block is in the file, its own in part or an earlier one; and *)
(* a snapshot that takes static DNS servers for DHCP.  No crash and no     *)
(* other failure loses a user's setting.                                   *)
RecoverableUnlessLost ==
    \A p \in Part \ lost : settings[p] # user[p] => OnRecord(p)

(* A rollback state leaves the disk only once every setting it covers is   *)
(* back at the saved value, so a failed or interrupted Restore can be run  *)
(* again.  Excepted is what was lost before, and a block that the error    *)
(* path of hosts.Apply leaves in the file.                                 *)
RemovedOnlyWhenRestored ==
    [][Holds(rollback) /\ rollback' = NoFile =>
          \A p \in DOMAIN rollback.saved \ lost' :
              settings[p] = rollback.saved[p]]_sysVars

(* Between calls the hosts file has the user's own lines: "the user's      *)
(* existing hosts content must not be damaged", and a failed write "must   *)
(* be rolled back" (implementation roadmap, section 7).                    *)
HostsContentKept == AllIdle => hostsLines = "kept"

Recorded == {p \in Part : OnRecord(p)}

Guard == INSTANCE GuardedChange WITH taken <- Taken, recorded <- Recorded, lost <- lost

(* Apply and Restore implement the guarded change: every step of theirs,   *)
(* crashes and failures included, records, takes, releases or forgets in   *)
(* the order that specification allows, or changes nothing it can see.     *)
Guarded == Guard!GuardSpec
=============================================================================
