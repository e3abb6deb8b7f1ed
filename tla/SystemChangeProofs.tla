------------------------- MODULE SystemChangeProofs -------------------------
(***************************************************************************)
(* Theorems about SystemChange, for every set of actors, modes, interfaces *)
(* and user settings.  The invariant of interest,                          *)
(* RecoverableUnlessLost, is not inductive: it has to be carried           *)
(* through the phases of a call in progress (InPhase), and only one call   *)
(* is in progress at a time (OneBusy).                                     *)
(*                                                                         *)
(* With the same invariant every step of SystemChange is one of            *)
(* GuardedChange or a stutter (SysImplementsGuarded).                      *)
(***************************************************************************)
EXTENDS SystemChange, TLAPS

OneBusy ==
    \A a, b \in Actor : job[a].pc # "idle" /\ job[b].pc # "idle" => a = b

(* What an Apply knows at each of its steps. *)
ApplyPhase(a) ==
    job[a].op = "apply" =>
        LET s == job[a].state
            k == KindOf(job[a].target)
        IN  /\ job[a].target \in Mode
            /\ job[a].pc \in {"snapshot", "truncate", "save", "write", "fill",
                              "unsave", "ok", "err"}
            /\ job[a].pc \in {"truncate", "save"} =>
                  /\ s \in StateOf(k)
                  /\ k = "proxy" => \A p \in PartsOf(k) : s.saved[p] = settings[p]
            /\ job[a].pc = "save" => ~Holds(rollback)
            /\ job[a].pc \in {"write", "fill", "unsave"} =>
                  rollback = s /\ s \in StateOf(k)
            /\ job[a].pc \in {"fill", "unsave"} => k = "hosts"

(* What a Restore knows at each of its steps. *)
RestorePhase(a) ==
    job[a].op = "restore" =>
        LET s == job[a].state
            k == job[a].target
        IN  /\ job[a].pc \in {"dispatch", "read", "write", "fill", "remove",
                              "ok", "err", "nostate"}
            /\ job[a].pc \in {"dispatch", "read"} => job[a].next = 1
            /\ job[a].pc \in {"read", "write", "fill", "remove"} => k \in Kind
            /\ job[a].pc \in {"write", "fill", "remove"} =>
                  rollback = s /\ s \in StateOf(k)
            /\ job[a].pc = "write" =>
                  \A j \in 1..Len(RestoreOrder(k)) :
                      j < job[a].next =>
                          settings[RestoreOrder(k)[j]] = s.saved[RestoreOrder(k)[j]]
            /\ job[a].pc = "fill" => k = "hosts"
            /\ job[a].pc = "remove" =>
                  \A p \in PartsOf(k) : settings[p] = s.saved[p]

InPhase == \A a \in Actor : ApplyPhase(a) /\ RestorePhase(a)

AtRest == \A a \in Actor : job[a].op = "none" => job[a].pc = "idle"

(* What the rollback file promises to put back is the user's. *)
SavedIsUsers ==
    Holds(rollback) =>
        \A p \in DOMAIN rollback.saved \ lost : rollback.saved[p] = user[p]

SysIInv ==
    /\ SysTypeOK
    /\ OneBusy
    /\ AtRest
    /\ InPhase
    /\ SavedIsUsers
    /\ RecoverableUnlessLost

-----------------------------------------------------------------------------
(* Facts about the constants. *)

(* The three kinds of change touch disjoint, known sets of parts. *)
LEMMA PartsFacts ==
    /\ PartsOf("proxy") = {"ProxyEnable", "ProxyServer", "AutoConfigURL"}
    /\ PartsOf("dns") = DnsParts
    /\ PartsOf("hosts") = {"HostsBlock"}
    /\ \A k \in Kind : PartsOf(k) \subseteq Part
    /\ "HostsBlock" \in Part
  BY DEF PartsOf, Part, Kind

(* A mode's kind is one of the three, and hosts is the kind of hosts only. *)
LEMMA KindFacts ==
    ASSUME NEW m \in Mode
    PROVE  /\ KindOf(m) \in Kind
           /\ KindOf(m) = "hosts" <=> m = "hosts"
  BY ModeAssumption DEF KindOf, Kind

(* A rollback state parses, and covers the parts of its kind. *)
LEMMA StateFacts ==
    ASSUME NEW k \in Kind, NEW s \in StateOf(k)
    PROVE  /\ s \in RollbackState
           /\ s.kind = k
           /\ Holds(s)
           /\ DOMAIN s.saved = PartsOf(k)
           /\ \A p \in PartsOf(k) : s.saved[p] \in Value
           /\ k = "hosts" => s.saved["HostsBlock"] = "none"
  BY PartsFacts, ValueAssumption DEF StateOf, SavedValue, RollbackState, Holds, Kind

(* Conversely a file that parses is a state of its kind. *)
LEMMA HoldsFacts ==
    ASSUME NEW f \in RollbackState \cup {NoFile, Torn}
    PROVE  /\ Holds(f) <=> f \in RollbackState
           /\ Holds(f) => f.kind \in Kind /\ f \in StateOf(f.kind)
           /\ ~Holds(NoFile) /\ ~Holds(Torn)
  BY DEF RollbackState, StateOf, Holds, NoFile, Torn, Kind

(* Apply writes parts of its own kind only. *)
LEMMA ApplyWritesFacts ==
    ASSUME NEW m \in Mode, NEW i \in 1..Len(ApplyWrites(m))
    PROVE  /\ ApplyWrites(m)[i][1] \in PartsOf(KindOf(m))
           /\ ApplyWrites(m)[i][2] \in Value
  <1>1. CASE m = "pac"
    BY <1>1, PartsFacts, ValueAssumption DEF ApplyWrites, KindOf
  <1>2. CASE m = "system"
    BY <1>2, PartsFacts, ValueAssumption DEF ApplyWrites, KindOf
  <1>3. CASE m = "dns"
    BY <1>3, PartsFacts, ValueAssumption, IfacesAssumption DEF ApplyWrites, KindOf, DnsParts
  <1>4. CASE m = "hosts"
    BY <1>4, PartsFacts, ValueAssumption DEF ApplyWrites, KindOf
  <1> QED BY <1>1, <1>2, <1>3, <1>4, ModeAssumption

(* Restore writes every part of its kind, and no other. *)
LEMMA RestoreOrderFacts ==
    ASSUME NEW k \in Kind
    PROVE  /\ Len(RestoreOrder(k)) \in Nat
           /\ \A i \in 1..Len(RestoreOrder(k)) : RestoreOrder(k)[i] \in PartsOf(k)
           /\ \A p \in PartsOf(k) :
                 \E i \in 1..Len(RestoreOrder(k)) : RestoreOrder(k)[i] = p
  <1>1. CASE k = "proxy"
    <2>1. RestoreOrder(k) = <<"ProxyEnable", "ProxyServer", "AutoConfigURL">>
      BY <1>1 DEF RestoreOrder
    <2>2. /\ Len(RestoreOrder(k)) = 3
          /\ RestoreOrder(k)[1] = "ProxyEnable"
          /\ RestoreOrder(k)[2] = "ProxyServer"
          /\ RestoreOrder(k)[3] = "AutoConfigURL"
      BY <2>1
    <2> QED BY <1>1, <2>2, PartsFacts
  <1>2. CASE k = "dns"
    BY <1>2, PartsFacts, IfacesAssumption DEF RestoreOrder, DnsParts
  <1>3. CASE k = "hosts"
    <2>1. RestoreOrder(k) = <<"HostsBlock">>
      BY <1>3 DEF RestoreOrder
    <2>2. Len(RestoreOrder(k)) = 1 /\ RestoreOrder(k)[1] = "HostsBlock"
      BY <2>1
    <2> QED BY <1>3, <2>2, PartsFacts
  <1> QED BY <1>1, <1>2, <1>3 DEF Kind

(* A snapshot is a state of its kind, and that of the proxy is right. *)
LEMMA SnapshotFacts ==
    ASSUME SysTypeOK, NEW k \in Kind, NEW unread \in SUBSET DnsParts
    PROVE  /\ Snapshot(k, unread) \in StateOf(k)
           /\ k = "proxy" => \A p \in PartsOf(k) : Snapshot(k, unread).saved[p] = settings[p]
  <1>1. \A p \in PartsOf(k) : settings[p] \in Value
    BY PartsFacts DEF SysTypeOK
  <1>2. "dhcp" \in Value /\ PartsOf("proxy") \cap unread = {}
    BY ValueAssumption, IfacesAssumption
  <1>3. Snapshot(k, unread) \in StateOf(k)
    BY <1>1, <1>2 DEF Snapshot, StateOf, SavedValue
  <1>4. k = "proxy" => \A p \in PartsOf(k) : Snapshot(k, unread).saved[p] = settings[p]
    BY <1>2 DEF Snapshot
  <1> QED BY <1>3, <1>4

-----------------------------------------------------------------------------
(* The invariant holds initially. *)
LEMMA SysInitInv == SysInit => SysIInv
  <1> SUFFICES ASSUME SysInit PROVE SysIInv
    OBVIOUS
  <1>1. SysTypeOK
    BY ValueAssumption DEF SysInit, SysTypeOK, JobType, Idle, Pc
  <1>2. OneBusy /\ AtRest /\ InPhase
    BY DEF SysInit, OneBusy, AtRest, InPhase, ApplyPhase, RestorePhase, Idle
  <1>3. SavedIsUsers /\ RecoverableUnlessLost
    BY HoldsFacts DEF SysInit, SavedIsUsers, RecoverableUnlessLost, Holds, NoFile, Kind
  <1> QED BY <1>1, <1>2, <1>3 DEF SysIInv

(* A step of the one busy actor: what the step has to show of that actor   *)
(* and of the shared state.  Every other actor is at rest.                 *)
LEMMA BusyStep ==
    ASSUME SysIInv, NEW a \in Actor, NEW r \in JobType,
           \A b \in Actor \ {a} : job[b].pc = "idle",
           job' = [job EXCEPT ![a] = r],
           r.op = "none" => r.pc = "idle",
           SysTypeOK', ApplyPhase(a)', RestorePhase(a)',
           SavedIsUsers', RecoverableUnlessLost'
    PROVE  SysIInv'
  <1>1. /\ job'[a] = r
        /\ \A b \in Actor \ {a} : job'[b] = job[b]
    BY DEF SysIInv, SysTypeOK
  <1>2. OneBusy' /\ AtRest'
    BY <1>1, SMTT(30) DEF SysIInv, OneBusy, AtRest
  <1>3. ASSUME NEW b \in Actor \ {a} PROVE job[b].op = "none"
    BY ZenonT(100) DEF SysIInv, InPhase, ApplyPhase, RestorePhase, SysTypeOK, JobType
  <1>4. ASSUME NEW b \in Actor \ {a} PROVE ApplyPhase(b)' /\ RestorePhase(b)'
    BY <1>1, <1>3 DEF ApplyPhase, RestorePhase
  <1> QED BY <1>2, <1>4 DEF SysIInv, InPhase

(* An actor at a step of a call is the only one that is not idle. *)
LEMMA OthersIdle ==
    ASSUME SysIInv, NEW a \in Actor, job[a].pc # "idle"
    PROVE  \A b \in Actor \ {a} : job[b].pc = "idle"
  BY DEF SysIInv, OneBusy

(* A step that only moves an actor to the end of its call. *)
LEMMA EndStep ==
    ASSUME SysIInv, NEW a \in Actor, NEW pc \in {"ok", "err"},
           job[a].op \in {"apply", "restore"}, Goto(a, pc),
           UNCHANGED <<settings, hostsLines, rollback, user, lost>>
    PROVE  SysIInv'
  <1> DEFINE r == [job[a] EXCEPT !.pc = pc]
  <1>0. job[a] \in JobType
    BY DEF SysIInv, SysTypeOK
  <1>1. r \in JobType /\ job' = [job EXCEPT ![a] = r] /\ job'[a] = r
    BY <1>0, Zenon DEF SysIInv, SysTypeOK, Goto, JobType, Pc
  <1>2. job[a].pc # "idle"
    BY DEF SysIInv, InPhase, ApplyPhase, RestorePhase
  <1>3. SysTypeOK'
    BY <1>1 DEF SysIInv, SysTypeOK
  <1>4. r.op = job[a].op /\ r.pc = pc /\ r.target = job[a].target
    BY <1>0 DEF JobType
  <1>5. ApplyPhase(a)' /\ RestorePhase(a)'
    BY <1>1, <1>4, ZenonT(30) DEF ApplyPhase, RestorePhase, SysIInv, InPhase
  <1>6. SavedIsUsers' /\ RecoverableUnlessLost'
    BY DEF SysIInv, SavedIsUsers, RecoverableUnlessLost, OnRecord
  <1>7. r.op # "none"
    BY <1>4
  <1> HIDE DEF r
  <1> QED BY <1>1, <1>2, <1>3, <1>5, <1>6, <1>7, OthersIdle, BusyStep, Zenon

(* The snapshot is a state of the kind to be changed. *)
LEMMA TakeSnapshotStep ==
    ASSUME SysIInv, NEW a \in Actor, TakeSnapshot(a)
    PROVE  SysIInv'
  <1>1. CASE Goto(a, "err")
    BY <1>1, EndStep DEF TakeSnapshot, At
  <1>2. ASSUME NEW unread \in SUBSET DnsParts,
               job' = [job EXCEPT ![a].pc = "truncate",
                                  ![a].state = Snapshot(KindOf(job[a].target), unread),
                                  ![a].lines = hostsLines]
        PROVE  SysIInv'
    <2> DEFINE k == KindOf(job[a].target)
               s == Snapshot(k, unread)
               r == [job[a] EXCEPT !.pc = "truncate", !.state = s, !.lines = hostsLines]
    <2>0. job[a] \in JobType /\ job[a].target \in Mode /\ k \in Kind
      BY KindFacts DEF SysIInv, SysTypeOK, InPhase, ApplyPhase, TakeSnapshot, At
    <2>a. /\ s \in StateOf(k) /\ s \in RollbackState
          /\ k = "proxy" => \A p \in PartsOf(k) : s.saved[p] = settings[p]
      BY <2>0, SnapshotFacts, StateFacts DEF SysIInv
    <2>2. job' = [job EXCEPT ![a] = r] /\ job'[a] = r
      BY <1>2, Zenon DEF SysIInv, SysTypeOK
    <2> HIDE DEF s
    <2>1. r \in JobType
      BY <2>0, <2>a, Zenon DEF JobType, Pc, SysIInv, SysTypeOK
    <2>3. SysTypeOK'
      BY <2>1, <2>2 DEF SysIInv, SysTypeOK, TakeSnapshot
    <2>4. /\ r.op = "apply" /\ r.pc = "truncate" /\ r.target = job[a].target
          /\ r.state = s
      BY <2>0 DEF JobType, TakeSnapshot, At
    <2>c. /\ job'[a].op = "apply" /\ job'[a].pc = "truncate"
          /\ job'[a].target = job[a].target /\ job'[a].state = s
      BY <2>2, <2>4, Zenon
    <2>d. settings' = settings
      BY DEF TakeSnapshot
    <2>5. ApplyPhase(a)' /\ RestorePhase(a)'
      BY <2>0, <2>a, <2>c, <2>d DEF ApplyPhase, RestorePhase
    <2>6. SavedIsUsers' /\ RecoverableUnlessLost'
      BY DEF SysIInv, SavedIsUsers, RecoverableUnlessLost, OnRecord, TakeSnapshot
    <2>7. r.op # "none"
      BY <2>4
    <2>8. job[a].pc # "idle"
      BY DEF TakeSnapshot, At
    <2> HIDE DEF r, k
    <2> QED BY <2>1, <2>2, <2>3, <2>5, <2>6, <2>7, <2>8, OthersIdle, BusyStep, Zenon
  <1> QED BY <1>1, <1>2 DEF TakeSnapshot

(* What is still taken over when a state is overwritten is lost, for now. *)
LEMMA TruncateRollbackStep ==
    ASSUME SysIInv, NEW a \in Actor, TruncateRollback(a)
    PROVE  SysIInv'
  <1>1. CASE rollback' = rollback /\ Goto(a, "err") /\ UNCHANGED lost
    BY <1>1, EndStep DEF TruncateRollback, At
  <1>2. CASE /\ rollback' = Torn
             /\ Goto(a, "save")
             /\ lost' = lost \cup (IF Holds(rollback) THEN Taken ELSE {})
    <2> DEFINE r == [job[a] EXCEPT !.pc = "save"]
    <2>0. job[a] \in JobType
      BY DEF SysIInv, SysTypeOK
    <2>1. r \in JobType
      BY <2>0 DEF JobType, Pc
    <2>2. job' = [job EXCEPT ![a] = r] /\ job'[a] = r
      BY <1>2 DEF SysIInv, SysTypeOK, Goto
    <2>3. SysTypeOK'
      BY <1>2, <2>1, <2>2 DEF SysIInv, SysTypeOK, TruncateRollback, Taken
    <2>4. /\ r.op = "apply" /\ r.pc = "save" /\ r.target = job[a].target
          /\ r.state = job[a].state
      BY <2>0 DEF JobType, TruncateRollback, At
    <2>5. ~Holds(rollback')
      BY <1>2, Zenon DEF Holds, Torn, Kind
    <2>6. ApplyPhase(a)' /\ RestorePhase(a)'
      BY <2>2, <2>4, <2>5
      DEF ApplyPhase, RestorePhase, SysIInv, InPhase, TruncateRollback, At
    <2>7. SavedIsUsers'
      BY <2>5 DEF SavedIsUsers
    <2>8. RecoverableUnlessLost'
      BY <1>2 DEF SysIInv, RecoverableUnlessLost, OnRecord, TruncateRollback, Taken
    <2>9. r.op # "none" /\ job[a].pc # "idle"
      BY <2>4 DEF TruncateRollback, At
    <2> HIDE DEF r
    <2> QED BY <2>1, <2>2, <2>3, <2>6, <2>7, <2>8, <2>9, OthersIdle, BusyStep, Zenon
  <1> QED BY <1>1, <1>2 DEF TruncateRollback

(* The file holds the snapshot before anything is written; what it has     *)
(* right is on record, what it has wrong is lost.                          *)
LEMMA FillRollbackStep ==
    ASSUME SysIInv, NEW a \in Actor, FillRollback(a)
    PROVE  SysIInv'
  <1>1. CASE rollback' = rollback /\ Goto(a, "err") /\ UNCHANGED lost
    BY <1>1, EndStep DEF FillRollback, At
  <1>2. CASE /\ rollback' = job[a].state /\ Goto(a, "write")
             /\ lost' = (lost \cup Misread(job[a].state)) \ SavedRight(job[a].state)
    <2> DEFINE k == KindOf(job[a].target)
               s == job[a].state
               r == [job[a] EXCEPT !.pc = "write"]
    <2>0. /\ job[a] \in JobType /\ job[a].target \in Mode /\ k \in Kind
          /\ ~Holds(rollback) /\ s \in StateOf(k)
          /\ k = "proxy" => \A p \in PartsOf(k) : s.saved[p] = settings[p]
      BY KindFacts DEF SysIInv, SysTypeOK, InPhase, ApplyPhase, FillRollback, At
    <2>1. r \in JobType
      BY <2>0 DEF JobType, Pc
    <2>2. job' = [job EXCEPT ![a] = r] /\ job'[a] = r
      BY <1>2 DEF SysIInv, SysTypeOK, Goto
    <2>5. /\ rollback' = s /\ s \in RollbackState /\ s.kind = k /\ Holds(s)
          /\ DOMAIN s.saved = PartsOf(k) /\ PartsOf(k) \subseteq Part
          /\ k = "hosts" => s.saved["HostsBlock"] = "none"
      BY <1>2, <2>0, StateFacts, PartsFacts
    <2>4. /\ job'[a].op = "apply" /\ job'[a].pc = "write"
          /\ job'[a].target = job[a].target /\ job'[a].state = s
      BY <2>0, <2>2 DEF JobType, FillRollback, At
    <2>a. UNCHANGED <<settings, hostsLines, user>>
      BY DEF FillRollback
    <2> HIDE DEF s, k, r
    <2>b. lost' = (lost \cup Misread(s)) \ SavedRight(s)
      BY <1>2 DEF s
    <2>c. lost' \subseteq Part
      BY <2>5, <2>b DEF Misread, SysIInv, SysTypeOK
    <2>3. SysTypeOK'
      BY <2>a, <2>c, <2>1, <2>2, <2>5 DEF SysIInv, SysTypeOK
    <2>6. \A p \in Part \ lost : settings[p] = user[p]
      BY <2>0 DEF SysIInv, RecoverableUnlessLost, OnRecord
    <2>7. user["HostsBlock"] = "none"
      BY ValueAssumption, SMTT(30) DEF SysIInv, SysTypeOK
    <2>8. ApplyPhase(a)' /\ RestorePhase(a)'
      BY <2>0, <2>4, <2>5 DEF ApplyPhase, RestorePhase, k
    <2>9. ASSUME NEW p \in PartsOf(k), p \notin lost' PROVE s.saved[p] = user[p]
      <3>1. CASE k = "hosts"
        BY <3>1, <2>5, <2>7, PartsFacts
      <3>2. CASE k = "proxy"
        <4>1. settings[p] = s.saved[p]
          BY <2>0, <3>2
        <4> QED BY <4>1, <2>5, <2>6, <2>9, <2>b DEF SavedRight
      <3>3. CASE k = "dns"
        <4>1. s.saved[p] # user[p] => p \notin lost /\ p \notin Misread(s)
          BY <2>5, <2>9, <2>b DEF SavedRight
        <4>2. p \notin Misread(s) => s.saved[p] = settings[p]
          BY <3>3, <2>5 DEF Misread
        <4> QED BY <4>1, <4>2, <2>5, <2>6
      <3> QED BY <3>1, <3>2, <3>3, <2>0 DEF Kind
    <2>10. SavedIsUsers'
      BY <2>5, <2>9, <2>a DEF SavedIsUsers
    <2>12. RecoverableUnlessLost'
      <3> SUFFICES ASSUME NEW p \in Part, p \notin lost', settings[p] # user[p]
                   PROVE  /\ p \in DOMAIN s.saved /\ s.saved[p] = user[p]
        BY <2>5, <2>a DEF RecoverableUnlessLost, OnRecord
      <3>1. p \in lost
        BY <2>6
      <3>2. p \in SavedRight(s)
        BY <3>1, <2>b
      <3> QED BY <3>2 DEF SavedRight
    <2>11. r.op # "none" /\ job[a].pc # "idle"
      BY <2>2, <2>4 DEF FillRollback, At
    <2> QED BY <2>1, <2>2, <2>3, <2>8, <2>10, <2>12, <2>11, OthersIdle, BusyStep, Zenon
  <1> QED BY <1>1, <1>2 DEF FillRollback

(* A write of Apply touches a part the file covers. *)
LEMMA ApplyWriteStep ==
    ASSUME SysIInv, NEW a \in Actor, ApplyWrite(a)
    PROVE  SysIInv'
  <1> DEFINE m == job[a].target
             k == KindOf(m)
             i == job[a].next
             w == ApplyWrites(m)[i]
             r == [job[a] EXCEPT !.next = i + 1]
  <1>0. /\ job[a] \in JobType /\ m \in Mode /\ k \in Kind /\ k # "hosts"
        /\ job[a].op = "apply" /\ job[a].pc = "write"
        /\ rollback = job[a].state /\ rollback \in StateOf(k)
    BY KindFacts DEF SysIInv, SysTypeOK, InPhase, ApplyPhase, ApplyWrite, At
  <1>1. i \in 1..Len(ApplyWrites(m))
    BY <1>0 DEF ApplyWrite, JobType
  <1>2. w[1] \in PartsOf(k) /\ w[1] \in Part /\ w[2] \in Value
    BY <1>0, <1>1, ApplyWritesFacts, PartsFacts
  <1>3. settings' = [settings EXCEPT ![w[1]] = w[2]]
    BY DEF ApplyWrite
  <1>4. r \in JobType
    BY <1>0 DEF JobType
  <1>5. job' = [job EXCEPT ![a] = r] /\ job'[a] = r
    BY DEF ApplyWrite, SysIInv, SysTypeOK
  <1> HIDE DEF w
  <1>6. SysTypeOK'
    BY <1>2, <1>3, <1>4, <1>5, ZenonT(30) DEF SysIInv, SysTypeOK, ApplyWrite
  <1>7. /\ job'[a].op = "apply" /\ job'[a].pc = "write"
        /\ job'[a].target = m /\ job'[a].state = job[a].state
    BY <1>0, <1>5 DEF JobType
  <1>8. ApplyPhase(a)' /\ RestorePhase(a)'
    BY <1>0, <1>7 DEF ApplyPhase, RestorePhase, ApplyWrite
  <1>9. SavedIsUsers'
    BY DEF SysIInv, SavedIsUsers, ApplyWrite
  <1>10. RecoverableUnlessLost'
    <2> SUFFICES ASSUME NEW p \in Part \ lost, settings'[p] # user[p]
                 PROVE  OnRecord(p)
      BY DEF RecoverableUnlessLost, OnRecord, ApplyWrite
    <2>1. CASE p = w[1]
      BY <2>1, <1>0, <1>2, StateFacts DEF OnRecord, SysIInv, SavedIsUsers
    <2>2. CASE p # w[1]
      BY <2>2, <1>3 DEF SysIInv, SysTypeOK, RecoverableUnlessLost
    <2> QED BY <2>1, <2>2
  <1>11. r.op # "none" /\ job[a].pc # "idle"
    BY <1>0, <1>5, <1>7
  <1> HIDE DEF r
  <1> QED BY <1>4, <1>5, <1>6, <1>8, <1>9, <1>10, <1>11, OthersIdle, BusyStep, Zenon

(* Apply ends, well or badly, with the file in place. *)
LEMMA ApplyEndStep ==
    ASSUME SysIInv, NEW a \in Actor, ApplyDone(a) \/ ApplyFails(a)
    PROVE  SysIInv'
  BY EndStep DEF ApplyDone, ApplyFails, At

(* Writing the hosts file: what is known at either of its two steps. *)
LEMMA HostsFacts ==
    ASSUME SysIInv, NEW a \in Actor,
           AtHostsWrite(a, "write") \/ AtHostsWrite(a, "fill")
    PROVE  /\ job[a] \in JobType /\ job[a].target = "hosts"
           /\ job[a].op \in {"apply", "restore"} /\ job[a].pc # "idle"
           /\ KindOf("hosts") = "hosts" /\ "hosts" \in Kind
           /\ rollback = job[a].state /\ rollback \in StateOf("hosts")
           /\ Holds(rollback) /\ DOMAIN rollback.saved = {"HostsBlock"}
           /\ rollback.saved["HostsBlock"] = "none"
           /\ user["HostsBlock"] = "none"
           /\ job[a].op = "apply" => "hosts" \in Mode
  <1>1. KindOf("hosts") = "hosts" /\ "hosts" \in Kind
    BY DEF KindOf, Kind
  <1>2. user["HostsBlock"] = "none"
    BY ValueAssumption DEF SysIInv, SysTypeOK
  <1>3. /\ job[a] \in JobType /\ job[a].target = "hosts"
        /\ job[a].op \in {"apply", "restore"} /\ job[a].pc # "idle"
    BY Zenon DEF AtHostsWrite, SysIInv, SysTypeOK
  <1>4. rollback = job[a].state /\ rollback \in StateOf("hosts")
    BY <1>1 DEF AtHostsWrite, SysIInv, InPhase, ApplyPhase, RestorePhase
  <1>5. /\ Holds(rollback) /\ DOMAIN rollback.saved = {"HostsBlock"}
        /\ rollback.saved["HostsBlock"] = "none"
    BY <1>1, <1>4, StateFacts, PartsFacts
  <1>6. job[a].op = "apply" => "hosts" \in Mode
    BY <1>1 DEF AtHostsWrite, SysIInv, InPhase, ApplyPhase
  <1> QED BY <1>1, <1>2, <1>3, <1>4, <1>5, <1>6

(* Truncating the hosts file takes the block out. *)
LEMMA HostsTruncateStep ==
    ASSUME SysIInv, NEW a \in Actor, HostsTruncate(a)
    PROVE  SysIInv'
  <1> DEFINE r == [job[a] EXCEPT !.pc = "fill"]
  <1> USE HostsFacts
  <1>1. r \in JobType
    BY DEF JobType, Pc, HostsTruncate
  <1>2. job' = [job EXCEPT ![a] = r] /\ job'[a] = r
    BY DEF HostsTruncate, Goto, SysIInv, SysTypeOK
  <1>3. SysTypeOK'
    BY <1>1, <1>2, PartsFacts, ValueAssumption DEF SysIInv, SysTypeOK, HostsTruncate
  <1>4. /\ job'[a].op = job[a].op /\ job'[a].pc = "fill"
        /\ job'[a].target = "hosts" /\ job'[a].state = job[a].state
    BY <1>2 DEF JobType, HostsTruncate
  <1>5. settings'["HostsBlock"] = "none"
    BY PartsFacts DEF SysIInv, SysTypeOK, HostsTruncate
  <1>6. ApplyPhase(a)' /\ RestorePhase(a)'
    BY <1>4, <1>5 DEF ApplyPhase, RestorePhase, HostsTruncate
  <1>7. SavedIsUsers'
    BY SMTT(30) DEF SysIInv, SavedIsUsers, HostsTruncate
  <1>8. RecoverableUnlessLost'
    BY <1>5 DEF SysIInv, SysTypeOK, RecoverableUnlessLost, OnRecord, HostsTruncate
  <1>9. r.op # "none" /\ job[a].pc # "idle"
    BY <1>2, <1>4 DEF HostsTruncate
  <1> HIDE DEF r
  <1> HIDE HostsFacts
  <1> QED BY <1>1, <1>2, <1>3, <1>6, <1>7, <1>8, <1>9, OthersIdle, BusyStep, Zenon

(* Filling the hosts file writes the block under a hosts state only. *)
LEMMA HostsFillStep ==
    ASSUME SysIInv, NEW a \in Actor, HostsFill(a)
    PROVE  SysIInv'
  <1> DEFINE pc == IF job[a].op = "apply" THEN "ok" ELSE "remove"
             r  == [job[a] EXCEPT !.pc = pc]
  <1> USE HostsFacts
  <1>1. r \in JobType
    BY DEF JobType, Pc, HostsFill
  <1>2. job' = [job EXCEPT ![a] = r] /\ job'[a] = r
    BY DEF HostsFill, Goto, SysIInv, SysTypeOK
  <1>3. SysTypeOK'
    BY <1>1, <1>2, PartsFacts, ValueAssumption
    DEF SysIInv, SysTypeOK, HostsFill, JobType
  <1>4. /\ job'[a].op = job[a].op /\ job'[a].pc = pc
        /\ job'[a].target = "hosts" /\ job'[a].state = job[a].state
    BY <1>2 DEF JobType, HostsFill
  <1>5. job[a].op = "restore" => settings'["HostsBlock"] = "none"
    BY PartsFacts, Zenon DEF SysIInv, SysTypeOK, HostsFill
  <1>6. ApplyPhase(a)' /\ RestorePhase(a)'
    BY <1>4, <1>5, PartsFacts DEF ApplyPhase, RestorePhase, HostsFill
  <1>7. SavedIsUsers'
    BY DEF SysIInv, SavedIsUsers, HostsFill
  <1>8. RecoverableUnlessLost'
    BY DEF SysIInv, SysTypeOK, RecoverableUnlessLost, OnRecord, HostsFill
  <1>9. r.op # "none" /\ job[a].pc # "idle"
    BY <1>2, <1>4 DEF HostsFill
  <1> HIDE DEF r, pc
  <1> HIDE HostsFacts
  <1> QED BY <1>1, <1>2, <1>3, <1>6, <1>7, <1>8, <1>9, OthersIdle, BusyStep, Zenon

(* Writing it in part changes nothing else. *)
LEMMA HostsFillPartlyStep ==
    ASSUME SysIInv, NEW a \in Actor, HostsFillPartly(a)
    PROVE  SysIInv'
  <1> USE HostsFacts
  <1>1. /\ job[a] \in JobType /\ job' = [job EXCEPT ![a] = job[a]]
        /\ job'[a] = job[a] /\ job[a].op = "apply" /\ job[a].pc = "fill"
        /\ job[a].target = "hosts"
    BY Zenon DEF HostsFillPartly, AtHostsWrite, SysIInv, SysTypeOK
  <1>2. SysTypeOK'
    BY PartsFacts, ValueAssumption DEF SysIInv, SysTypeOK, HostsFillPartly, JobType
  <1>3. ApplyPhase(a)' /\ RestorePhase(a)'
    BY <1>1 DEF ApplyPhase, RestorePhase, HostsFillPartly
  <1>4. SavedIsUsers'
    BY DEF SysIInv, SavedIsUsers, HostsFillPartly
  <1>5. RecoverableUnlessLost'
    BY DEF SysIInv, SysTypeOK, RecoverableUnlessLost, OnRecord, HostsFillPartly
  <1> HIDE HostsFacts
  <1> QED BY <1>1, <1>2, <1>3, <1>4, <1>5, OthersIdle, BusyStep, Zenon

(* hosts.Apply still has its state when its write has failed. *)
LEMMA HostsWriteFailsStep ==
    ASSUME SysIInv, NEW a \in Actor, HostsWriteFails(a)
    PROVE  SysIInv'
  <1>1. CASE job[a].op # "apply"
    BY <1>1, EndStep, HostsFacts DEF HostsWriteFails
  <1>2. CASE job[a].op = "apply"
    <2> DEFINE r == [job[a] EXCEPT !.pc = "unsave"]
    <2> USE HostsFacts
    <2>1. r \in JobType
      BY DEF JobType, Pc, HostsWriteFails
    <2>2. job' = [job EXCEPT ![a] = r] /\ job'[a] = r
      BY <1>2 DEF HostsWriteFails, Goto, SysIInv, SysTypeOK
    <2>3. SysTypeOK'
      BY <2>1, <2>2 DEF SysIInv, SysTypeOK, HostsWriteFails
    <2>4. /\ job'[a].op = "apply" /\ job'[a].pc = "unsave"
          /\ job'[a].target = "hosts" /\ job'[a].state = job[a].state
      BY <1>2, <2>2, SMTT(30) DEF JobType, HostsWriteFails
    <2>5. ApplyPhase(a)' /\ RestorePhase(a)'
      BY <1>2, <2>4, SMTT(30) DEF ApplyPhase, RestorePhase, HostsWriteFails
    <2>6. SavedIsUsers' /\ RecoverableUnlessLost'
      BY DEF SysIInv, SavedIsUsers, RecoverableUnlessLost, OnRecord, HostsWriteFails
    <2>7. r.op # "none" /\ job[a].pc # "idle"
      BY <2>2, <2>4 DEF HostsWriteFails
    <2> HIDE DEF r
    <2> HIDE HostsFacts
    <2> QED BY <2>1, <2>2, <2>3, <2>5, <2>6, <2>7, OthersIdle, BusyStep, Zenon
  <1> QED BY <1>1, <1>2

(* When every part of the file's kind is back, the file may go. *)
LEMMA RemoveIsSafe ==
    ASSUME SysIInv, NEW k \in Kind, rollback \in StateOf(k),
           \A p \in PartsOf(k) \ lost : settings[p] = user[p]
    PROVE  \A p \in Part \ lost : settings[p] = user[p]
  BY StateFacts DEF SysIInv, RecoverableUnlessLost, OnRecord

(* hosts.Apply drops its state after a failed write: a block is lost then. *)
LEMMA HostsUnsaveStep ==
    ASSUME SysIInv, NEW a \in Actor, HostsUnsave(a)
    PROVE  SysIInv'
  <1>1. CASE UNCHANGED <<rollback, lost>>
    BY <1>1, EndStep, SMTT(30) DEF HostsUnsave, At
  <1>2. CASE rollback' = NoFile /\ lost' = lost \cup Taken
    <2> DEFINE r == [job[a] EXCEPT !.pc = "err"]
    <2>0. /\ job[a] \in JobType /\ job[a].op = "apply" /\ job[a].pc = "unsave"
          /\ job[a].target \in Mode /\ KindOf(job[a].target) = "hosts"
          /\ rollback \in StateOf("hosts")
      BY DEF SysIInv, SysTypeOK, InPhase, ApplyPhase, HostsUnsave, At
    <2>1. r \in JobType
      BY <2>0 DEF JobType, Pc
    <2>2. job' = [job EXCEPT ![a] = r] /\ job'[a] = r
      BY DEF HostsUnsave, Goto, SysIInv, SysTypeOK
    <2>3. SysTypeOK'
      BY <1>2, <2>1, <2>2 DEF SysIInv, SysTypeOK, HostsUnsave, Taken
    <2>4. job'[a].op = "apply" /\ job'[a].pc = "err" /\ job'[a].target = job[a].target
      BY <2>0, <2>2, SMTT(30) DEF JobType
    <2>5. ApplyPhase(a)' /\ RestorePhase(a)'
      BY <2>0, <2>4 DEF ApplyPhase, RestorePhase
    <2>6. ~Holds(rollback')
      BY <1>2 DEF Holds, NoFile, Kind
    <2>8. \A p \in Part \ lost' : settings[p] = user[p]
      BY <1>2 DEF Taken
    <2>9. SavedIsUsers' /\ RecoverableUnlessLost'
      BY <2>6, <2>8 DEF SavedIsUsers, RecoverableUnlessLost, HostsUnsave
    <2>10. r.op # "none" /\ job[a].pc # "idle"
      BY <2>0, <2>2, <2>4
    <2> HIDE DEF r
    <2> QED BY <2>1, <2>2, <2>3, <2>5, <2>9, <2>10, OthersIdle, BusyStep, Zenon
  <1> QED BY <1>1, <1>2 DEF HostsUnsave

(* A step of a Restore that leaves the shared state alone. *)
LEMMA RestoreQuietStep ==
    ASSUME SysIInv, NEW a \in Actor, NEW r \in JobType,
           job[a].op = "restore", job[a].pc # "idle", r.op = "restore",
           job' = [job EXCEPT ![a] = r], RestorePhase(a)',
           UNCHANGED <<settings, hostsLines, rollback, user, lost>>
    PROVE  SysIInv'
  <1>1. job'[a] = r
    BY DEF SysIInv, SysTypeOK
  <1>2. SysTypeOK'
    BY DEF SysIInv, SysTypeOK
  <1>3. ApplyPhase(a)'
    BY <1>1 DEF ApplyPhase
  <1>4. SavedIsUsers' /\ RecoverableUnlessLost'
    BY DEF SysIInv, SavedIsUsers, RecoverableUnlessLost, OnRecord
  <1> QED BY <1>2, <1>3, <1>4, OthersIdle, BusyStep, Zenon

(* The restore command picks the kind of the file. *)
LEMMA DispatchStep ==
    ASSUME SysIInv, NEW a \in Actor, Dispatch(a)
    PROVE  SysIInv'
  <1>0. job[a] \in JobType /\ job[a].op = "restore" /\ job[a].pc = "dispatch"
    BY DEF SysIInv, SysTypeOK, Dispatch, At
  <1>1. CASE Goto(a, "err")
    BY <1>0, <1>1, EndStep DEF Dispatch
  <1>2. CASE Goto(a, "nostate")
    <2> DEFINE r == [job[a] EXCEPT !.pc = "nostate"]
    <2>1. r \in JobType /\ r.op = "restore" /\ r.pc = "nostate"
      BY <1>0 DEF JobType, Pc
    <2>2. job' = [job EXCEPT ![a] = r] /\ job'[a] = r
      BY <1>2 DEF Goto, SysIInv, SysTypeOK
    <2>3. RestorePhase(a)'
      BY <2>1, <2>2, Zenon DEF RestorePhase
    <2> HIDE DEF r
    <2> QED BY <1>0, <2>1, <2>2, <2>3, RestoreQuietStep, Zenon DEF Dispatch
  <1>3. CASE /\ Holds(rollback)
             /\ job' = [job EXCEPT ![a].target = rollback.kind, ![a].pc = "read"]
    <2> DEFINE r == [job[a] EXCEPT !.target = rollback.kind, !.pc = "read"]
    <2>1. /\ r \in JobType /\ r.op = "restore" /\ r.pc = "read"
          /\ r.target = rollback.kind /\ rollback.kind \in Kind /\ r.next = 1
      BY <1>0, <1>3, Zenon DEF JobType, Pc, Holds, SysIInv, InPhase, RestorePhase
    <2>2. job' = [job EXCEPT ![a] = r] /\ job'[a] = r
      BY <1>3, Zenon DEF SysIInv, SysTypeOK
    <2>3. RestorePhase(a)'
      BY <2>1, <2>2, Zenon DEF RestorePhase
    <2> HIDE DEF r
    <2> QED BY <1>0, <2>1, <2>2, <2>3, RestoreQuietStep, Zenon DEF Dispatch
  <1> QED BY <1>1, <1>2, <1>3 DEF Dispatch

(* Restore works from the state in the file, of its own kind. *)
LEMMA ReadRollbackStep ==
    ASSUME SysIInv, NEW a \in Actor, ReadRollback(a)
    PROVE  SysIInv'
  <1>0. /\ job[a] \in JobType /\ job[a].op = "restore" /\ job[a].pc = "read"
        /\ job[a].target \in Kind /\ job[a].next = 1
    BY DEF SysIInv, SysTypeOK, InPhase, RestorePhase, ReadRollback, At
  <1>1. CASE Goto(a, "err")
    BY <1>0, <1>1, EndStep DEF ReadRollback
  <1>2. CASE Goto(a, "nostate")
    <2> DEFINE r == [job[a] EXCEPT !.pc = "nostate"]
    <2>1. r \in JobType /\ r.op = "restore" /\ r.pc = "nostate"
      BY <1>0 DEF JobType, Pc
    <2>2. job' = [job EXCEPT ![a] = r] /\ job'[a] = r
      BY <1>2 DEF Goto, SysIInv, SysTypeOK
    <2>3. RestorePhase(a)'
      BY <2>1, <2>2, Zenon DEF RestorePhase
    <2> HIDE DEF r
    <2> QED BY <1>0, <2>1, <2>2, <2>3, RestoreQuietStep, Zenon DEF ReadRollback
  <1>3. CASE /\ Holds(rollback) /\ rollback.kind = job[a].target
             /\ job' = [job EXCEPT ![a].pc = "write", ![a].state = rollback,
                                   ![a].lines = hostsLines]
    <2> DEFINE r == [job[a] EXCEPT !.pc = "write", !.state = rollback,
                                   !.lines = hostsLines]
    <2>0. rollback \in RollbackState /\ rollback \in StateOf(job[a].target)
      BY <1>3, HoldsFacts DEF SysIInv, SysTypeOK
    <2>1. /\ r \in JobType /\ r.op = "restore" /\ r.pc = "write" /\ r.next = 1
          /\ r.target = job[a].target /\ r.state = rollback
      BY <1>0, <2>0, Zenon DEF JobType, Pc, SysIInv, SysTypeOK
    <2>2. job' = [job EXCEPT ![a] = r] /\ job'[a] = r
      BY <1>3, Zenon DEF SysIInv, SysTypeOK
    <2> HIDE DEF r
    <2>3. \A j \in 1..Len(RestoreOrder(job[a].target)) : ~(j < 1)
      BY <1>0, RestoreOrderFacts, SMTT(30)
    <2>4. RestorePhase(a)'
      BY <1>0, <2>0, <2>1, <2>2, <2>3, Zenon DEF RestorePhase, ReadRollback
    <2> QED BY <1>0, <2>1, <2>2, <2>4, RestoreQuietStep, Zenon DEF ReadRollback
  <1> QED BY <1>1, <1>2, <1>3, SMTT(30) DEF ReadRollback

(* A write of Restore puts one part back. *)
LEMMA RestoreWriteStep ==
    ASSUME SysIInv, NEW a \in Actor, RestoreWrite(a)
    PROVE  SysIInv'
  <1> DEFINE k == job[a].target
             i == job[a].next
             q == RestoreOrder(k)[i]
             r == [job[a] EXCEPT !.next = i + 1]
  <1>0. /\ job[a] \in JobType /\ k \in Kind /\ k # "hosts"
        /\ job[a].op = "restore" /\ job[a].pc = "write"
        /\ rollback = job[a].state /\ rollback \in StateOf(k)
        /\ \A j \in 1..Len(RestoreOrder(k)) :
              j < i => settings[RestoreOrder(k)[j]] = rollback.saved[RestoreOrder(k)[j]]
    BY Zenon DEF SysIInv, SysTypeOK, InPhase, RestorePhase, RestoreWrite, At
  <1>1. i \in 1..Len(RestoreOrder(k))
    BY <1>0, RestoreOrderFacts, SMTT(30) DEF RestoreWrite, JobType
  <1>2. q \in PartsOf(k) /\ q \in Part /\ rollback.saved[q] \in Value
    BY <1>0, <1>1, RestoreOrderFacts, PartsFacts, StateFacts, SMTT(30)
  <1>3. settings' = [settings EXCEPT ![q] = rollback.saved[q]]
    BY <1>0, SMTT(30) DEF RestoreWrite
  <1>4. r \in JobType
    BY <1>0, SMTT(30) DEF JobType
  <1>5. job' = [job EXCEPT ![a] = r] /\ job'[a] = r
    BY DEF RestoreWrite, SysIInv, SysTypeOK
  <1>6. SysTypeOK'
    <2> HIDE DEF q, r
    <2> QED BY <1>2, <1>3, <1>4, <1>5, Zenon DEF SysIInv, SysTypeOK, RestoreWrite
  <1>7. /\ job'[a].op = "restore" /\ job'[a].pc = "write" /\ job'[a].target = k
        /\ job'[a].state = rollback /\ job'[a].next = i + 1
    BY <1>0, <1>5, SMTT(30) DEF JobType
  <1>8. ASSUME NEW j \in 1..Len(RestoreOrder(k)), j < i + 1
        PROVE  settings'[RestoreOrder(k)[j]] = rollback.saved[RestoreOrder(k)[j]]
    <2>1. RestoreOrder(k)[j] \in Part
      BY <1>0, RestoreOrderFacts, PartsFacts, Zenon
    <2>2. CASE RestoreOrder(k)[j] = q
      BY <2>1, <2>2, <1>3, ZenonT(30) DEF SysIInv, SysTypeOK
    <2>3. CASE RestoreOrder(k)[j] # q
      <3>1. j < i
        BY <2>3, <1>1, <1>8, SMTT(30)
      <3> QED BY <3>1, <2>1, <2>3, <1>0, <1>3 DEF SysIInv, SysTypeOK
    <2> QED BY <2>2, <2>3, Zenon
  <1>9. ApplyPhase(a)' /\ RestorePhase(a)'
    <2> HIDE DEF k, q, r, i
    <2>1. rollback' = rollback
      BY Zenon DEF RestoreWrite
    <2> QED BY <2>1, <1>0, <1>7, <1>8, Zenon DEF ApplyPhase, RestorePhase
  <1>10. SavedIsUsers'
    BY SMTT(30) DEF SysIInv, SavedIsUsers, RestoreWrite
  <1>11. RecoverableUnlessLost'
    <2> SUFFICES ASSUME NEW p \in Part \ lost, settings'[p] # user[p]
                 PROVE  OnRecord(p)
      BY Zenon DEF RecoverableUnlessLost, OnRecord, RestoreWrite
    <2> HIDE DEF q
    <2>1. CASE p = q
      BY <2>1, <1>0, <1>2, StateFacts, SMTT(30) DEF OnRecord, SysIInv, SavedIsUsers
    <2>2. CASE p # q
      BY <2>2, <1>3, SMTT(30) DEF SysIInv, SysTypeOK, RecoverableUnlessLost
    <2> QED BY <2>1, <2>2, SMTT(30)
  <1>12. r.op # "none" /\ job[a].pc # "idle"
    BY <1>0, <1>5, <1>7
  <1> HIDE DEF r, k, q, i
  <1> QED BY <1>4, <1>5, <1>6, <1>9, <1>10, <1>11, <1>12, OthersIdle, BusyStep, Zenon

(* After the last write every part of the kind is back. *)
LEMMA RestoreWrittenStep ==
    ASSUME SysIInv, NEW a \in Actor, RestoreWritten(a)
    PROVE  SysIInv'
  <1> DEFINE k == job[a].target
             r == [job[a] EXCEPT !.pc = "remove"]
  <1>0. /\ job[a] \in JobType /\ job[a].op = "restore" /\ job[a].pc = "write"
        /\ k \in Kind /\ job[a].next = Len(RestoreOrder(k)) + 1
        /\ rollback = job[a].state /\ rollback \in StateOf(k)
        /\ \A j \in 1..Len(RestoreOrder(k)) :
              j < job[a].next =>
                  settings[RestoreOrder(k)[j]] = rollback.saved[RestoreOrder(k)[j]]
    BY SMTT(30) DEF SysIInv, SysTypeOK, InPhase, RestorePhase, RestoreWritten, At
  <1>1. ASSUME NEW p \in PartsOf(k) PROVE settings[p] = rollback.saved[p]
    <2>1. PICK j \in 1..Len(RestoreOrder(k)) : RestoreOrder(k)[j] = p
      BY <1>0, RestoreOrderFacts
    <2>2. j < job[a].next
      BY <1>0, RestoreOrderFacts
    <2> QED BY <1>0, <2>1, <2>2, SMTT(30)
  <1>2. /\ r \in JobType /\ r.op = "restore" /\ r.pc = "remove"
        /\ r.target = k /\ r.state = rollback
    BY <1>0 DEF JobType, Pc
  <1>3. job' = [job EXCEPT ![a] = r] /\ job'[a] = r
    BY Zenon DEF RestoreWritten, Goto, SysIInv, SysTypeOK
  <1> HIDE DEF r, k
  <1>4. RestorePhase(a)'
    BY <1>0, <1>1, <1>2, <1>3 DEF RestorePhase, RestoreWritten
  <1> QED BY <1>0, <1>2, <1>3, <1>4, RestoreQuietStep, ZenonT(30) DEF RestoreWritten

(* A failed Restore leaves the file. *)
LEMMA RestoreFailsStep ==
    ASSUME SysIInv, NEW a \in Actor, RestoreFails(a)
    PROVE  SysIInv'
  BY EndStep DEF RestoreFails, At

(* The file goes when every part is back. *)
LEMMA RemoveRollbackStep ==
    ASSUME SysIInv, NEW a \in Actor, RemoveRollback(a)
    PROVE  SysIInv'
  <1>1. CASE rollback' = rollback /\ Goto(a, "err")
    BY <1>1, EndStep DEF RemoveRollback, At
  <1>2. CASE rollback' = NoFile /\ Goto(a, "ok")
    <2> DEFINE k == job[a].target
               r == [job[a] EXCEPT !.pc = "ok"]
    <2>0. /\ job[a] \in JobType /\ job[a].op = "restore" /\ job[a].pc = "remove"
          /\ k \in Kind /\ rollback \in StateOf(k)
          /\ \A p \in PartsOf(k) : settings[p] = rollback.saved[p]
      BY DEF SysIInv, SysTypeOK, InPhase, RestorePhase, RemoveRollback, At
    <2>1. r \in JobType /\ r.op = "restore" /\ r.pc = "ok"
      BY <2>0 DEF JobType, Pc
    <2>2. job' = [job EXCEPT ![a] = r] /\ job'[a] = r
      BY <1>2 DEF Goto, SysIInv, SysTypeOK
    <2> HIDE DEF r
    <2>3. SysTypeOK'
      BY <1>2, <2>1, <2>2, Zenon DEF SysIInv, SysTypeOK, RemoveRollback
    <2>4. ApplyPhase(a)' /\ RestorePhase(a)'
      BY <2>1, <2>2 DEF ApplyPhase, RestorePhase
    <2>5. ~Holds(rollback')
      BY <1>2, Zenon DEF Holds, NoFile, Kind
    <2>6. \A p \in PartsOf(k) \ lost : settings[p] = user[p]
      BY <2>0, StateFacts DEF SysIInv, SavedIsUsers
    <2>7. \A p \in Part \ lost : settings[p] = user[p]
      BY <2>0, <2>6, RemoveIsSafe
    <2>8. SavedIsUsers' /\ RecoverableUnlessLost'
      BY <2>5, <2>7 DEF SavedIsUsers, RecoverableUnlessLost, RemoveRollback
    <2> QED BY <2>0, <2>1, <2>2, <2>3, <2>4, <2>8, OthersIdle, BusyStep, Zenon
  <1> QED BY <1>1, <1>2 DEF RemoveRollback

(* A call begins, from rest. *)
LEMMA StartStep ==
    ASSUME SysIInv, NEW a \in Actor,
           \/ \E m \in Mode : StartApply(a, m)
           \/ \E k \in Kind \cup {"any"} : StartRestore(a, k)
    PROVE  SysIInv'
  <1>1. SavedIsUsers' /\ RecoverableUnlessLost'
    BY DEF SysIInv, SavedIsUsers, RecoverableUnlessLost, OnRecord,
           StartApply, StartRestore
  <1>0. Idle \in JobType /\ Idle.next = 1
    BY DEF Idle, JobType, Pc
  <1>2. ASSUME NEW m \in Mode, StartApply(a, m) PROVE SysIInv'
    <2> DEFINE r == [Idle EXCEPT !.op = "apply", !.target = m, !.pc = "snapshot"]
    <2>1. r \in JobType /\ r.op = "apply" /\ r.pc = "snapshot" /\ r.target = m
      BY <1>0, ZenonT(30) DEF JobType, Pc
    <2>2. job' = [job EXCEPT ![a] = r] /\ job'[a] = r
      BY <1>2, Zenon DEF StartApply, CallApply, SysIInv, SysTypeOK
    <2> HIDE DEF r
    <2>3. SysTypeOK'
      BY <1>2, <2>1, <2>2 DEF SysIInv, SysTypeOK, StartApply
    <2>4. ApplyPhase(a)' /\ RestorePhase(a)'
      BY <2>1, <2>2, Zenon DEF ApplyPhase, RestorePhase
    <2>5. \A b \in Actor \ {a} : job[b].pc = "idle"
      BY <1>2 DEF StartApply, AllIdle
    <2> QED BY <1>1, <2>1, <2>2, <2>3, <2>4, <2>5, BusyStep, Zenon
  <1>3. ASSUME NEW k \in Kind \cup {"any"}, StartRestore(a, k) PROVE SysIInv'
    <2> DEFINE pc == IF k = "any" THEN "dispatch" ELSE "read"
               r  == [Idle EXCEPT !.op = "restore", !.target = k, !.pc = pc]
    <2>1. /\ r \in JobType /\ r.op = "restore" /\ r.pc = pc /\ r.target = k
          /\ r.next = 1
      BY <1>0, ZenonT(30) DEF JobType, Pc
    <2>2. job' = [job EXCEPT ![a] = r] /\ job'[a] = r
      BY <1>3, Zenon DEF StartRestore, CallRestore, SysIInv, SysTypeOK
    <2> HIDE DEF r
    <2>3. SysTypeOK'
      BY <1>3, <2>1, <2>2 DEF SysIInv, SysTypeOK, StartRestore
    <2>4. ApplyPhase(a)' /\ RestorePhase(a)'
      BY <2>1, <2>2 DEF ApplyPhase, RestorePhase
    <2>5. \A b \in Actor \ {a} : job[b].pc = "idle"
      BY <1>3 DEF StartRestore, AllIdle
    <2> QED BY <1>1, <2>1, <2>2, <2>3, <2>4, <2>5, BusyStep, Zenon
  <1> QED BY <1>2, <1>3, Zenon

(* A call ends, by returning or with its process. *)
LEMMA StopStep ==
    ASSUME SysIInv, NEW a \in Actor, Return(a) \/ Crash(a)
    PROVE  SysIInv'
  <1>1. Idle \in JobType /\ Idle.op = "none" /\ Idle.pc = "idle"
    BY DEF Idle, JobType, Pc
  <1>2. job' = [job EXCEPT ![a] = Idle] /\ job'[a] = Idle
    BY SMTT(30) DEF Return, Crash, SysIInv, SysTypeOK
  <1>3. SysTypeOK'
    BY <1>1, <1>2, Zenon DEF SysIInv, SysTypeOK, Return, Crash
  <1>4. ApplyPhase(a)' /\ RestorePhase(a)'
    BY <1>1, <1>2, Zenon DEF ApplyPhase, RestorePhase
  <1>5. SavedIsUsers' /\ RecoverableUnlessLost'
    BY DEF SysIInv, SavedIsUsers, RecoverableUnlessLost, OnRecord, Return, Crash
  <1>6. OneBusy' /\ AtRest'
    BY <1>1, <1>2, ZenonT(30) DEF SysIInv, SysTypeOK, OneBusy, AtRest
  <1>7. ASSUME NEW b \in Actor \ {a} PROVE ApplyPhase(b)' /\ RestorePhase(b)'
    <2>1. job'[b] = job[b]
      BY <1>2 DEF SysIInv, SysTypeOK
    <2>2. ApplyPhase(b) /\ RestorePhase(b) /\ UNCHANGED <<settings, rollback>>
      BY Zenon DEF SysIInv, InPhase, Return, Crash
    <2>3. ApplyPhase(b)'
      BY <2>1, <2>2, ZenonT(30) DEF ApplyPhase
    <2>4. RestorePhase(b)'
      BY <2>1, <2>2, ZenonT(30) DEF RestorePhase
    <2> QED BY <2>3, <2>4
  <1> QED BY <1>3, <1>4, <1>5, <1>6, <1>7, SMTT(30) DEF SysIInv, InPhase

(* The user changes the settings, with no state on disk. *)
LEMMA UserEditStep ==
    ASSUME SysIInv, UserEdit
    PROVE  SysIInv'
  <1>1. SysTypeOK'
    BY ValueAssumption DEF SysIInv, SysTypeOK, UserEdit
  <1>2. OneBusy' /\ AtRest'
    BY Zenon DEF SysIInv, OneBusy, AtRest, UserEdit
  <1>3. ASSUME NEW b \in Actor PROVE job[b].op = "none"
    BY ZenonT(30) DEF SysIInv, InPhase, ApplyPhase, RestorePhase, SysTypeOK, JobType, UserEdit, AllIdle
  <1>4. InPhase'
    BY <1>3, SMTT(30) DEF InPhase, ApplyPhase, RestorePhase, UserEdit
  <1>5. SavedIsUsers' /\ RecoverableUnlessLost'
    BY DEF SavedIsUsers, RecoverableUnlessLost, UserEdit
  <1> QED BY <1>1, <1>2, <1>4, <1>5 DEF SysIInv

(* Every step preserves the invariant. *)
LEMMA SysNextInv == SysIInv /\ [SysNext]_sysVars => SysIInv'
  <1> SUFFICES ASSUME SysIInv, [SysNext]_sysVars PROVE SysIInv'
    OBVIOUS
  <1>1. CASE UNCHANGED sysVars
    <2>1. SysTypeOK' /\ OneBusy' /\ AtRest'
      BY <1>1, SMTT(30) DEF SysIInv, sysVars, SysTypeOK, OneBusy, AtRest
    <2>2. SavedIsUsers' /\ RecoverableUnlessLost'
      BY <1>1, Zenon DEF SysIInv, sysVars, SavedIsUsers, RecoverableUnlessLost, OnRecord
    <2>3. ASSUME NEW a \in Actor, ApplyPhase(a) PROVE ApplyPhase(a)'
      BY <1>1, <2>3, ZenonT(30) DEF sysVars, ApplyPhase
    <2>4. ASSUME NEW a \in Actor, RestorePhase(a) PROVE RestorePhase(a)'
      BY <1>1, <2>4 DEF sysVars, RestorePhase
    <2>5. InPhase'
      BY <2>3, <2>4 DEF SysIInv, InPhase
    <2> QED BY <2>1, <2>2, <2>5, Zenon DEF SysIInv
  <1>2. ASSUME NEW a \in Actor,
               \/ \E m \in Mode : StartApply(a, m)
               \/ \E k \in Kind \cup {"any"} : StartRestore(a, k)
        PROVE  SysIInv'
    BY <1>2, StartStep
  <1>3. ASSUME NEW a \in Actor, Return(a) \/ Crash(a) PROVE SysIInv'
    BY <1>3, StopStep, SMTT(30)
  <1>4. ASSUME NEW a \in Actor, Working(a) PROVE SysIInv'
    BY <1>4, TakeSnapshotStep, TruncateRollbackStep, FillRollbackStep, SMTT(30),
       ApplyWriteStep, ApplyEndStep, HostsTruncateStep, HostsFillStep,
       HostsFillPartlyStep, HostsWriteFailsStep, HostsUnsaveStep, DispatchStep, ReadRollbackStep,
       RestoreWriteStep, RestoreWrittenStep, RestoreFailsStep, RemoveRollbackStep
    DEF Working
  <1>5. CASE UserEdit
    BY <1>5, UserEditStep
  <1> QED BY <1>1, <1>2, <1>3, <1>4, <1>5 DEF SysNext

-----------------------------------------------------------------------------
(* Apply and Restore of systemproxy, systemdns and hosts, one call at a    *)
(* time, keep the phases of their calls apart.                             *)
THEOREM SysInvariant == SysSpec => []SysIInv
  BY SysInitInv, SysNextInv, PTL DEF SysSpec

(* Every variable keeps its type: in particular the rollback file is       *)
(* absent, torn or a complete state of one kind.                           *)
THEOREM SysTypeCorrect == SysSpec => []SysTypeOK
  <1>1. SysIInv => SysTypeOK
    BY DEF SysIInv
  <1> QED BY <1>1, SysInvariant, PTL

(* However Apply and Restore fail or are cut short, a setting that is not  *)
(* the user's has the user's value in the rollback file, unless an Apply   *)
(* overwrote the file while the setting was taken over, hosts.Apply        *)
(* dropped it after a failed write, or the snapshot took it for DHCP.      *)
THEOREM SysRecoverable == SysSpec => []RecoverableUnlessLost
  <1>1. SysIInv => RecoverableUnlessLost
    BY Zenon DEF SysIInv
  <1> QED BY <1>1, SysInvariant, PTL

(* RemoveState runs only once everything the file covers is back, after    *)
(* the last write of a Restore, or else marks as lost what is not.         *)
LEMMA RemoveStep ==
    ASSUME SysIInv, [SysNext]_sysVars, Holds(rollback), rollback' = NoFile,
           NEW p \in DOMAIN rollback.saved \ lost'
    PROVE  settings[p] = rollback.saved[p]
  <1>0. /\ rollback \in RollbackState \cup {NoFile, Torn}
        /\ ~Holds(NoFile) /\ rollback # NoFile /\ Torn # NoFile
        /\ \A a \in Actor : job[a].state \in RollbackState \cup {NoFile}
    BY HoldsFacts, Zenon DEF SysIInv, SysTypeOK, JobType, Holds, NoFile, Torn, Kind
  <1>1. ASSUME NEW a \in Actor, RemoveRollback(a) PROVE settings[p] = rollback.saved[p]
    <2>1. /\ job[a].target \in Kind /\ rollback \in StateOf(job[a].target)
          /\ \A q \in PartsOf(job[a].target) : settings[q] = rollback.saved[q]
      <3>1. RestorePhase(a) /\ job[a].op = "restore" /\ job[a].pc = "remove"
        BY <1>1, Zenon DEF SysIInv, InPhase, RemoveRollback, At
      <3> QED BY <3>1, ZenonT(30) DEF RestorePhase
    <2> QED BY <2>1, StateFacts, Zenon
  <1>2. ASSUME NEW a \in Actor, HostsUnsave(a) PROVE settings[p] = rollback.saved[p]
    <2>1. rollback \in StateOf("hosts")
      BY <1>2, Zenon DEF SysIInv, InPhase, ApplyPhase, HostsUnsave, At
    <2>2. p = "HostsBlock" /\ p \in Part /\ rollback.saved[p] = "none"
      BY <2>1, StateFacts, PartsFacts, Zenon DEF Kind
    <2>3. user["HostsBlock"] = "none"
      BY ValueAssumption DEF SysIInv, SysTypeOK
    <2>4. lost' = lost \cup Taken
      BY <1>0, <1>2, Zenon DEF HostsUnsave
    <2> QED BY <2>2, <2>3, <2>4, Zenon DEF Taken
  <1>3. ASSUME NEW a \in Actor, FillRollback(a) PROVE FALSE
    BY <1>0, <1>3 DEF FillRollback, SysIInv, InPhase, ApplyPhase, At
  <1>4. CASE UNCHANGED rollback
    BY <1>0, <1>4
  <1>5. ASSUME NEW a \in Actor, TruncateRollback(a) PROVE FALSE
    BY <1>0, <1>5 DEF TruncateRollback
  <1>6. \/ UNCHANGED rollback
        \/ \E a \in Actor : \/ RemoveRollback(a) \/ HostsUnsave(a)
                            \/ FillRollback(a) \/ TruncateRollback(a)
    BY ZenonT(30) DEF SysNext, sysVars, Working, StartApply, StartRestore, Return, Crash, UserEdit,
           TakeSnapshot, ApplyWrite, ApplyDone, ApplyFails, HostsTruncate, HostsFill,
           HostsFillPartly, HostsWriteFails, Dispatch, ReadRollback, RestoreWrite, RestoreWritten,
           RestoreFails
  <1> QED BY <1>1, <1>2, <1>3, <1>4, <1>5, <1>6, SMTT(30)

(* A rollback state that is still needed is never removed. *)
THEOREM SysRemoval == SysSpec => RemovedOnlyWhenRestored
  <1> DEFINE Removal ==
          Holds(rollback) /\ rollback' = NoFile =>
              \A p \in DOMAIN rollback.saved \ lost' :
                  settings[p] = rollback.saved[p]
  <1>1. SysIInv /\ [SysNext]_sysVars => [Removal]_sysVars
    BY RemoveStep
  <1>2. SysSpec => [][Removal]_sysVars
    <2> HIDE DEF Removal
    <2> QED BY <1>1, SysInvariant, PTL DEF SysSpec
  <1> QED BY <1>2 DEF RemovedOnlyWhenRestored

-----------------------------------------------------------------------------
(* What a call has done when it returns *)

(* A step inside a call keeps what the call is. *)
LEMMA WorkingFacts ==
    ASSUME SysIInv, NEW a \in Actor, Working(a)
    PROVE  /\ job[a].op # "none" /\ job[a] # Idle
           /\ job'[a].op = job[a].op /\ job'[a] # Idle
           /\ job[a].pc # "dispatch" => job'[a].target = job[a].target
           /\ job'[a].pc # "dispatch"
           /\ \A b \in Actor : b # a => job'[b] = job[b]
  <1>1. job \in [Actor -> JobType] /\ Idle.op = "none"
    BY SMTT(30) DEF SysIInv, SysTypeOK, Idle
  <1>g. ASSUME NEW pc \in {"remove", "ok", "err", "nostate"}, Goto(a, pc)
        PROVE  /\ job'[a].op = job[a].op /\ job'[a].target = job[a].target /\ job'[a].pc # "dispatch"
               /\ \A b \in Actor : b # a => job'[b] = job[b]
    BY <1>1, <1>g, ZenonT(30) DEF Goto, JobType
  <1>8. CASE TakeSnapshot(a)
    <2>1. job[a].op = "apply" /\ job[a].pc = "snapshot"
      BY <1>8, Zenon DEF TakeSnapshot, At
    <2>2. CASE Goto(a, "err")
      BY <1>1, <1>g, <2>1, <2>2, Zenon
    <2>3. ASSUME NEW f, job' = [job EXCEPT ![a].pc = "truncate", ![a].state = f,
                                           ![a].lines = hostsLines]
          PROVE  /\ job'[a].op = "apply" /\ job'[a].pc = "truncate"
                 /\ job'[a].target = job[a].target
                 /\ \A b \in Actor : b # a => job'[b] = job[b]
      BY <1>1, <2>1, <2>3, ZenonT(30) DEF JobType
    <2>4. CASE ~Goto(a, "err")
      <3>1. /\ job'[a].op = "apply" /\ job'[a].pc = "truncate"
            /\ job'[a].target = job[a].target
            /\ \A b \in Actor : b # a => job'[b] = job[b]
        BY <1>8, <2>3, <2>4, Zenon DEF TakeSnapshot
      <3> QED BY <1>1, <2>1, <3>1, Zenon
    <2> QED BY <2>2, <2>4, Zenon
  <1>2. CASE \/ TruncateRollback(a) \/ FillRollback(a)
             \/ ApplyWrite(a) \/ ApplyDone(a) \/ ApplyFails(a) \/ HostsUnsave(a)
    BY <1>1, <1>2 DEF TruncateRollback, FillRollback, ApplyWrite, ApplyDone,
                      ApplyFails, HostsUnsave, At, Goto, JobType
  <1>3. CASE HostsTruncate(a) \/ HostsFill(a) \/ HostsFillPartly(a) \/ HostsWriteFails(a)
    BY <1>1, <1>3 DEF HostsTruncate, HostsFill, HostsFillPartly, HostsWriteFails, AtHostsWrite, Goto, JobType
  <1>4. CASE Dispatch(a)
    <2>1. job[a].op = "restore" /\ job[a].pc = "dispatch"
      BY <1>4, Zenon DEF Dispatch, At
    <2>2. CASE Goto(a, "nostate") \/ Goto(a, "err")
      BY <1>1, <1>g, <2>1, <2>2, Zenon
    <2>3. CASE job' = [job EXCEPT ![a].target = rollback.kind, ![a].pc = "read"]
      <3>1. /\ job'[a].op = "restore" /\ job'[a].pc = "read"
            /\ \A b \in Actor : b # a => job'[b] = job[b]
        BY <1>1, <2>1, <2>3, ZenonT(30) DEF JobType
      <3> QED BY <1>1, <2>1, <3>1, Zenon
    <2> QED BY <1>4, <2>2, <2>3, Zenon DEF Dispatch
  <1>5. CASE ReadRollback(a)
    <2>1. job[a].op = "restore" /\ job[a].pc = "read"
      BY <1>5, Zenon DEF ReadRollback, At
    <2>2. CASE \E pc \in {"nostate", "err"} : Goto(a, pc)
      BY <1>1, <1>g, <2>1, <2>2, Zenon
    <2>3. CASE job' = [job EXCEPT ![a].pc = "write", ![a].state = rollback, ![a].lines = hostsLines]
      <3>1. /\ job'[a].op = "restore" /\ job'[a].pc = "write" /\ job'[a].target = job[a].target
            /\ \A b \in Actor : b # a => job'[b] = job[b]
        BY <1>1, <2>1, <2>3, ZenonT(30) DEF JobType
      <3> QED BY <1>1, <2>1, <3>1, Zenon
    <2> QED BY <1>5, <2>2, <2>3, Zenon DEF ReadRollback
  <1>6. CASE RestoreWrite(a)
    <2>1. job[a].op = "restore" /\ job[a].pc = "write"
      BY <1>6, Zenon DEF RestoreWrite, At
    <2>2. /\ job'[a].op = "restore" /\ job'[a].pc = "write" /\ job'[a].target = job[a].target
          /\ \A b \in Actor : b # a => job'[b] = job[b]
      BY <1>1, <1>6, <2>1, ZenonT(30) DEF RestoreWrite, JobType
    <2> QED BY <1>1, <2>1, <2>2, Zenon
  <1>7. CASE RestoreWritten(a) \/ RestoreFails(a) \/ RemoveRollback(a)
    <2>1. /\ job[a].op = "restore" /\ job[a].pc # "dispatch"
          /\ \E pc \in {"remove", "ok", "err"} : Goto(a, pc)
      BY <1>7, Zenon DEF RestoreWritten, RestoreFails, RemoveRollback, At
    <2> QED BY <1>1, <1>g, <2>1, Zenon
  <1> QED BY <1>2, <1>3, <1>4, <1>5, <1>6, <1>7, <1>8, Zenon DEF Working

(* A Restore that has succeeded, or has found nothing to restore, leaves   *)
(* no rollback state of its kind behind.                                   *)
RestoreReturned ==
    \A a \in Actor :
        job[a].op = "restore" /\ job[a].pc \in {"ok", "nostate"} =>
            ~(Holds(rollback) /\ rollback.kind = job[a].target)

(* Only the steps of a Restore that end it without an error matter. *)
LEMMA RestoreReturnedStep ==
    ASSUME SysIInv, RestoreReturned, [SysNext]_sysVars
    PROVE  RestoreReturned'
  <1> SUFFICES ASSUME NEW a \in Actor, job'[a].op = "restore", job'[a].pc \in {"ok", "nostate"}
               PROVE  ~(Holds(rollback') /\ rollback'.kind = job'[a].target)
    BY Zenon DEF RestoreReturned
  <1>0. job \in [Actor -> JobType] /\ Idle.op = "none" /\ ~Holds(NoFile)
    BY DEF SysIInv, SysTypeOK, Idle, Holds, NoFile, Kind
  <1>1. CASE job'[a] = job[a] /\ rollback' = rollback
    BY <1>1 DEF RestoreReturned
  <1>2. ASSUME NEW b \in Actor, b # a, Working(b)
        PROVE  FALSE
    <2>1. job'[a] = job[a] /\ job[b].pc # "idle"
      BY <1>0, <1>2, ZenonT(30) DEF Working, TakeSnapshot, TruncateRollback, FillRollback, ApplyWrite,
         ApplyDone, ApplyFails, HostsTruncate, HostsFill, HostsFillPartly, HostsWriteFails,
         HostsUnsave, Dispatch, ReadRollback, RestoreWrite, RestoreWritten, RestoreFails,
         RemoveRollback, At, AtHostsWrite, Goto
    <2> QED BY <1>2, <2>1 DEF SysIInv, OneBusy
  <1>3. CASE Working(a)
    <2>1. CASE \/ TakeSnapshot(a) \/ TruncateRollback(a) \/ FillRollback(a)
               \/ ApplyWrite(a) \/ ApplyDone(a) \/ ApplyFails(a) \/ HostsUnsave(a)
      <3>1. job[a].op = "apply"
        BY <2>1, Zenon DEF TakeSnapshot, TruncateRollback, FillRollback, ApplyWrite, ApplyDone,
                        ApplyFails, HostsUnsave, At
      <3> QED BY <1>3, <3>1, WorkingFacts
    <2>2. CASE HostsTruncate(a) \/ HostsFill(a) \/ HostsFillPartly(a) \/ HostsWriteFails(a)
      BY <1>0, <2>2 DEF HostsTruncate, HostsFill, HostsFillPartly, HostsWriteFails, AtHostsWrite, Goto, JobType
    <2>3. CASE Dispatch(a)
      BY <1>0, <2>3 DEF Dispatch, At, Goto, JobType
    <2>4. CASE ReadRollback(a)
      BY <1>0, <2>4 DEF ReadRollback, At, Goto, JobType
    <2>5. CASE RestoreWrite(a) \/ RestoreWritten(a) \/ RestoreFails(a)
      <3>1. job'[a].pc \in {"write", "remove", "err"}
        <4>1. CASE RestoreWrite(a)
          BY <1>0, <4>1 DEF RestoreWrite, At, JobType
        <4>2. CASE RestoreWritten(a) \/ RestoreFails(a)
          BY <1>0, <4>2 DEF RestoreWritten, RestoreFails, Goto, JobType
        <4> QED BY <2>5, <4>1, <4>2, SMTT(30)
      <3> QED BY <3>1
    <2>6. CASE RemoveRollback(a)
      BY <1>0, <2>6, ZenonT(100) DEF RemoveRollback, At, Goto, JobType
    <2> QED BY <1>3, <2>1, <2>2, <2>3, <2>4, <2>5, <2>6, ZenonT(30) DEF Working
  <1>4. ASSUME NEW b \in Actor, \/ \E m \in Mode : StartApply(b, m)
                                \/ \E k \in Kind \cup {"any"} : StartRestore(b, k)
                                \/ Return(b) \/ Crash(b)
        PROVE  job'[a] = job[a] /\ rollback' = rollback
    <2>1. rollback' = rollback /\ (b # a => job'[a] = job[a])
      BY <1>0, <1>4, Zenon DEF StartApply, CallApply, StartRestore, CallRestore, Return, Crash
    <2>2. ASSUME b = a, NEW m \in Mode, StartApply(b, m)
          PROVE  job'[a].op = "apply"
      BY <1>0, <2>2 DEF StartApply, CallApply, Idle
    <2>3. ASSUME b = a, NEW k \in Kind \cup {"any"}, StartRestore(b, k)
          PROVE  job'[a].pc \in {"dispatch", "read"}
      BY <1>0, <2>3 DEF StartRestore, CallRestore, Idle
    <2>4. ASSUME b = a, Return(b) \/ Crash(b)
          PROVE  job'[a].op = "none"
      BY <1>0, <2>4 DEF Return, Crash
    <2> QED BY <1>4, <2>1, <2>2, <2>3, <2>4
  <1>5. CASE UserEdit \/ UNCHANGED sysVars
    BY <1>1, <1>5 DEF UserEdit, sysVars
  <1> QED BY <1>1, <1>2, <1>3, <1>4, <1>5, Zenon DEF SysNext

(* Restore of systemproxy, systemdns and hosts removes its rollback state  *)
(* or says that it could not.                                              *)
THEOREM SysRestoreReturned == SysSpec => []RestoreReturned
  <1>1. SysInit => RestoreReturned
    BY SMTT(30) DEF SysInit, RestoreReturned, Idle
  <1> QED BY <1>1, RestoreReturnedStep, SysInvariant, PTL DEF SysSpec

-----------------------------------------------------------------------------
(* SystemChange implements GuardedChange.  A step is looked at through     *)
(* what it does to Taken, Recorded and lost; the invariant, before         *)
(* and after the step, supplies the guards of the abstract actions.        *)

(* What the invariant says of the three abstract variables. *)
LEMMA TakenIsGuarded ==
    ASSUME SysIInv
    PROVE  /\ Taken \subseteq Recorded \cup lost
           /\ ~Holds(rollback) => Recorded = {} /\ Taken \subseteq lost
  BY DEF SysIInv, RecoverableUnlessLost, Taken, Recorded, OnRecord

(* A step that leaves settings and file alone is a stutter. *)
LEMMA QuietStep ==
    ASSUME UNCHANGED <<settings, rollback, user, lost>>
    PROVE  UNCHANGED Guard!guardVars
  BY DEF Guard!guardVars, Taken, Recorded, OnRecord

(* A write of one setting takes it or releases it. *)
LEMMA WriteStep ==
    ASSUME SysIInv, SysIInv', NEW q \in Part, NEW v,
           settings' = [settings EXCEPT ![q] = v],
           UNCHANGED <<rollback, user, lost>>
    PROVE  Guard!Take(q) \/ Guard!Release(q)
  <1>1. settings \in [Part -> Value]
    BY DEF SysIInv, SysTypeOK
  <1>2. Recorded' = Recorded
    BY DEF Recorded, OnRecord
  <1>3. CASE v = user[q]
    <2>1. Taken' = Taken \ {q}
      BY <1>1, <1>3 DEF Taken
    <2> QED BY <1>2, <2>1 DEF Guard!Release
  <1>4. CASE v # user[q]
    <2>1. Taken' = Taken \cup {q}
      BY <1>1, <1>4 DEF Taken
    <2>2. RecoverableUnlessLost'
      BY DEF SysIInv
    <2>3. q \in Recorded \cup lost
      BY <2>1, <2>2, <1>2, SMTT(30) DEF RecoverableUnlessLost, Taken, Recorded
    <2> QED BY <1>2, <2>1, <2>3 DEF Guard!Take
  <1> QED BY <1>3, <1>4

(* Every write of Apply or Restore goes to a part of the system. *)
LEMMA WritesAPart ==
    ASSUME SysIInv, NEW a \in Actor,
           ApplyWrite(a) \/ HostsTruncate(a) \/ HostsFill(a) \/ HostsFillPartly(a) \/ RestoreWrite(a)
    PROVE  \E q \in Part, v \in Value \cup {"none", "block"} :
              /\ settings' = [settings EXCEPT ![q] = v]
              /\ UNCHANGED <<rollback, user, lost>>
  <1>1. CASE ApplyWrite(a)
    <2> DEFINE m == job[a].target
               i == job[a].next
    <2>1. m \in Mode /\ KindOf(m) \in Kind /\ i \in 1..Len(ApplyWrites(m))
      <3>1. /\ m \in Mode /\ i \in Nat \ {0} /\ i <= Len(ApplyWrites(m))
        BY <1>1, Zenon DEF SysIInv, SysTypeOK, JobType, InPhase, ApplyPhase, ApplyWrite, At
      <3>2. KindOf(m) \in Kind
        BY <3>1, KindFacts, Zenon
      <3> HIDE DEF m, i
      <3> QED BY <3>1, <3>2
    <2>2. ApplyWrites(m)[i][1] \in Part /\ ApplyWrites(m)[i][2] \in Value
      BY <2>1, ApplyWritesFacts, PartsFacts, Zenon
    <2> QED BY <1>1, <2>2, Zenon DEF ApplyWrite
  <1>2. CASE HostsTruncate(a) \/ HostsFill(a) \/ HostsFillPartly(a)
    BY <1>2, PartsFacts DEF HostsTruncate, HostsFill, HostsFillPartly
  <1>3. CASE RestoreWrite(a)
    <2> DEFINE k == job[a].target
               i == job[a].next
               q == RestoreOrder(k)[i]
    <2>1. k \in Kind /\ job[a].state \in StateOf(k) /\ job[a].next \in Nat \ {0}
      BY <1>3, Zenon DEF SysIInv, SysTypeOK, JobType, InPhase, RestorePhase, RestoreWrite, At
    <2>2. i \in 1..Len(RestoreOrder(k))
      BY <1>3, <2>1, RestoreOrderFacts, SMTT(30) DEF RestoreWrite
    <2>3. q \in PartsOf(k) /\ q \in Part
      BY <2>1, <2>2, RestoreOrderFacts, PartsFacts, ZenonT(30)
    <2>4. job[a].state.saved[q] \in Value
      BY <2>1, <2>3, StateFacts, SMTT(30)
    <2> QED BY <1>3, <2>3, <2>4, Zenon DEF RestoreWrite
  <1> QED BY <1>1, <1>2, <1>3

(* A part newly taken over, and not lost before, is one an Apply in        *)
(* progress has to change: a Restore writes only what is the user's.       *)
LEMMA TakeoverIsApply ==
    ASSUME SysIInv, [SysNext]_sysVars, NEW q \in Taken' \ (Taken \cup lost)
    PROVE  \E a \in Actor : /\ job[a].op = "apply" /\ job[a] # Idle
                            /\ q \in PartsOf(KindOf(job[a].target))
  <1>0. /\ q \in Part /\ q \notin lost /\ settings[q] = user[q] /\ settings'[q] # user'[q]
        /\ settings \in [Part -> Value]
    BY DEF Taken, SysIInv, SysTypeOK
  <1>i. Idle.pc = "idle"
    BY Zenon DEF Idle
  <1>1. UNCHANGED user => settings' # settings
    BY <1>0, Zenon
  <1>2. PICK a \in Actor : /\ ApplyWrite(a) \/ HostsTruncate(a) \/ HostsFill(a)
                             \/ HostsFillPartly(a) \/ RestoreWrite(a)
                          /\ UNCHANGED user
    <2>1. ~UserEdit
      BY <1>0, Zenon DEF UserEdit
    <2>2. ASSUME NEW a \in Actor, NEW m \in Mode, StartApply(a, m)
          PROVE  FALSE
      BY <1>1, <2>2, Zenon DEF StartApply
    <2>3. ASSUME NEW a \in Actor, NEW k \in Kind \cup {"any"}, StartRestore(a, k)
          PROVE  FALSE
      BY <1>1, <2>3, Zenon DEF StartRestore
    <2>4. ASSUME NEW a \in Actor, Return(a) \/ Crash(a)
          PROVE  FALSE
      BY <1>1, <2>4, Zenon DEF Return, Crash
    <2>5. PICK a \in Actor : Working(a)
      BY <1>1, <2>1, <2>2, <2>3, <2>4, Zenon DEF SysNext, sysVars
    <2>6. \/ ApplyWrite(a) \/ HostsTruncate(a) \/ HostsFill(a)
          \/ HostsFillPartly(a) \/ RestoreWrite(a)
      <3>1. ~TakeSnapshot(a) /\ ~TruncateRollback(a) /\ ~FillRollback(a)
            /\ ~ApplyDone(a) /\ ~ApplyFails(a)
        BY <1>1, Zenon DEF TakeSnapshot, TruncateRollback, FillRollback, ApplyDone, ApplyFails
      <3>2. ~HostsWriteFails(a) /\ ~HostsUnsave(a) /\ ~Dispatch(a) /\ ~ReadRollback(a)
            /\ ~RestoreWritten(a) /\ ~RestoreFails(a) /\ ~RemoveRollback(a)
        BY <1>1, Zenon DEF HostsWriteFails, HostsUnsave, Dispatch, ReadRollback, RestoreWritten,
           RestoreFails, RemoveRollback
      <3> QED BY <2>5, <3>1, <3>2, Zenon DEF Working
    <2>7. UNCHANGED user
      BY <2>6, Zenon DEF ApplyWrite, HostsTruncate, HostsFill, HostsFillPartly, RestoreWrite
    <2> QED BY <2>6, <2>7
  <1>3. CASE ApplyWrite(a)
    <2> DEFINE m == job[a].target
               i == job[a].next
    <2>1. /\ m \in Mode /\ i \in Nat \ {0} /\ i <= Len(ApplyWrites(m))
          /\ job[a].op = "apply" /\ job[a].pc = "write"
      BY <1>3, Zenon DEF SysIInv, SysTypeOK, JobType, InPhase, ApplyPhase, ApplyWrite, At
    <2>2. settings' = [settings EXCEPT ![ApplyWrites(m)[i][1]] = ApplyWrites(m)[i][2]]
      BY <1>3, Zenon DEF ApplyWrite
    <2> HIDE DEF m, i
    <2>3. i \in 1..Len(ApplyWrites(m)) /\ KindOf(m) \in Kind
      BY <2>1, KindFacts
    <2>4. ApplyWrites(m)[i][1] \in PartsOf(KindOf(m))
      BY <2>1, <2>3, ApplyWritesFacts, Zenon
    <2>5. q = ApplyWrites(m)[i][1]
      BY <1>0, <1>2, <2>2, Zenon
    <2>6. job[a] # Idle
      BY <1>i, <2>1, Zenon
    <2> QED BY <2>1, <2>4, <2>5, <2>6, Zenon DEF m
  <1>4. CASE HostsTruncate(a) \/ HostsFill(a) \/ HostsFillPartly(a)
    <2>1. /\ job[a].target = "hosts" /\ job[a].pc # "idle" /\ user["HostsBlock"] = "none"
          /\ KindOf("hosts") = "hosts"
      BY <1>4, HostsFacts, Zenon DEF HostsTruncate, HostsFill, HostsFillPartly
    <2>2. \/ settings' = [settings EXCEPT !["HostsBlock"] = "none"]
          \/ settings' = [settings EXCEPT !["HostsBlock"] = "block"] /\ job[a].op = "apply"
      BY <1>4, Zenon DEF HostsTruncate, HostsFill, HostsFillPartly
    <2>3. q = "HostsBlock"
      BY <1>0, <1>2, <2>2, Zenon
    <2>4. job[a].op = "apply"
      BY <1>0, <1>2, <2>1, <2>2, <2>3, Zenon
    <2>5. job[a] # Idle
      BY <1>i, <2>1, Zenon
    <2>6. q \in PartsOf(KindOf(job[a].target))
      BY <2>1, <2>3, PartsFacts
    <2> QED BY <2>4, <2>5, <2>6, Zenon
  <1>5. CASE RestoreWrite(a)
    <2> DEFINE k == job[a].target
               i == job[a].next
               r == RestoreOrder(k)[i]
    <2>1. /\ k \in Kind /\ rollback = job[a].state /\ rollback \in StateOf(k)
          /\ i \in Nat \ {0} /\ i <= Len(RestoreOrder(k))
          /\ settings' = [settings EXCEPT ![r] = rollback.saved[r]]
      BY <1>5, Zenon DEF SysIInv, SysTypeOK, JobType, InPhase, RestorePhase, RestoreWrite, At
    <2> HIDE DEF k, i
    <2>2. i \in 1..Len(RestoreOrder(k))
      BY <2>1, RestoreOrderFacts
    <2>3. r \in PartsOf(k)
      BY <2>1, <2>2, RestoreOrderFacts, Zenon
    <2> HIDE DEF r
    <2>4. Holds(rollback) /\ DOMAIN rollback.saved = PartsOf(k)
      BY <2>1, StateFacts, Zenon
    <2>5. q = r
      BY <1>0, <1>2, <2>1, Zenon
    <2>6. rollback.saved[q] = user[q]
      BY <1>0, <2>3, <2>4, <2>5, Zenon DEF SysIInv, SavedIsUsers
    <2>7. settings'[q] = rollback.saved[q]
      BY <1>0, <2>1, <2>5, Zenon
    <2> QED BY <1>0, <1>2, <2>6, <2>7, Zenon
  <1> QED BY <1>2, <1>3, <1>4, <1>5, Zenon

(* Writing the rollback file is Drop, then Record. *)
LEMMA SaveStep ==
    ASSUME SysIInv, SysIInv', NEW a \in Actor, TruncateRollback(a) \/ FillRollback(a)
    PROVE  Guard!Drop \/ Guard!Record \/ UNCHANGED Guard!guardVars
  <1>1. CASE UNCHANGED <<settings, rollback, user, lost>>
    BY <1>1, QuietStep, SMTT(30)
  <1>2. CASE TruncateRollback(a) /\ rollback' = Torn
    <2>1. ~Holds(rollback') /\ UNCHANGED <<settings, user>>
      BY <1>2, Zenon DEF Holds, Torn, Kind, TruncateRollback
    <2>2. Recorded' = {} /\ Taken' = Taken
      BY <2>1 DEF Recorded, OnRecord, Taken
    <2>3. CASE lost' = lost \cup (IF Holds(rollback) THEN Taken ELSE {})
      <3>1. lost' = lost \cup Taken
        BY <2>3, TakenIsGuarded
      <3> QED BY <2>2, <3>1 DEF Guard!Drop
    <2>4. CASE UNCHANGED <<lost, rollback>>
      BY <2>1, <2>4, QuietStep
    <2> QED BY <1>2, <2>3, <2>4, Zenon DEF TruncateRollback, Taken
  <1>3. CASE /\ FillRollback(a) /\ rollback' = job[a].state
             /\ lost' = (lost \cup Misread(job[a].state)) \ SavedRight(job[a].state)
    <2>1. ~Holds(rollback) /\ UNCHANGED <<settings, user>>
      BY <1>3, ZenonT(30) DEF FillRollback, SysIInv, InPhase, ApplyPhase, At
    <2>2. Taken' = Taken /\ Recorded' \in SUBSET Part
      BY <2>1 DEF Taken, Recorded
    <2>3. SavedRight(job[a].state) \cap Part \subseteq Recorded'
      <3>1. job[a].target \in Mode /\ job[a].state \in StateOf(KindOf(job[a].target))
        BY <1>3, ZenonT(30) DEF FillRollback, SysIInv, InPhase, ApplyPhase, At
      <3>2. Holds(rollback')
        BY <1>3, <3>1, KindFacts, StateFacts
      <3> QED BY <1>3, <2>1, <3>2 DEF SavedRight, Recorded, OnRecord
    <2>4. lost \subseteq Part /\ lost' \subseteq Part
      BY DEF SysIInv, SysTypeOK
    <2>5. lost \subseteq lost' \cup Recorded'
      BY <1>3, <2>3, <2>4
    <2> QED BY <2>1, <2>2, <2>4, <2>5, TakenIsGuarded, Zenon DEF Guard!Record
  <1> QED BY <1>1, <1>2, <1>3, Zenon DEF TruncateRollback, FillRollback

(* RemoveState is Forget, or Drop after a failed hosts.Apply. *)
LEMMA ForgetStep ==
    ASSUME SysIInv, SysIInv', NEW a \in Actor, HostsUnsave(a) \/ RemoveRollback(a)
    PROVE  Guard!Forget \/ Guard!Drop \/ UNCHANGED Guard!guardVars
  <1>1. CASE UNCHANGED <<rollback, lost>>
    BY <1>1, QuietStep DEF HostsUnsave, RemoveRollback
  <1>3. CASE rollback' = NoFile /\ lost' = lost \cup Taken
    <2>1. ~Holds(rollback') /\ UNCHANGED <<settings, user>>
      BY <1>3, Zenon DEF Holds, NoFile, Kind, HostsUnsave, RemoveRollback
    <2>2. Recorded' = {} /\ Taken' = Taken
      BY <2>1, Zenon DEF Recorded, OnRecord, Taken
    <2> QED BY <1>3, <2>2 DEF Guard!Drop
  <1>2. CASE rollback' = NoFile /\ UNCHANGED lost
    <2>1. ~Holds(rollback') /\ UNCHANGED <<settings, user, lost>>
      BY <1>2, Zenon DEF Holds, NoFile, Kind, HostsUnsave, RemoveRollback
    <2>2. Recorded' = {} /\ Taken' = Taken
      BY <2>1, Zenon DEF Recorded, OnRecord, Taken
    <2>3. Taken \subseteq lost
      BY <2>1 DEF SysIInv, RecoverableUnlessLost, OnRecord, Taken
    <2> QED BY <2>1, <2>2, <2>3 DEF Guard!Forget
  <1> QED BY <1>1, <1>2, <1>3 DEF HostsUnsave, RemoveRollback

(* Every step of SystemChange is one of GuardedChange, or a stutter. *)
LEMMA GuardStep ==
    SysIInv /\ SysIInv' /\ [SysNext]_sysVars => [Guard!GuardNext]_(Guard!guardVars)
  <1> SUFFICES ASSUME SysIInv, SysIInv', [SysNext]_sysVars
               PROVE  Guard!GuardNext \/ UNCHANGED Guard!guardVars
    OBVIOUS
  <1>1. CASE UNCHANGED <<settings, rollback, user, lost>>
    BY <1>1, QuietStep
  <1>2. ASSUME NEW a \in Actor,
               ApplyWrite(a) \/ HostsTruncate(a) \/ HostsFill(a) \/ HostsFillPartly(a) \/ RestoreWrite(a)
        PROVE  Guard!GuardNext
    <2>1. PICK q \in Part, v \in Value \cup {"none", "block"} :
             /\ settings' = [settings EXCEPT ![q] = v]
             /\ UNCHANGED <<rollback, user, lost>>
      BY <1>2, WritesAPart
    <2>2. Guard!Take(q) \/ Guard!Release(q)
      BY <2>1, WriteStep, Zenon
    <2> QED BY <2>2 DEF Guard!GuardNext
  <1>3. ASSUME NEW a \in Actor, TruncateRollback(a) \/ FillRollback(a)
        PROVE  Guard!GuardNext \/ UNCHANGED Guard!guardVars
    BY <1>3, SaveStep DEF Guard!GuardNext
  <1>4. ASSUME NEW a \in Actor, HostsUnsave(a) \/ RemoveRollback(a)
        PROVE  Guard!GuardNext \/ UNCHANGED Guard!guardVars
    BY <1>4, ForgetStep DEF Guard!GuardNext
  <1>5. CASE UserEdit
    <2>1. ~Holds(rollback) /\ ~Holds(rollback') /\ settings' = user' /\ lost' = {}
      BY <1>5, Zenon DEF UserEdit
    <2>2. Recorded = {} /\ Recorded' = {} /\ Taken' = {}
      BY <2>1 DEF Recorded, OnRecord, Taken
    <2> QED BY <2>1, <2>2 DEF Guard!Settle, Guard!GuardNext
  <1>6. \/ UNCHANGED <<settings, rollback, user, lost>> \/ UserEdit
        \/ \E a \in Actor :
              \/ ApplyWrite(a) \/ HostsTruncate(a) \/ HostsFill(a) \/ HostsFillPartly(a) \/ RestoreWrite(a)
              \/ TruncateRollback(a) \/ FillRollback(a)
              \/ HostsUnsave(a) \/ RemoveRollback(a)
    BY ZenonT(30) DEF SysNext, sysVars, Working, StartApply, StartRestore, Return, Crash,
           TakeSnapshot, ApplyDone, ApplyFails, HostsWriteFails, Dispatch,
           ReadRollback, RestoreWritten, RestoreFails
  <1> QED BY <1>1, <1>2, <1>3, <1>4, <1>5, <1>6

(* Apply and Restore of systemproxy, systemdns and hosts implement the     *)
(* guarded change: no setting is taken over without the user's value on    *)
(* record, and no record goes while a setting still needs it.              *)
THEOREM SysImplementsGuarded == SysSpec => Guarded
  <1>1. SysInit => Guard!GuardInit
    BY DEF SysInit, Guard!GuardInit, Taken, Recorded, OnRecord, Holds, NoFile, Kind
  <1> QED BY <1>1, GuardStep, SysInvariant, PTL DEF SysSpec, Guarded, Guard!GuardSpec
=============================================================================
