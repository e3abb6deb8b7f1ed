----------------------------- MODULE CertStore ------------------------------
(***************************************************************************)
(* internal/certstore: the local root CA, a certificate and a key in two   *)
(* files, and its trust in the Windows Root stores.  A Manager loads the   *)
(* pair, or generates one if either file is missing, keeps it in memory    *)
(* and signs site certificates with it.                                    *)
(*                                                                         *)
(* A member of Manager is a Manager object of some process: the engine's,  *)
(* the `cert` command's or the AppHost's.  Its mutex orders the operations *)
(* of one Manager; nothing orders those of two.  A key pair is identified  *)
(* with its name; a file that was truncated and not yet written is torn.   *)
(***************************************************************************)
EXTENDS Naturals, FiniteSets

CONSTANTS
    Manager,
    Pair,           \* key pairs that can be generated
    Scopes,         \* the values of cert.store_scope in use
    TakeTurns       \* TRUE: operations of two Managers do not overlap

VARIABLES
    certFile,       \* root certificate file
    keyFile,        \* root key file
    store,          \* store[s]: project roots in the Root store of scope s
    mem,            \* mem[m]: rootCert and rootKey, once loaded
    task            \* task[m]: the operation in progress

certVars == <<certFile, keyFile, store, mem, task>>

ASSUME ManagerAssumption ==
    /\ Scopes \subseteq {"machine", "user"}
    /\ TakeTurns \in BOOLEAN
    /\ Pair \cap {"none", "torn"} = {}

NotLoaded == [cert |-> "none", key |-> "none"]

Free == [op |-> "none", scope |-> "none", pc |-> "free", cert |-> "none"]

(* Pairs nobody has generated yet. *)
Unused ==
    Pair \ (UNION {store["machine"], store["user"], {certFile, keyFile},
                   {mem[m].cert : m \in Manager}, {mem[m].key : m \in Manager},
                   {task[m].cert : m \in Manager}})

CertInit ==
    /\ certFile = "none"
    /\ keyFile = "none"
    /\ store = [s \in {"machine", "user"} |-> {}]
    /\ mem = [m \in Manager |-> NotLoaded]
    /\ task = [m \in Manager |-> Free]

TaskGoto(m, pc) == task' = [task EXCEPT ![m].pc = pc]

Over(m) == task[m].pc \in {"free", "ok", "err"}

-----------------------------------------------------------------------------
\* EnsureTrusted, Uninstall or Certificate is called.  A pair in memory is used.
Begin(m, op, s) ==
    /\ Over(m)
    /\ TakeTurns => \A n \in Manager : Over(n)
    /\ task' = [task EXCEPT ![m] =
                  [op |-> op, scope |-> s, cert |-> "none",
                   pc |-> IF mem[m] = NotLoaded THEN "loadCert"
                          ELSE IF op = "serve" THEN "ok" ELSE "check"]]
    /\ UNCHANGED <<certFile, keyFile, store, mem>>

(* ErrNoCA: a new CA for EnsureTrusted and Certificate, an error for       *)
(* Uninstall.                                                              *)
NoCA(m) == TaskGoto(m, IF task[m].op = "uninstall" THEN "err" ELSE "generate")

\* Mutant: an unreadable certificate is taken for a missing one.
LoadCertOrRenew(m) ==
    /\ task[m].pc = "loadCert"
    /\ \/ NoCA(m)
       \/ certFile # "none" /\ task' = [task EXCEPT ![m].pc = "loadKey", ![m].cert = certFile]
    /\ UNCHANGED <<certFile, keyFile, store, mem>>

\* loadRootKeypairLocked reads the two files one after the other.
LoadCert(m) ==
    /\ task[m].pc = "loadCert"
    /\ \/ certFile = "none" /\ NoCA(m)
       \/ certFile # "none" /\ task' = [task EXCEPT ![m].pc = "loadKey", ![m].cert = certFile]
       \/ TaskGoto(m, "err")
    /\ UNCHANGED <<certFile, keyFile, store, mem>>

Loaded(m) == TaskGoto(m, IF task[m].op = "serve" THEN "ok" ELSE "check")

\* Mutant: a missing key is generated on its own, the certificate kept.
LoadKeyOrRenew(m) ==
    /\ task[m].pc = "loadKey"
    /\ \/ /\ keyFile = "none"
          /\ \E g \in Unused : task' = [task EXCEPT ![m].pc = "openKey", ![m].cert = g]
          /\ UNCHANGED mem
       \/ /\ "none" # keyFile /\ "torn" \notin {keyFile, task[m].cert}
          /\ mem' = [mem EXCEPT ![m] = [cert |-> task[m].cert, key |-> keyFile]]
          /\ Loaded(m)
       \/ TaskGoto(m, "err") /\ UNCHANGED mem
    /\ UNCHANGED <<certFile, keyFile, store>>

LoadKey(m) ==
    /\ task[m].pc = "loadKey"
    /\ \/ keyFile = "none" /\ NoCA(m) /\ UNCHANGED mem
       \/ /\ keyFile # "none"
          /\ "torn" \in {keyFile, task[m].cert}
          /\ TaskGoto(m, "err") /\ UNCHANGED mem
       \/ /\ keyFile # "none"
          /\ "torn" \notin {keyFile, task[m].cert}
          /\ mem' = [mem EXCEPT ![m] = [cert |-> task[m].cert, key |-> keyFile]]
          /\ Loaded(m)
       \/ TaskGoto(m, "err") /\ UNCHANGED mem
    /\ UNCHANGED <<certFile, keyFile, store>>

Generate(m) ==
    /\ task[m].pc = "generate"
    /\ \/ \E g \in Unused :
             task' = [task EXCEPT ![m].pc = "openCert", ![m].cert = g]
       \/ TaskGoto(m, "err")
    /\ UNCHANGED <<certFile, keyFile, store, mem>>

\* writePEMFile: open with O_TRUNC, then encode; the certificate first.
OpenCert(m) ==
    /\ task[m].pc = "openCert"
    /\ \/ certFile' = "torn" /\ TaskGoto(m, "writeCert")
       \/ certFile' = certFile /\ TaskGoto(m, "err")
    /\ UNCHANGED <<keyFile, store, mem>>

WriteCert(m) ==
    /\ task[m].pc = "writeCert"
    /\ \/ certFile' = task[m].cert /\ TaskGoto(m, "openKey")
       \/ certFile' = certFile /\ TaskGoto(m, "err")
    /\ UNCHANGED <<keyFile, store, mem>>

OpenKey(m) ==
    /\ task[m].pc = "openKey"
    /\ \/ keyFile' = "torn" /\ TaskGoto(m, "writeKey")
       \/ keyFile' = keyFile /\ TaskGoto(m, "err")
    /\ UNCHANGED <<certFile, store, mem>>

WriteKey(m) ==
    /\ task[m].pc = "writeKey"
    /\ \/ /\ keyFile' = task[m].cert
          /\ mem' = [mem EXCEPT ![m] = [cert |-> task[m].cert, key |-> task[m].cert]]
          /\ Loaded(m)
       \/ keyFile' = keyFile /\ TaskGoto(m, "err") /\ UNCHANGED mem
    /\ UNCHANGED <<certFile, store>>

\* platform.IsInstalled looks in the configured scope only.
Check(m) ==
    LET installed == mem[m].cert \in store[task[m].scope]
    IN  /\ task[m].pc = "check"
        /\ \/ TaskGoto(m, CASE task[m].op = "trust"     -> IF installed THEN "ok" ELSE "install"
                            [] task[m].op = "uninstall" -> IF installed THEN "remove" ELSE "ok")
           \/ TaskGoto(m, "err")
        /\ UNCHANGED <<certFile, keyFile, store, mem>>

\* Mutant: a failed installation is reported as done.
InstallUnchecked(m) ==
    /\ task[m].pc = "install"
    /\ \/ store' = [store EXCEPT ![task[m].scope] = @ \cup {mem[m].cert}]
       \/ UNCHANGED store
    /\ TaskGoto(m, "ok")
    /\ UNCHANGED <<certFile, keyFile, mem>>

\* The store API; else .NET, which adds the file's certificate; else, for the
\* machine scope, .NET on the user's store.
Install(m) ==
    /\ task[m].pc = "install"
    /\ \/ /\ store' = [store EXCEPT ![task[m].scope] = @ \cup {mem[m].cert}]
          /\ TaskGoto(m, "ok")
       \/ /\ certFile \in Pair
          /\ \E s \in {task[m].scope, "user"} :
                store' = [store EXCEPT ![s] = @ \cup {certFile}]
          /\ TaskGoto(m, "ok")
       \/ UNCHANGED store /\ TaskGoto(m, "err")
    /\ UNCHANGED <<certFile, keyFile, mem>>

\* Removal has the same fallbacks, and finding nothing to remove is success.
RemoveRoot(m) ==
    /\ task[m].pc = "remove"
    /\ \/ /\ \E s \in {task[m].scope, "user"} :
                store' = [store EXCEPT ![s] = @ \ {mem[m].cert}]
          /\ TaskGoto(m, "ok")
       \/ UNCHANGED store /\ TaskGoto(m, "err")
    /\ UNCHANGED <<certFile, keyFile, mem>>

\* The process ends, at any point.
End(m) ==
    /\ task[m] # Free
    /\ task' = [task EXCEPT ![m] = Free]
    /\ mem' = [mem EXCEPT ![m] = NotLoaded]
    /\ UNCHANGED <<certFile, keyFile, store>>

CertNext ==
    \E m \in Manager :
        \/ \E op \in {"trust", "uninstall", "serve"}, s \in Scopes : Begin(m, op, s)
        \/ LoadCert(m) \/ LoadKey(m) \/ Generate(m)
        \/ OpenCert(m) \/ WriteCert(m) \/ OpenKey(m) \/ WriteKey(m)
        \/ Check(m) \/ Install(m) \/ RemoveRoot(m) \/ End(m)

CertSpec == CertInit /\ [][CertNext]_certVars

-----------------------------------------------------------------------------
(* A Manager never signs with a key that does not belong to its root       *)
(* certificate, although the two files are read and written one by one and *)
(* the process may die between any two steps: ensureRootKeypairLocked      *)
(* replaces a half-written pair as a whole.                                *)
MatchingPair == \A m \in Manager : mem[m].cert = mem[m].key

(* A CA that is complete on disk is never replaced, so the root a user has *)
(* trusted stays the one that signs.                                       *)
CompletePairKept ==
    [][{certFile, keyFile} \subseteq Pair =>
          certFile' = certFile /\ keyFile' = keyFile]_certVars

Succeeds(m, op) ==
    task[m].op = op /\ ~Over(m) /\ task'[m].pc = "ok"

InSomeStore(c) == c \in store["machine"] \cup store["user"]

(* EnsureTrusted succeeds only when the root that signs, in this process   *)
(* and in the next one that loads the files, is in one of the Root stores. *)
TrustedIsServed ==
    [][\A m \in Manager : Succeeds(m, "trust") =>
          InSomeStore(mem[m].cert)' /\ certFile = mem[m].cert]_certVars
=============================================================================
