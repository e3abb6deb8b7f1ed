--------------------------- MODULE GuardedChange ----------------------------
(***************************************************************************)
(* What Apply and Restore promise together, whatever the platform: a part  *)
(* of the system is taken over only while the user's value for it is on    *)
(* record, and the record goes only when nothing it covers is still taken  *)
(* over.  A value is lost if a record that is still needed is dropped, or  *)
(* written over, and if it is read wrongly when it is recorded; it is no   *)
(* longer lost once it is on record again.                                 *)
(*                                                                         *)
(* SystemChange (Windows) and MacProxy (macOS) are shown to implement this *)
(* specification.                                                          *)
(***************************************************************************)
CONSTANT Part

VARIABLES
    taken,          \* parts that do not have the user's value
    recorded,       \* parts whose user value is in the rollback file
    lost            \* parts the record does not have, or has wrong

guardVars == <<taken, recorded, lost>>

GuardInit == taken = {} /\ recorded = {} /\ lost = {}

\* A new record; nothing else is waiting for one.
Record ==
    /\ recorded = {} /\ taken \subseteq lost
    /\ recorded' \in SUBSET Part
    /\ lost' \subseteq lost \cup Part
    /\ lost \subseteq lost' \cup recorded'
    /\ UNCHANGED taken

Drop ==
    /\ lost' = lost \cup taken
    /\ recorded' = {}
    /\ UNCHANGED taken

Take(p) ==
    /\ p \in recorded \cup lost
    /\ taken' = taken \cup {p}
    /\ UNCHANGED <<recorded, lost>>

Release(p) ==
    /\ taken' = taken \ {p}
    /\ UNCHANGED <<recorded, lost>>

Forget ==
    /\ taken \subseteq lost
    /\ recorded' = {}
    /\ UNCHANGED <<taken, lost>>

\* The user chooses anew, there being no record.
Settle ==
    /\ recorded = {}
    /\ taken' = {} /\ lost' = {}
    /\ UNCHANGED recorded

GuardNext ==
    \/ Record \/ Drop \/ Forget \/ Settle
    \/ \E p \in Part : Take(p) \/ Release(p)

GuardSpec == GuardInit /\ [][GuardNext]_guardVars
=============================================================================
