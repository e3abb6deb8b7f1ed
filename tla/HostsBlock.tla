------------------------------ MODULE HostsBlock ------------------------------
(***************************************************************************)
(* The text of the hosts file and the managed block inside it              *)
(* (internal/hosts/hosts.go).  The file is the sequence of the lines that  *)
(* splitting it at line feeds gives, so a file that ends with a line feed  *)
(* ends with an empty line; CR LF counts as a line feed, which is what     *)
(* removeManagedBlock makes of it.  Apply replaces the block, Restore      *)
(* takes it out, and between the two the user edits the lines around it.   *)
(* SystemChange models when the file is written and what a crash leaves;   *)
(* this module models what is written.                                     *)
(***************************************************************************)
EXTENDS Naturals, Sequences, Loops

CONSTANTS
    UserLine,   \* the lines a user writes; neither empty nor a marker
    Blocks,     \* the sequences of entries a configuration asks for
    MaxLines    \* bound: lines outside the block when the user adds one

VARIABLES
    file,       \* the lines of the hosts file
    mine,       \* history: the user's lines, in their order
    applied     \* the entries of the block in force, <<>> when there is none

hostsVars == <<file, mine, applied>>

Empty == ""
MarkerStart == "start"
MarkerEnd == "end"
Notice == "managed by"

\* A line stands for its text and who wrote it: the scan tells no lines apart
\* but markers and empty ones, so a user's line may well read like an entry.
ASSUME HostsAssumption ==
    /\ UserLine \cap {Empty, MarkerStart, MarkerEnd, Notice} = {}
    /\ \A es \in Blocks :
          /\ es \in Seq(Range(es))
          /\ Range(es) \cap (UserLine \cup {Empty, MarkerStart, MarkerEnd}) = {}

-----------------------------------------------------------------------------

\* TrimRight of the line feeds: the empty lines at the end go.
TrimRight(ls) ==
    LET kept == {i \in DOMAIN ls : ls[i] # Empty}
    IN  SubSeq(ls, 1, IF kept = {} THEN 0 ELSE CHOOSE i \in kept : \A j \in kept : j <= i)

\* A scan that forgets to leave the block at its end marker.
ScanLineToTheEnd(acc, line) ==
    IF line = MarkerStart THEN [acc EXCEPT !.inBlock = TRUE]
    ELSE IF acc.inBlock THEN acc
    ELSE [acc EXCEPT !.out = Append(@, line)]

\* One line of the scan in removeManagedBlock.
ScanLine(acc, line) ==
    IF line = MarkerStart THEN [acc EXCEPT !.inBlock = TRUE]
    ELSE IF acc.inBlock THEN [acc EXCEPT !.inBlock = line # MarkerEnd]
    ELSE [acc EXCEPT !.out = Append(@, line)]

\* The scan: the lines outside blocks, and whether it ends inside one.
Scan(ls) ==
    LoopOver([line \in Range(ls) |->
                 [acc \in [out : Seq(Range(ls)), inBlock : BOOLEAN] |-> ScanLine(acc, line)]],
             [out |-> <<>>, inBlock |-> FALSE], ls)

\* removeManagedBlock without its trimming.
RemoveUntrimmed(ls) == Scan(ls).out

\* What is left of the file without the block; nothing (an empty file) or
\* lines closed by one line feed.
RemoveManagedBlock(ls) ==
    LET base == TrimRight(Scan(ls).out)
    IN  IF base = <<>> THEN <<Empty>> ELSE Append(base, Empty)

RenderBlock(es) == <<MarkerStart, Notice>> \o es \o <<MarkerEnd, Empty>>

AppendManagedBlock(ls, es) ==
    LET base == TrimRight(RemoveManagedBlock(ls))
    IN  IF base = <<>> THEN RenderBlock(es) ELSE base \o <<Empty>> \o RenderBlock(es)

-----------------------------------------------------------------------------

HostsInit ==
    /\ file = <<Empty>>
    /\ mine = <<>>
    /\ applied = <<>>

\* ApplyWithPlatform: validateConfig refuses an empty block; it may be called
\* again over its own block (a restart after a crash, new entries).
Apply(es) ==
    /\ es # <<>>
    /\ file' = AppendManagedBlock(file, es)
    /\ applied' = es
    /\ UNCHANGED mine

\* RestoreWithPlatform; without rollback state it returns ErrNoState and
\* leaves the file alone.
Restore ==
    /\ applied # <<>>
    /\ file' = RemoveManagedBlock(file)
    /\ applied' = <<>>
    /\ UNCHANGED mine

\* The lines between the markers, the markers included: what the notice asks
\* the user not to edit.
InBlock(i) ==
    \E s, e \in DOMAIN file : /\ file[s] = MarkerStart /\ file[e] = MarkerEnd
                              /\ s <= i /\ i <= e

\* The bound on what the user adds.
Room == Len(Keep(file, UserLine \cup {Empty})) < MaxLines

LinesBefore(i) == SubSeq(file, 1, i - 1)
LinesFrom(i) == SubSeq(file, i, Len(file))

\* The user writes a line before position i, not inside the block.
UserInsert(i, line) ==
    /\ Room
    /\ ~(InBlock(i) /\ InBlock(i - 1))
    /\ file' = LinesBefore(i) \o <<line>> \o LinesFrom(i)
    /\ mine' = Keep(file', UserLine)
    /\ UNCHANGED applied

\* The user inserts an empty line.
UserSpace(i) ==
    /\ ~(InBlock(i) /\ InBlock(i - 1))
    /\ Room
    /\ file' = LinesBefore(i) \o <<Empty>> \o LinesFrom(i)
    /\ UNCHANGED <<mine, applied>>

\* The user deletes a line outside the block.
UserDelete(i) ==
    /\ ~InBlock(i)
    /\ Len(file) > 1
    /\ file' = LinesBefore(i) \o LinesFrom(i + 1)
    /\ mine' = Keep(file', UserLine)
    /\ UNCHANGED applied

HostsNext ==
    \/ \E es \in Blocks : Apply(es)
    \/ Restore
    \/ \E i \in DOMAIN file :
         \/ \E line \in UserLine : UserInsert(i, line)
         \/ UserSpace(i)
         \/ UserDelete(i)

HostsSpec == HostsInit /\ [][HostsNext]_hostsVars

-----------------------------------------------------------------------------

\* However Apply and Restore alternate with the user's edits, the file holds
\* the lines the user wrote, none lost, invented or reordered, and exactly the
\* block in force: one pair of markers around the entries last asked for, and
\* no trace of a block once it is restored.
UserLinesKept ==
    LET block == Keep(file, Range(file) \ (UserLine \cup {Empty}))
    IN  /\ Keep(file, UserLine) = mine
        /\ block = IF applied = <<>> THEN <<>>
                   ELSE <<MarkerStart, Notice>> \o applied \o <<MarkerEnd>>

\* Applying and restoring is the same as restoring, and applying twice the
\* same as applying once: the file does not grow over a long sequence of
\* starts and stops (the blank line in front of the block is taken out again).
RoundTrip ==
    \A es \in Blocks :
        LET on == AppendManagedBlock(file, es)
        IN  /\ RemoveManagedBlock(on) = RemoveManagedBlock(file)
            /\ AppendManagedBlock(on, es) = on
=============================================================================
