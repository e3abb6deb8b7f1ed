----------------------------- MODULE HostProofs -----------------------------
(***************************************************************************)
(* Proofs about the two parts that compare and rewrite text: HostsBlock,   *)
(* for files of any lines, edits and entries, and Rules, for any labels,   *)
(* spelt with any characters but the dot, and any list of rules.           *)
(***************************************************************************)
EXTENDS HostsBlock, Rules, Induction, TLAPS

-----------------------------------------------------------------------------
(* The hosts file: the scan of removeManagedBlock *)

(* One line of the scan, for each kind of line. *)
LEMMA LineStart ==
    ASSUME NEW o, NEW i
    PROVE  ScanLine([out |-> o, inBlock |-> i], MarkerStart) = [out |-> o, inBlock |-> TRUE]
  BY Zenon DEF ScanLine

LEMMA LineOutside ==
    ASSUME NEW o, NEW x, x # MarkerStart
    PROVE  ScanLine([out |-> o, inBlock |-> FALSE], x) = [out |-> Append(o, x), inBlock |-> FALSE]
  BY Zenon DEF ScanLine

LEMMA LineInside ==
    ASSUME NEW o, NEW x, x # MarkerStart, x # MarkerEnd
    PROVE  ScanLine([out |-> o, inBlock |-> TRUE], x) = [out |-> o, inBlock |-> TRUE]
  BY Zenon DEF ScanLine

LEMMA LineEnd ==
    ASSUME NEW o
    PROVE  ScanLine([out |-> o, inBlock |-> TRUE], MarkerEnd) = [out |-> o, inBlock |-> FALSE]
<1>1. MarkerEnd # MarkerStart
  BY DEF MarkerEnd, MarkerStart
<1> QED BY <1>1, Zenon DEF ScanLine

(* What the scan holds, and that it holds it after one more line. *)
ScanState(D) == {[out |-> o, inBlock |-> TRUE] : o \in Seq(D)} \cup {[out |-> o, inBlock |-> FALSE] : o \in Seq(D)}

LEMMA ScanStates == \A D : ScanState(D) = [out : Seq(D), inBlock : BOOLEAN]
<1> SUFFICES ASSUME NEW D PROVE ScanState(D) = [out : Seq(D), inBlock : BOOLEAN]
  OBVIOUS
<1>1. ASSUME NEW r \in [out : Seq(D), inBlock : BOOLEAN] PROVE r \in ScanState(D)
  <2>1. r = [out |-> r.out, inBlock |-> r.inBlock] /\ r.out \in Seq(D) /\ r.inBlock \in BOOLEAN
    OBVIOUS
  <2> QED BY <2>1, Zenon DEF ScanState
<1>2. ASSUME NEW r \in ScanState(D) PROVE r \in [out : Seq(D), inBlock : BOOLEAN]
  <2>1. PICK o \in Seq(D), i \in {TRUE, FALSE} : r = [out |-> o, inBlock |-> i]
    BY <1>2, Zenon DEF ScanState
  <2> QED BY <2>1, Zenon
<1> QED BY <1>1, <1>2, Zenon

LEMMA LineState ==
    ASSUME NEW D, NEW acc \in ScanState(D), NEW x \in D
    PROVE  ScanLine(acc, x) \in ScanState(D)
<1>1. ASSUME NEW o \in Seq(D), acc = [out |-> o, inBlock |-> TRUE] PROVE ScanLine(acc, x) \in ScanState(D)
  <2>1. \/ ScanLine(acc, x) = [out |-> o, inBlock |-> TRUE]
        \/ ScanLine(acc, x) = [out |-> o, inBlock |-> FALSE]
    BY <1>1, LineStart, LineInside, LineEnd
  <2> QED BY <2>1, Zenon DEF ScanState
<1>2. ASSUME NEW o \in Seq(D), acc = [out |-> o, inBlock |-> FALSE] PROVE ScanLine(acc, x) \in ScanState(D)
  <2>1. \/ ScanLine(acc, x) = [out |-> o, inBlock |-> TRUE]
        \/ ScanLine(acc, x) = [out |-> Append(o, x), inBlock |-> FALSE]
    BY <1>2, LineStart, LineOutside
  <2>2. Append(o, x) \in Seq(D)
    OBVIOUS
  <2> QED BY <2>1, <2>2, Zenon DEF ScanState
<1> QED BY <1>1, <1>2, Zenon DEF ScanState

LEMMA ScanEmpty == Scan(<<>>) = [out |-> <<>>, inBlock |-> FALSE]
  BY LoopEmpty, Zenon DEF Scan

LEMMA ScanAppend ==
    ASSUME NEW B, NEW s \in Seq(B), NEW x
    PROVE  /\ Scan(s) \in [out : Seq(Range(s)), inBlock : BOOLEAN]
           /\ Scan(Append(s, x)) = ScanLine(Scan(s), x)
<1> DEFINE R == Range(s)
           R2 == Range(Append(s, x))
           Acc(D) == [out : Seq(D), inBlock : BOOLEAN]
           F(D) == [line \in D |-> [acc \in Acc(D) |-> ScanLine(acc, line)]]
           start == [out |-> <<>>, inBlock |-> FALSE]
<1>1. Scan(s) = LoopOver(F(R), start, s) /\ Scan(Append(s, x)) = LoopOver(F(R2), start, Append(s, x))
  BY Zenon DEF Scan
<1>2. s \in Seq(R) /\ R2 = R \cup {x}
  BY RangeOfSeq, RangeAppend, Zenon
<1> HIDE DEF R, R2
<1>3. Acc(R) \subseteq Acc(R2) /\ start \in Acc(R) /\ x \in R2 /\ R \subseteq R2
  BY <1>2
<1>4. ASSUME NEW D PROVE F(D) \in [D -> [Acc(D) -> Acc(D)]]
  <2>1. ASSUME NEW line \in D, NEW acc \in Acc(D) PROVE ScanLine(acc, line) \in Acc(D)
    <3>1. Acc(D) = ScanState(D)
      BY ScanStates, Zenon
    <3> QED BY <3>1, LineState, Zenon
  <2> HIDE DEF Acc
  <2> QED BY <2>1
<1> HIDE DEF Acc, start
<1>5. \A b \in R, a \in Acc(R) : F(R2)[b][a] = F(R)[b][a]
  BY <1>3
<1>6. \A a \in Acc(R2) : F(R2)[x][a] = ScanLine(a, x)
  BY <1>3
<1> HIDE DEF F
<1>7. /\ LoopOver(F(R), start, s) \in Acc(R)
      /\ LoopOver(F(R2), start, Append(s, x)) = F(R2)[x][LoopOver(F(R), start, s)]
  <2> DEFINE f == F(R)
             g == F(R2)
             A == Acc(R)
  <2>1. LoopIn(A, R, f, start, s)
    BY <1>2, <1>3, <1>4 DEF LoopIn
  <2>2. Extends(g, f, A, R)
    BY <1>5 DEF Extends
  <2> HIDE DEF f, g, A
  <2>3. LoopOver(f, start, s) \in A /\ LoopOver(g, start, Append(s, x)) = g[x][LoopOver(f, start, s)]
    BY <2>1, <2>2, LoopAppend
  <2> QED BY <2>3 DEF f, g, A
<1> QED BY <1>1, <1>3, <1>6, <1>7 DEF R, Acc

LEMMA ScanFacts ==
    ASSUME NEW B, NEW s \in Seq(B)
    PROVE  Scan(s) \in [out : Seq(B), inBlock : BOOLEAN]
<1>1. Scan(s) \in [out : Seq(Range(s)), inBlock : BOOLEAN]
  BY ScanAppend
<1>2. Seq(Range(s)) \subseteq Seq(B)
  BY RangeOfSeq
<1> QED BY <1>1, <1>2

(* Outside a block, lines that start none are kept. *)
LEMMA ScanPlain ==
    ASSUME NEW B, NEW s \in Seq(B), ~Scan(s).inBlock, NEW t \in Seq(B), MarkerStart \notin Range(t)
    PROVE  Scan(s \o t) = [out |-> Scan(s).out \o t, inBlock |-> FALSE]
<1> DEFINE P == B \ {MarkerStart}
           T == {u \in Seq(P) : Scan(s \o u) = [out |-> Scan(s).out \o u, inBlock |-> FALSE]}
<1>0. Scan(s) \in [out : Seq(B), inBlock : BOOLEAN]
  BY ScanFacts
<1>1. <<>> \in T
  <2>1. s \o <<>> = s /\ Scan(s).out \o <<>> = Scan(s).out /\ <<>> \in Seq(P)
    BY <1>0
  <2>2. Scan(s) = [out |-> Scan(s).out, inBlock |-> FALSE]
    BY <1>0
  <2> QED BY <2>1, <2>2, Zenon
<1>2. ASSUME NEW u \in Seq(P), NEW x \in P, u \in T PROVE Append(u, x) \in T
  <2>0. u \in Seq(B) /\ x \in B /\ x # MarkerStart /\ Append(u, x) \in Seq(P)
    OBVIOUS
  <2>1. s \o Append(u, x) = Append(s \o u, x) /\ s \o u \in Seq(B)
    BY <2>0, AppendConcat, Zenon
  <2>2. Scan(Append(s \o u, x)) = ScanLine(Scan(s \o u), x)
    BY <2>1, ScanAppend, Zenon
  <2> DEFINE o == Scan(s).out
  <2>3. Scan(s \o u) = [out |-> o \o u, inBlock |-> FALSE] /\ o \in Seq(B)
    BY <1>0, <1>2
  <2> HIDE DEF o
  <2>4. ScanLine([out |-> o \o u, inBlock |-> FALSE], x) = [out |-> Append(o \o u, x), inBlock |-> FALSE]
    BY <2>0, Zenon DEF ScanLine
  <2>5. Append(o \o u, x) = o \o Append(u, x)
    <3>1. o \in Seq(B) /\ u \in Seq(B) /\ x \in B
      BY <2>0, <2>3
    <3>2. o \o Append(u, x) = Append(o \o u, x)
      BY <3>1, AppendConcat
    <3> QED BY <3>2
  <2>6. Scan(s \o Append(u, x)) = [out |-> o \o Append(u, x), inBlock |-> FALSE]
    BY <2>1, <2>2, <2>3, <2>4, <2>5
  <2> QED BY <2>0, <2>6, Zenon DEF o
<1>3. Seq(P) \subseteq T
  <2> HIDE DEF T
  <2> QED BY <1>1, <1>2, SeqInduct, Zenon
<1>4. t \in Seq(P)
  <2>1. \A i \in 1..Len(t) : t[i] \in P
    BY DEF Range
  <2> QED BY <2>1
<1> QED BY <1>3, <1>4

(* Inside a block, lines up to its end are dropped. *)
LEMMA ScanInside ==
    ASSUME NEW B, NEW s \in Seq(B), Scan(s).inBlock, NEW t \in Seq(B), MarkerEnd \notin Range(t)
    PROVE  Scan(s \o t) = Scan(s)
<1> DEFINE P == B \ {MarkerEnd}
           T == {u \in Seq(P) : Scan(s \o u) = Scan(s)}
<1>0. Scan(s) \in [out : Seq(B), inBlock : BOOLEAN]
  BY ScanFacts
<1>1. <<>> \in T
  <2>1. s \o <<>> = s /\ <<>> \in Seq(P)
    OBVIOUS
  <2> QED BY <2>1
<1>2. ASSUME NEW u \in Seq(P), NEW x \in P, u \in T PROVE Append(u, x) \in T
  <2>0. u \in Seq(B) /\ x \in B /\ x # MarkerEnd /\ Append(u, x) \in Seq(P)
    OBVIOUS
  <2>1. s \o Append(u, x) = Append(s \o u, x) /\ s \o u \in Seq(B)
    BY <2>0, AppendConcat
  <2>2. Scan(Append(s \o u, x)) = ScanLine(Scan(s), x)
    BY <1>2, <2>1, ScanAppend, Zenon
  <2>3. ScanLine(Scan(s), x) = Scan(s)
    BY <1>0, <2>0 DEF ScanLine
  <2> QED BY <2>0, <2>1, <2>2, <2>3, Zenon
<1>3. Seq(P) \subseteq T
  <2> HIDE DEF T
  <2> QED BY <1>1, <1>2, SeqInduct
<1>4. t \in Seq(P)
  <2>1. \A i \in 1..Len(t) : t[i] \in P
    BY DEF Range
  <2> QED BY <2>1
<1> QED BY <1>3, <1>4

(* A block between plain lines goes, and the lines around it stay. *)
Block(es) == <<MarkerStart, Notice>> \o es \o <<MarkerEnd>>

LEMMA ScanBlock ==
    ASSUME NEW B, {MarkerStart, Notice, MarkerEnd} \subseteq B, MarkerEnd # Notice,
           NEW b \in Seq(B), MarkerStart \notin Range(b),
           NEW a \in Seq(B), MarkerStart \notin Range(a),
           NEW es \in Seq(B), MarkerEnd \notin Range(es)
    PROVE  Scan(b \o Block(es) \o a).out = b \o a
<1>0. Scan(<<>>) = [out |-> <<>>, inBlock |-> FALSE] /\ <<>> \in Seq(B)
  BY ScanEmpty
<1>1. Scan(b) = [out |-> b, inBlock |-> FALSE]
  <2>1. ~Scan(<<>>).inBlock /\ Scan(<<>>).out = <<>>
    BY <1>0
  <2>2. Scan(<<>> \o b) = [out |-> <<>> \o b, inBlock |-> FALSE]
    BY <1>0, <2>1, ScanPlain, Zenon
  <2>3. <<>> \o b = b
    OBVIOUS
  <2> QED BY <2>2, <2>3
<1> DEFINE s1 == Append(b, MarkerStart)
           s2 == Append(s1, Notice)
           s3 == s2 \o es
           s4 == Append(s3, MarkerEnd)
<1>2. s1 \in Seq(B) /\ s2 \in Seq(B) /\ s3 \in Seq(B) /\ s4 \in Seq(B)
  OBVIOUS
<1>3. b \o Block(es) \o a = s4 \o a
  <2>1. b \o Block(es) \o a = (b \o Block(es)) \o a
    OBVIOUS
  <2> DEFINE h == <<MarkerStart, Notice>>
  <2>2. h \in Seq(B) /\ <<MarkerEnd>> \in Seq(B)
    OBVIOUS
  <2>3. s2 = b \o h
    OBVIOUS
  <2> HIDE DEF h, s2
  <2>4. s4 = (s2 \o es) \o <<MarkerEnd>>
    BY <1>2
  <2>5. b \o ((h \o es) \o <<MarkerEnd>>) = ((b \o h) \o es) \o <<MarkerEnd>>
    BY <2>2
  <2> QED BY <2>3, <2>4, <2>5, Zenon DEF Block, h
<1> HIDE DEF s4, s3, s2, s1
<1>4. Scan(s1) = [out |-> b, inBlock |-> TRUE]
  <2>1. Scan(s1) = ScanLine(Scan(b), MarkerStart)
    BY ScanAppend DEF s1
  <2> QED BY <1>1, <2>1, LineStart
<1>5. Scan(s2) = [out |-> b, inBlock |-> TRUE]
  <2>1. Scan(s2) = ScanLine(Scan(s1), Notice)
    BY <1>2, ScanAppend DEF s2
  <2>2. Notice # MarkerStart
    BY Zenon DEF Notice, MarkerStart
  <2> QED BY <1>4, <2>1, <2>2, LineInside
<1>6. Scan(s3) = [out |-> b, inBlock |-> TRUE]
  <2>1. Scan(s2).inBlock
    BY <1>5
  <2>2. Scan(s2 \o es) = Scan(s2)
    BY <1>2, <2>1, ScanInside
  <2> QED BY <2>2, <1>5 DEF s3
<1>7. Scan(s4) = [out |-> b, inBlock |-> FALSE]
  <2>1. Scan(s4) = ScanLine(Scan(s3), MarkerEnd)
    BY <1>2, ScanAppend DEF s4
  <2> QED BY <1>6, <2>1, LineEnd
<1>8. Scan(s4 \o a) = [out |-> b \o a, inBlock |-> FALSE]
  <2>1. ~Scan(s4).inBlock /\ Scan(s4).out = b
    BY <1>7
  <2>2. Scan(s4 \o a) = [out |-> Scan(s4).out \o a, inBlock |-> FALSE]
    BY <1>2, <2>1, ScanPlain, Zenon
  <2> QED BY <2>1, <2>2
<1> QED BY <1>3, <1>8

(* No start marker survives the scan. *)
LEMMA ScanOut ==
    ASSUME NEW B, NEW s \in Seq(B)
    PROVE  Scan(s).out \in Seq(B \ {MarkerStart})
<1> DEFINE P == B \ {MarkerStart}
           T == {u \in Seq(B) : Scan(u).out \in Seq(P)}
<1>1. <<>> \in T
  <2>1. Scan(<<>>).out = <<>>
    BY ScanEmpty
  <2>2. <<>> \in Seq(P) /\ <<>> \in Seq(B)
    OBVIOUS
  <2> HIDE DEF P
  <2> QED BY <2>1, <2>2, Zenon
<1>2. ASSUME NEW u \in Seq(B), NEW x \in B, u \in T PROVE Append(u, x) \in T
  <2>1. Scan(Append(u, x)) = ScanLine(Scan(u), x) /\ Scan(u) \in [out : Seq(Range(u)), inBlock : BOOLEAN]
    BY ScanAppend
  <2>2. \/ ScanLine(Scan(u), x).out = Scan(u).out
        \/ x \in P /\ ScanLine(Scan(u), x).out = Append(Scan(u).out, x)
    <3>1. Scan(u) \in ScanState(Range(u))
      BY <2>1, ScanStates, Zenon
    <3>2. PICK o \in Seq(Range(u)) : Scan(u) = [out |-> o, inBlock |-> TRUE] \/ Scan(u) = [out |-> o, inBlock |-> FALSE]
      BY <3>1, Zenon DEF ScanState
    <3>3. Scan(u).out = o
      BY <3>2
    <3>4. CASE Scan(u) = [out |-> o, inBlock |-> TRUE]
      <4>1. \/ ScanLine(Scan(u), x) = [out |-> o, inBlock |-> TRUE]
            \/ ScanLine(Scan(u), x) = [out |-> o, inBlock |-> FALSE]
        BY <3>4, LineStart, LineInside, LineEnd
      <4>2. ScanLine(Scan(u), x).out = o
        BY <4>1
      <4> QED BY <3>3, <4>2, Zenon
    <3>5. CASE Scan(u) = [out |-> o, inBlock |-> FALSE]
      <4>1. CASE x = MarkerStart
        <5>1. ScanLine(Scan(u), x) = [out |-> o, inBlock |-> TRUE]
          BY <3>5, <4>1, LineStart
        <5>2. ScanLine(Scan(u), x).out = o
          BY <5>1
        <5> QED BY <3>3, <5>2, Zenon
      <4>2. CASE x # MarkerStart
        <5>1. ScanLine(Scan(u), x) = [out |-> Append(o, x), inBlock |-> FALSE]
          BY <3>5, <4>2, LineOutside, Zenon
        <5>2. ScanLine(Scan(u), x).out = Append(o, x) /\ x \in P
          BY <5>1, <4>2
        <5> QED BY <3>3, <5>2
      <4> QED BY <4>1, <4>2
    <3> QED BY <3>2, <3>4, <3>5
  <2>3. Scan(u).out \in Seq(P)
    BY <1>2
  <2>4. ScanLine(Scan(u), x).out \in Seq(P)
    <3> HIDE DEF P
    <3>1. \A o \in Seq(P), y \in P : Append(o, y) \in Seq(P)
      OBVIOUS
    <3> QED BY <2>2, <2>3, <3>1, Zenon
  <2> QED BY <2>1, <2>4
<1>3. Seq(B) \subseteq T
  <2> HIDE DEF T
  <2> QED BY <1>1, <1>2, SeqInduct
<1> QED BY <1>3

-----------------------------------------------------------------------------
(* The hosts file: trimming *)

LEMMA MaxExists ==
    ASSUME NEW n \in Nat, NEW S, S \subseteq 1..n, S # {}
    PROVE  \E i \in S : \A j \in S : j <= i
<1> DEFINE D == {n - i : i \in S}
<1>1. D \subseteq Nat /\ D # {}
  <2>1. ASSUME NEW i \in S PROVE n - i \in Nat
    OBVIOUS
  <2> QED BY <2>1, Zenon
<1>2. PICK d \in D : \A e \in D : d <= e
  <2> HIDE DEF D
  <2> QED BY <1>1, LeastExists, Zenon
<1>3. PICK i \in S : d = n - i
  OBVIOUS
<1>4. ASSUME NEW j \in S PROVE j <= i
  BY <1>2, <1>3
<1> QED BY <1>4

\* The positions of the lines that are not empty.
Full(ls) == {i \in DOMAIN ls : ls[i] # Empty}

LEMMA TrimEmpty == TrimRight(<<>>) = <<>>
  BY DEF TrimRight

LEMMA TrimAppend ==
    ASSUME NEW B, NEW s \in Seq(B), NEW x \in B
    PROVE  TrimRight(Append(s, x)) = IF x = Empty THEN TrimRight(s) ELSE Append(s, x)
<1> DEFINE t == Append(s, x)
           n == Len(s)
           Top(S) == IF S = {} THEN 0 ELSE CHOOSE i \in S : \A j \in S : j <= i
<1>0. n \in Nat /\ DOMAIN s = 1..n /\ DOMAIN t = 1..n + 1 /\ t \in Seq(B) /\ t[n + 1] = x
      /\ \A i \in 1..n : t[i] = s[i]
  OBVIOUS
<1>1. TrimRight(s) = SubSeq(s, 1, Top(Full(s))) /\ TrimRight(t) = SubSeq(t, 1, Top(Full(t)))
  BY Zenon DEF TrimRight, Full
<1>2. CASE x = Empty
  <2>1. Full(t) = Full(s)
    BY <1>0, <1>2 DEF Full
  <2>2. Full(s) \subseteq 1..n
    BY <1>0 DEF Full
  <2>3. Top(Full(s)) \in 0..n
    <3> DEFINE S == Full(s)
    <3> HIDE DEF S
    <3>1. CASE S = {}
      <4>1. Top(S) = 0
        BY <3>1
      <4> HIDE DEF Top
      <4> QED BY <1>0, <4>1 DEF S
    <3>2. CASE S # {}
      <4>1. \E i \in S : \A j \in S : j <= i
        BY <1>0, <2>2, <3>2, MaxExists, Zenon DEF S
      <4>2. Top(S) \in S
        BY <3>2, <4>1
      <4> HIDE DEF Top
      <4> QED BY <4>2, <2>2, <1>0 DEF S
    <3> QED BY <3>1, <3>2 DEF S
  <2> DEFINE m == Top(Full(s))
  <2> HIDE DEF m
  <2>4. SubSeq(t, 1, m) = SubSeq(s, 1, m)
    <3>1. m \in 0..Len(s)
      BY <2>3 DEF m
    <3> QED BY <3>1
  <2> QED BY <1>1, <1>2, <2>1, <2>4, Zenon DEF m
<1>3. CASE x # Empty
  <2>1. n + 1 \in Full(t) /\ Full(t) \subseteq 1..n + 1
    BY <1>0, <1>3 DEF Full
  <2>2. Top(Full(t)) = n + 1
    <3> DEFINE S == Full(t)
    <3> HIDE DEF S, n
    <3>1. n + 1 \in S /\ S \subseteq 1..n + 1 /\ n \in Nat
      BY <2>1, <1>0 DEF S
    <3>2. \A j \in S : j <= n + 1
      BY <3>1
    <3>3. \A i \in S : (\A j \in S : j <= i) => i = n + 1
      BY <3>1
    <3> QED BY <3>1, <3>2, <3>3 DEF S
  <2>3. SubSeq(t, 1, n + 1) = t
    BY <1>0
  <2> QED BY <1>1, <1>3, <2>2, <2>3, Zenon
<1> QED BY <1>2, <1>3

(* Trimming again changes nothing. *)
LEMMA TrimFacts ==
    ASSUME NEW B, NEW s \in Seq(B)
    PROVE  TrimRight(s) \in Seq(B) /\ TrimRight(TrimRight(s)) = TrimRight(s)
<1> DEFINE T == {u \in Seq(B) : TrimRight(u) \in Seq(B) /\ TrimRight(TrimRight(u)) = TrimRight(u)}
<1>1. <<>> \in T
  <2>1. <<>> \in Seq(B)
    OBVIOUS
  <2> QED BY <2>1, TrimEmpty, Zenon
<1>2. ASSUME NEW u \in Seq(B), NEW x \in B, u \in T PROVE Append(u, x) \in T
  <2>1. TrimRight(Append(u, x)) = IF x = Empty THEN TrimRight(u) ELSE Append(u, x)
    BY TrimAppend
  <2>2. Append(u, x) \in Seq(B)
    OBVIOUS
  <2> QED BY <1>2, <2>1, <2>2, Zenon
<1>3. Seq(B) \subseteq T
  <2> HIDE DEF T
  <2> QED BY <1>1, <1>2, SeqInduct
<1> QED BY <1>3

(* No line but empty ones goes. *)
LEMMA TrimKeep ==
    ASSUME NEW B, NEW s \in Seq(B), NEW S, Empty \notin S
    PROVE  Keep(TrimRight(s), S) = Keep(s, S)
<1> DEFINE T == {u \in Seq(B) : Keep(TrimRight(u), S) = Keep(u, S)}
<1>1. <<>> \in T
  <2>1. <<>> \in Seq(B)
    OBVIOUS
  <2> QED BY <2>1, TrimEmpty
<1>2. ASSUME NEW u \in Seq(B), NEW x \in B, u \in T PROVE Append(u, x) \in T
  <2>0. Append(u, x) \in Seq(B)
    OBVIOUS
  <2>1. TrimRight(Append(u, x)) = IF x = Empty THEN TrimRight(u) ELSE Append(u, x)
    BY TrimAppend
  <2>2. Keep(Append(u, x), S) = IF x \in S THEN Append(Keep(u, S), x) ELSE Keep(u, S)
    BY KeepAppend, Zenon
  <2>3. CASE x = Empty
    BY <1>2, <2>0, <2>1, <2>2, <2>3
  <2>4. CASE x # Empty
    BY <2>0, <2>1, <2>4, Zenon
  <2> QED BY <2>3, <2>4
<1>3. Seq(B) \subseteq T
  <2> HIDE DEF T
  <2> QED BY <1>1, <1>2, SeqInduct
<1> QED BY <1>3

-----------------------------------------------------------------------------
(* The hosts file: what Apply and Restore write *)

\* The lines the file can hold.
Line == UserLine \cup {Empty, MarkerStart, MarkerEnd, Notice} \cup UNION {Range(es) : es \in Blocks}

(* Two laws of concatenation, as predicates the provers can look up. *)
LEMMA LineAssoc3 ==
    ASSUME NEW p \in Seq(Line), NEW q \in Seq(Line), NEW u \in Seq(Line)
    PROVE  Assoc3(p, q, u) /\ p \o q \in Seq(Line)
<1>1. Assoc3(p, q, u)
  BY ConcatAssoc3, Zenon
<1>2. p \o q \in Seq(Line)
  OBVIOUS
<1> QED BY <1>1, <1>2, Zenon

Joins(p, q, S) == Keep(p \o q, S) = Keep(p, S) \o Keep(q, S)

LEMMA LineJoins ==
    ASSUME NEW p \in Seq(Line), NEW q \in Seq(Line), NEW S
    PROVE  Joins(p, q, S)
<1>1. Keep(p \o q, S) = Keep(p, S) \o Keep(q, S)
  BY KeepConcat
<1> QED BY <1>1, Zenon DEF Joins

LEMMA BlockLines ==
    ASSUME NEW es \in Blocks
    PROVE  /\ es \in Seq(Line) /\ MarkerEnd \notin Range(es)
           /\ Block(es) \in Seq(Line)
           /\ Block(es) \in Seq(Line \ (UserLine \cup {Empty}))
<1> DEFINE W == Line \ (UserLine \cup {Empty})
<1>1. es \in Seq(Range(es)) /\ Range(es) \cap (UserLine \cup {Empty, MarkerStart, MarkerEnd}) = {}
  BY HostsAssumption, Zenon
<1>2. Range(es) \subseteq Line
  BY Zenon DEF Line
<1>3. Range(es) \subseteq W
  BY <1>1, <1>2
<1>4. {MarkerStart, Notice, MarkerEnd} \subseteq W
  BY HostsAssumption, Zenon DEF Line, Empty, MarkerStart, MarkerEnd, Notice
<1> HIDE DEF W
<1>5. es \in Seq(W)
  BY <1>1, <1>3
<1>6. Block(es) \in Seq(W)
  BY <1>4, <1>5 DEF Block
<1>7. W \subseteq Line
  BY DEF W
<1>8. es \in Seq(Line) /\ Block(es) \in Seq(Line)
  BY <1>5, <1>6, <1>7
<1> QED BY <1>1, <1>6, <1>8 DEF W

\* The lines left of the file without the block, trimmed.
Base(ls) == TrimRight(Scan(ls).out)

LEMMA BaseFacts ==
    ASSUME NEW ls \in Seq(Line)
    PROVE  /\ Base(ls) \in Seq(Line \ {MarkerStart})
           /\ RemoveManagedBlock(ls) = Append(Base(ls), Empty)
           /\ TrimRight(Append(Base(ls), Empty)) = Base(ls)
           /\ TrimRight(Base(ls)) = Base(ls)
<1> DEFINE P == Line \ {MarkerStart}
<1>0. Empty \in P
  BY Zenon DEF Line, Empty, MarkerStart
<1>1. Scan(ls).out \in Seq(P)
  BY ScanOut
<1> HIDE DEF P
<1>2. Base(ls) \in Seq(P) /\ TrimRight(Base(ls)) = Base(ls)
  <2> DEFINE o == Scan(ls).out
  <2>1. o \in Seq(P)
    BY <1>1
  <2> HIDE DEF o
  <2>2. TrimRight(o) \in Seq(P) /\ TrimRight(TrimRight(o)) = TrimRight(o)
    BY <2>1, TrimFacts
  <2> QED BY <2>2 DEF o, Base
<1>3. TrimRight(Append(Base(ls), Empty)) = Base(ls)
  BY <1>0, <1>2, TrimAppend
<1>4. RemoveManagedBlock(ls) = Append(Base(ls), Empty)
  <2>1. CASE Base(ls) = <<>>
    BY <2>1 DEF RemoveManagedBlock, Base
  <2>2. CASE Base(ls) # <<>>
    BY <2>2 DEF RemoveManagedBlock, Base
  <2> QED BY <2>1, <2>2
<1> QED BY <1>2, <1>3, <1>4 DEF P

\* The lines in front of the block that Apply writes.
Front(base) == IF base = <<>> THEN <<>> ELSE Append(base, Empty)

LEMMA ApplyWrites ==
    ASSUME NEW ls \in Seq(Line), NEW es \in Blocks
    PROVE  /\ AppendManagedBlock(ls, es) = Front(Base(ls)) \o Block(es) \o <<Empty>>
           /\ Front(Base(ls)) \in Seq(Line \ {MarkerStart})
           /\ <<Empty>> \in Seq(Line \ {MarkerStart})
           /\ AppendManagedBlock(ls, es) \in Seq(Line)
<1> DEFINE P == Line \ {MarkerStart}
           base == Base(ls)
<1>0. Empty \in P /\ P \subseteq Line
  BY Zenon DEF Line, Empty, MarkerStart
<1>1. base \in Seq(P) /\ TrimRight(RemoveManagedBlock(ls)) = base
  BY BaseFacts, Zenon
<1>2. es \in Seq(Line) /\ Block(es) \in Seq(Line) /\ {MarkerStart, Notice, MarkerEnd, Empty} \subseteq Line
  BY BlockLines, Zenon DEF Line
<1>3. AppendManagedBlock(ls, es) = IF base = <<>> THEN RenderBlock(es) ELSE (base \o <<Empty>>) \o RenderBlock(es)
  BY <1>1, Zenon DEF AppendManagedBlock
<1>4. RenderBlock(es) = Block(es) \o <<Empty>>
  <2> DEFINE h == <<MarkerStart, Notice>> \o es
             m == <<MarkerEnd>>
             e == <<Empty>>
  <2>1. h \in Seq(Line) /\ m \in Seq(Line) /\ e \in Seq(Line)
    BY <1>2
  <2>2. <<MarkerEnd, Empty>> = m \o e
    OBVIOUS
  <2> HIDE DEF h, m, e
  <2>3. Assoc3(h, m, e)
    BY <2>1, LineAssoc3, Zenon
  <2>4. h \o <<MarkerEnd, Empty>> = (h \o m) \o e
    BY <2>2, <2>3, Zenon DEF Assoc3
  <2> QED BY <2>4, Zenon DEF RenderBlock, Block, h, m, e
<1> HIDE DEF P, base
<1>5. base \in Seq(Line) /\ <<Empty>> \in Seq(P) /\ <<Empty>> \in Seq(Line)
  BY <1>0, <1>1
<1>6. Front(base) \in Seq(P) /\ Front(base) \in Seq(Line)
  BY <1>0, <1>1, <1>5 DEF Front
<1>7. AppendManagedBlock(ls, es) = (Front(base) \o Block(es)) \o <<Empty>>
  <2>1. CASE base = <<>>
    <3>1. <<>> \o Block(es) = Block(es)
      BY <1>2
    <3> QED BY <2>1, <3>1, <1>3, <1>4 DEF Front
  <2>2. CASE base # <<>>
    <3>1. Front(base) = base \o <<Empty>>
      BY <1>5, <2>2 DEF Front
    <3>2. Front(base) \o (Block(es) \o <<Empty>>) = (Front(base) \o Block(es)) \o <<Empty>>
      <4>1. Assoc3(Front(base), Block(es), <<Empty>>)
        BY <1>2, <1>5, <1>6, LineAssoc3, Zenon
      <4> QED BY <4>1, Zenon DEF Assoc3
    <3> QED BY <2>2, <3>1, <3>2, <1>3, <1>4
  <2> QED BY <2>1, <2>2, Zenon
<1>8. (Front(base) \o Block(es)) \o <<Empty>> \in Seq(Line)
  BY <1>2, <1>5, <1>6
<1> QED BY <1>5, <1>6, <1>7, <1>8 DEF P, base

LEMMA NoStart ==
    ASSUME NEW B, NEW s \in Seq(B \ {MarkerStart})
    PROVE  s \in Seq(B) /\ MarkerStart \notin Range(s)
  BY DEF Range

(* removeManagedBlock takes out again all that appendManagedBlock put in. *)
LEMMA ApplyBase ==
    ASSUME NEW ls \in Seq(Line), NEW es \in Blocks
    PROVE  Base(AppendManagedBlock(ls, es)) = Base(ls)
<1> DEFINE f == Front(Base(ls))
           on == AppendManagedBlock(ls, es)
           P == Line \ {MarkerStart}
<1>0. Empty \in P /\ P \subseteq Line
  BY Zenon DEF Line, Empty, MarkerStart
<1>1. on = (f \o Block(es)) \o <<Empty>> /\ f \in Seq(P) /\ <<Empty>> \in Seq(P)
  BY ApplyWrites, Zenon
<1>2. Scan(on).out = f \o <<Empty>>
  <2>1. es \in Seq(Line) /\ MarkerEnd \notin Range(es) /\ {MarkerStart, Notice, MarkerEnd} \subseteq Line
    BY BlockLines, Zenon DEF Line
  <2>2. MarkerEnd # Notice
    BY DEF MarkerEnd, Notice
  <2>3. /\ f \in Seq(Line) /\ MarkerStart \notin Range(f)
        /\ <<Empty>> \in Seq(Line) /\ MarkerStart \notin Range(<<Empty>>)
    BY <1>1, NoStart, Zenon
  <2> HIDE DEF f, on
  <2>4. Scan((f \o Block(es)) \o <<Empty>>).out = f \o <<Empty>>
    BY <2>1, <2>2, <2>3, ScanBlock, ZenonT(30)
  <2> QED BY <1>1, <2>4, Zenon
<1>3. /\ Base(ls) \in Seq(P)
      /\ TrimRight(Base(ls)) = Base(ls)
      /\ TrimRight(Append(Base(ls), Empty)) = Base(ls)
  BY BaseFacts
<1>4. TrimRight(f) = Base(ls)
  BY <1>3, TrimEmpty DEF Front
<1> HIDE DEF f, P
<1>5. f \o <<Empty>> = Append(f, Empty)
  BY <1>0, <1>1
<1>6. TrimRight(Append(f, Empty)) = TrimRight(f)
  BY <1>0, <1>1, TrimAppend
<1> QED BY <1>2, <1>4, <1>5, <1>6, Zenon DEF Base

-----------------------------------------------------------------------------
(* The hosts file: the invariant *)

\* The file is the user's lines, with the block in force somewhere between
\* them, and the history holds those of them that are not empty.
Own == UserLine \cup {Empty}

InForce(es) == IF es = <<>> THEN <<>> ELSE Block(es)

Laid(f, es, b, a) == f = b \o InForce(es) \o a

HostsIInv ==
    /\ applied \in Blocks \cup {<<>>}
    /\ \E b, a \in Seq(Own) : Laid(file, applied, b, a) /\ mine = Keep(b \o a, UserLine)

LEMMA OwnLines == /\ Own \subseteq Line \ {MarkerStart} /\ Own \subseteq Line
                  /\ Empty \in Own /\ UserLine \subseteq Own /\ Empty \notin UserLine
  BY HostsAssumption, Zenon DEF Own, Line, Empty, MarkerStart

LEMMA InForceLines ==
    ASSUME NEW es \in Blocks \cup {<<>>}
    PROVE  InForce(es) \in Seq(Line \ Own) /\ InForce(es) \in Seq(Line)
<1>1. CASE es = <<>>
  BY <1>1 DEF InForce
<1>2. CASE es # <<>>
  <2>1. Block(es) \in Seq(Line) /\ Block(es) \in Seq(Line \ (UserLine \cup {Empty}))
    BY <1>2, BlockLines
  <2> QED BY <1>2, <2>1, Zenon DEF InForce, Own
<1> QED BY <1>1, <1>2

LEMMA LaidLines ==
    ASSUME NEW es \in Blocks \cup {<<>>}, NEW b \in Seq(Own), NEW a \in Seq(Own), NEW f, Laid(f, es, b, a)
    PROVE  /\ f \in Seq(Line) /\ b \in Seq(Line) /\ a \in Seq(Line)
           /\ b \o a \in Seq(Own)
<1>1. b \in Seq(Line) /\ a \in Seq(Line) /\ b \o a \in Seq(Own)
  BY OwnLines
<1>2. InForce(es) \in Seq(Line)
  BY InForceLines
<1>3. f \in Seq(Line)
  BY <1>1, <1>2 DEF Laid
<1> QED BY <1>1, <1>3

(* The scan takes the block in force out and leaves the user's lines. *)
LEMMA LaidBase ==
    ASSUME NEW es \in Blocks \cup {<<>>}, NEW b \in Seq(Own), NEW a \in Seq(Own), NEW f, Laid(f, es, b, a)
    PROVE  Base(f) = TrimRight(b \o a)
<1>1. /\ b \in Seq(Line) /\ MarkerStart \notin Range(b)
      /\ a \in Seq(Line) /\ MarkerStart \notin Range(a)
      /\ b \o a \in Seq(Line) /\ MarkerStart \notin Range(b \o a)
  <2>1. b \in Seq(Line \ {MarkerStart}) /\ a \in Seq(Line \ {MarkerStart})
    BY OwnLines
  <2>2. b \o a \in Seq(Line \ {MarkerStart})
    BY <2>1
  <2> QED BY <2>1, <2>2, NoStart, Zenon
<1>2. CASE es = <<>>
  <2>1. f = b \o a
    <3>1. b \o <<>> = b
      OBVIOUS
    <3> QED BY <1>2, <3>1 DEF Laid, InForce
  <2> DEFINE t == b \o a
  <2> HIDE DEF t
  <2>2. t \in Seq(Line) /\ MarkerStart \notin Range(t)
    BY <1>1 DEF t
  <2>3. ~Scan(<<>>).inBlock /\ Scan(<<>>).out = <<>> /\ <<>> \in Seq(Line)
    BY ScanEmpty
  <2>4. Scan(<<>> \o t) = [out |-> Scan(<<>>).out \o t, inBlock |-> FALSE]
    BY <2>2, <2>3, ScanPlain, Zenon
  <2>5. <<>> \o t = t
    BY <2>2
  <2>6. Scan(t).out = t
    <3>1. Scan(t) = [out |-> t, inBlock |-> FALSE]
      BY <2>3, <2>4, <2>5, Zenon
    <3> QED BY <3>1
  <2> QED BY <2>1, <2>6 DEF Base, t
<1>3. CASE es # <<>>
  <2>1. es \in Blocks
    BY <1>3
  <2>2. es \in Seq(Line) /\ MarkerEnd \notin Range(es)
    BY <2>1, BlockLines
  <2>3. {MarkerStart, Notice, MarkerEnd} \subseteq Line /\ MarkerEnd # Notice
    BY DEF Line, MarkerStart, Notice, MarkerEnd
  <2>4. Scan((b \o Block(es)) \o a).out = b \o a
    BY <1>1, <2>2, <2>3, ScanBlock
  <2> QED BY <1>3, <2>4, Zenon DEF Laid, InForce, Base
<1> QED BY <1>2, <1>3

(* The user's lines of a laid-out file. *)
LEMMA LaidKeep ==
    ASSUME NEW es \in Blocks \cup {<<>>}, NEW b \in Seq(Own), NEW a \in Seq(Own), NEW f, Laid(f, es, b, a)
    PROVE  Keep(f, UserLine) = Keep(b \o a, UserLine)
<1> DEFINE k == InForce(es)
<1>1. b \in Seq(Line) /\ a \in Seq(Line) /\ k \in Seq(Line) /\ k \in Seq(Line \ Own) /\ f = (b \o k) \o a
  BY LaidLines, InForceLines, Zenon DEF Laid
<1> HIDE DEF k
<1>2. Keep(k, UserLine) = <<>>
  <2>1. Range(k) \cap UserLine = {}
    BY <1>1, OwnLines, RangeOfSeq
  <2> QED BY <1>1, <2>1, KeepNone
<1>3. b \o k \in Seq(Line)
  BY <1>1
<1>4. Keep((b \o k) \o a, UserLine) = Keep(b \o k, UserLine) \o Keep(a, UserLine)
  <2> DEFINE u == b \o k
  <2> HIDE DEF u
  <2>1. u \in Seq(Line) /\ a \in Seq(Line)
    BY <1>1, <1>3 DEF u
  <2>2. Keep(u \o a, UserLine) = Keep(u, UserLine) \o Keep(a, UserLine)
    <3>1. Joins(u, a, UserLine)
      BY <2>1, LineJoins, Zenon
    <3> QED BY <3>1, Zenon DEF Joins
  <2> QED BY <2>2, Zenon DEF u
<1>5. Keep(b \o k, UserLine) = Keep(b, UserLine) \o Keep(k, UserLine)
  <2>1. Joins(b, k, UserLine)
    BY <1>1, LineJoins, Zenon
  <2> QED BY <2>1, Zenon DEF Joins
<1>6. Keep(b \o a, UserLine) = Keep(b, UserLine) \o Keep(a, UserLine)
  <2>1. Joins(b, a, UserLine)
    BY <1>1, LineJoins, Zenon
  <2> QED BY <2>1, Zenon DEF Joins
<1>7. Keep(b, UserLine) \in Seq(Line)
  BY <1>1, KeepFacts
<1>8. Keep(b, UserLine) \o <<>> = Keep(b, UserLine)
  BY <1>7
<1> QED BY <1>1, <1>2, <1>4, <1>5, <1>6, <1>8

LEMMA LineLen ==
    \A p, q \in Seq(Line) : Len(p \o q) = Len(p) + Len(q) /\ Len(p) \in Nat /\ Len(q) \in Nat
  OBVIOUS

SameLines(f, g) == Keep(f, UserLine) = Keep(g, UserLine)

LEMMA LaidSame ==
    ASSUME NEW es \in Blocks \cup {<<>>}, NEW b \in Seq(Own), NEW a \in Seq(Own), NEW f, Laid(f, es, b, a)
    PROVE  SameLines(f, b \o a)
  BY LaidKeep, ZenonT(30) DEF SameLines

LEMMA LineRange ==
    ASSUME NEW p \in Seq(Line), NEW q \in Seq(Line)
    PROVE  Range(p) \subseteq Range(p \o q) /\ Range(q) \subseteq Range(p \o q)
<1> DEFINE t == p \o q
<1>1. /\ DOMAIN p = 1..Len(p) /\ DOMAIN q = 1..Len(q) /\ DOMAIN t = 1..Len(p) + Len(q)
      /\ Len(p) \in Nat /\ Len(q) \in Nat
  OBVIOUS
<1>2. (\A i \in 1..Len(p) : t[i] = p[i]) /\ (\A i \in 1..Len(q) : t[Len(p) + i] = q[i])
  OBVIOUS
<1> HIDE DEF t
<1>3. ASSUME NEW i \in 1..Len(p) PROVE p[i] \in Range(t)
  <2>1. i \in DOMAIN t /\ t[i] = p[i]
    BY <1>1, <1>2
  <2> QED BY <2>1, Zenon DEF Range
<1>4. ASSUME NEW i \in 1..Len(q) PROVE q[i] \in Range(t)
  <2>1. Len(p) + i \in DOMAIN t /\ t[Len(p) + i] = q[i]
    BY <1>1, <1>2
  <2> QED BY <2>1, Zenon DEF Range
<1>5. Range(p) = {p[i] : i \in 1..Len(p)} /\ Range(q) = {q[i] : i \in 1..Len(q)}
  BY <1>1, Zenon DEF Range
<1> QED BY <1>3, <1>4, <1>5, Zenon DEF t

(* Where a file is cut: in the lines in front, or in those behind. *)
HeadCut(b, c, i) ==
    /\ SubSeq(b \o c, 1, i - 1) = SubSeq(b, 1, i - 1)
    /\ SubSeq(b \o c, i, Len(b \o c)) = SubSeq(b, i, Len(b)) \o c

LEMMA CutHead ==
    ASSUME NEW b \in Seq(Line), NEW c \in Seq(Line), NEW i \in 1..Len(b) + 1
    PROVE  HeadCut(b, c, i)
<1>1. SubSeq(b \o c, 1, i - 1) = SubSeq(b, 1, i - 1)
  OBVIOUS
<1>2. SubSeq(b \o c, i, Len(b \o c)) = SubSeq(b, i, Len(b)) \o c
  BY SMTT(60)
<1> QED BY <1>1, <1>2, Zenon DEF HeadCut

TailCut(c, a, i) ==
    /\ SubSeq(c \o a, 1, Len(c) + i - 1) = c \o SubSeq(a, 1, i - 1)
    /\ SubSeq(c \o a, Len(c) + i, Len(c \o a)) = SubSeq(a, i, Len(a))

LEMMA CutTail ==
    ASSUME NEW c \in Seq(Line), NEW a \in Seq(Line), NEW i \in 1..Len(a) + 1
    PROVE  TailCut(c, a, i)
<1>1. SubSeq(c \o a, 1, Len(c) + i - 1) = c \o SubSeq(a, 1, i - 1)
  OBVIOUS
<1>2. SubSeq(c \o a, Len(c) + i, Len(c \o a)) = SubSeq(a, i, Len(a))
  OBVIOUS
<1> QED BY <1>1, <1>2, Zenon DEF TailCut

\* A file cut before its line i, outside the block: l and r are the two parts
\* of the user's lines in front of the block, or of those behind it.
Cut(f, i, k, b, a, l, r) ==
    \/ /\ SubSeq(f, 1, i - 1) = l
       /\ SubSeq(f, i, Len(f)) = r \o (k \o a)
       /\ l \o r = b
    \/ /\ SubSeq(f, 1, i - 1) = (b \o k) \o l
       /\ SubSeq(f, i, Len(f)) = r
       /\ l \o r = a

LEMMA CutOutside ==
    ASSUME NEW es \in Blocks \cup {<<>>}, NEW b \in Seq(Own), NEW a \in Seq(Own), NEW f, Laid(f, es, b, a),
           NEW i \in 1..Len(f) + 1, i <= Len(b) + 1 \/ i > Len(b) + Len(InForce(es))
    PROVE  \E l, r \in Seq(Own) : Cut(f, i, InForce(es), b, a, l, r)
<1> DEFINE k == InForce(es)
<1>1. b \in Seq(Line) /\ a \in Seq(Line) /\ k \in Seq(Line) /\ f = (b \o k) \o a
  BY LaidLines, InForceLines, Zenon DEF Laid
<1>2. i <= Len(b) + 1 \/ i > Len(b) + Len(k)
  OBVIOUS
<1> HIDE DEF k
<1>3. CASE i <= Len(b) + 1
  <2> DEFINE c == k \o a
  <2>1. c \in Seq(Line) /\ f = b \o c
    <3>1. Assoc3(b, k, a) /\ k \o a \in Seq(Line)
      BY <1>1, LineAssoc3, Zenon
    <3> QED BY <1>1, <3>1, Zenon DEF Assoc3
  <2>2. i \in 1..Len(b) + 1
    BY <1>3
  <2> HIDE DEF c
  <2>3. /\ SubSeq(b \o c, 1, i - 1) = SubSeq(b, 1, i - 1)
        /\ SubSeq(b \o c, i, Len(b \o c)) = SubSeq(b, i, Len(b)) \o c
    <3>1. b \in Seq(Line) /\ c \in Seq(Line)
      BY <1>1, <2>1
    <3>2. HeadCut(b, c, i)
      BY <2>2, <3>1, CutHead, Zenon
    <3> QED BY <3>2, Zenon DEF HeadCut
  <2>4. /\ SubSeq(b, 1, i - 1) \in Seq(Own) /\ SubSeq(b, i, Len(b)) \in Seq(Own)
        /\ SubSeq(b, 1, i - 1) \o SubSeq(b, i, Len(b)) = b
    BY <2>2, CutWhole, Zenon
  <2>5. Cut(f, i, k, b, a, SubSeq(b, 1, i - 1), SubSeq(b, i, Len(b)))
    BY <2>1, <2>3, <2>4, Zenon DEF Cut, c
  <2> QED BY <2>4, <2>5, Zenon DEF k
<1>4. CASE i > Len(b) + Len(k)
  <2> DEFINE c == b \o k
             j == i - Len(c)
  <2>1. c \in Seq(Line) /\ f = c \o a /\ Len(c) = Len(b) + Len(k)
    BY <1>1
  <2> HIDE DEF c
  <2>2. j \in 1..Len(a) + 1 /\ i = Len(c) + j
    <3>1. Len(f) = Len(c) + Len(a) /\ Len(c) \in Nat /\ Len(a) \in Nat
      <4>1. c \in Seq(Line) /\ a \in Seq(Line) /\ f = c \o a
        BY <1>1, <2>1, Zenon
      <4>2. Len(c \o a) = Len(c) + Len(a) /\ Len(c) \in Nat /\ Len(a) \in Nat
        BY <4>1, LineLen, Zenon
      <4> QED BY <4>1, <4>2, Zenon
    <3>2. i > Len(c)
      BY <1>4, <2>1
    <3> QED BY <3>1, <3>2
  <2> HIDE DEF j
  <2>3. SubSeq(c \o a, 1, Len(c) + j - 1) = c \o SubSeq(a, 1, j - 1)
        /\ SubSeq(c \o a, Len(c) + j, Len(c \o a)) = SubSeq(a, j, Len(a))
    <3>1. TailCut(c, a, j)
      BY <1>1, <2>1, <2>2, CutTail, Zenon
    <3> QED BY <3>1, Zenon DEF TailCut
  <2>4. /\ SubSeq(a, 1, j - 1) \in Seq(Own) /\ SubSeq(a, j, Len(a)) \in Seq(Own)
        /\ SubSeq(a, 1, j - 1) \o SubSeq(a, j, Len(a)) = a
    BY <2>2, CutWhole, Zenon
  <2>5. /\ SubSeq(f, 1, i - 1) = c \o SubSeq(a, 1, j - 1)
        /\ SubSeq(f, i, Len(f)) = SubSeq(a, j, Len(a))
    <3>1. i - 1 = Len(c) + j - 1
      BY <2>2
    <3> QED BY <2>1, <2>2, <2>3, <3>1, Zenon
  <2>6. Cut(f, i, k, b, a, SubSeq(a, 1, j - 1), SubSeq(a, j, Len(a)))
    BY <2>4, <2>5, Zenon DEF Cut, c
  <2> QED BY <2>4, <2>6, Zenon DEF k
<1> QED BY <1>2, <1>3, <1>4

LEMMA OwnConcat ==
    \A p, q \in Seq(Own) : Keep(p \o q, UserLine) = Keep(p, UserLine) \o Keep(q, UserLine)
<1> SUFFICES ASSUME NEW p \in Seq(Own), NEW q \in Seq(Own)
             PROVE  Keep(p \o q, UserLine) = Keep(p, UserLine) \o Keep(q, UserLine)
  OBVIOUS
<1> QED BY KeepConcat

Assoc(p, q, u, v) ==
    /\ p \o (q \o (u \o v)) = ((p \o q) \o u) \o v
    /\ ((p \o q) \o u) \o v = p \o ((q \o u) \o v)

LEMMA LineAssoc == \A p, q, u, v \in Seq(Line) : Assoc(p, q, u, v)
<1> SUFFICES ASSUME NEW p \in Seq(Line), NEW q \in Seq(Line), NEW u \in Seq(Line), NEW v \in Seq(Line)
             PROVE  Assoc(p, q, u, v)
  BY Zenon
<1> DEFINE x == p \o q
           y == u \o v
<1>0. x \in Seq(Line) /\ y \in Seq(Line)
  OBVIOUS
<1>2. x \o y = p \o (q \o y)
  <2> HIDE DEF y
  <2>1. Assoc3(p, q, y)
    BY <1>0, LineAssoc3, Zenon
  <2> QED BY <2>1, Zenon DEF Assoc3
<1>3. (x \o u) \o v = x \o y
  <2> HIDE DEF x
  <2>1. Assoc3(x, u, v)
    BY <1>0, LineAssoc3, Zenon
  <2> QED BY <2>1, Zenon DEF Assoc3
<1>4. q \o y = (q \o u) \o v
  <2>1. Assoc3(q, u, v)
    BY LineAssoc3, Zenon
  <2> QED BY <2>1, Zenon DEF Assoc3
<1> QED BY <1>2, <1>3, <1>4, Zenon DEF Assoc

(* A line of the user's own put in at the cut. *)
LEMMA InsertLaid ==
    ASSUME NEW es \in Blocks \cup {<<>>}, NEW b \in Seq(Own), NEW a \in Seq(Own),
           NEW l \in Seq(Own), NEW r \in Seq(Own), NEW f, NEW i, Cut(f, i, InForce(es), b, a, l, r),
           NEW x \in Own
    PROVE  \E b2, a2 \in Seq(Own) :
              /\ Laid(SubSeq(f, 1, i - 1) \o <<x>> \o SubSeq(f, i, Len(f)), es, b2, a2)
              /\ x = Empty => Keep(b2 \o a2, UserLine) = Keep(b \o a, UserLine)
<1> DEFINE k == InForce(es)
           m == (l \o <<x>>) \o r
<1>1. k \in Seq(Line) /\ Own \subseteq Line
  BY InForceLines, OwnLines
<1>2. m \in Seq(Own) /\ l \o <<x>> \in Seq(Own)
  OBVIOUS
<1>3. x = Empty => Keep(m, UserLine) = Keep(l \o r, UserLine)
  <2> SUFFICES ASSUME x = Empty PROVE Keep(m, UserLine) = Keep(l \o r, UserLine)
    OBVIOUS
  <2> DEFINE u == Append(l, x)
  <2>0. u = l \o <<x>> /\ u \in Seq(Own)
    OBVIOUS
  <2>1. Keep(u, UserLine) = Keep(l, UserLine)
    BY KeepAppend, OwnLines
  <2> HIDE DEF u
  <2>2. Keep(u \o r, UserLine) = Keep(u, UserLine) \o Keep(r, UserLine)
    BY <2>0, OwnConcat, Zenon
  <2>3. Keep(l \o r, UserLine) = Keep(l, UserLine) \o Keep(r, UserLine)
    BY OwnConcat, Zenon
  <2> QED BY <2>0, <2>1, <2>2, <2>3, Zenon
<1> HIDE DEF k
<1>4. CASE /\ SubSeq(f, 1, i - 1) = l
           /\ SubSeq(f, i, Len(f)) = r \o (k \o a)
           /\ l \o r = b
  <2>1. (l \o <<x>>) \o (r \o (k \o a)) = (m \o k) \o a
    <3> DEFINE u == l \o <<x>>
    <3>1. u \in Seq(Line) /\ r \in Seq(Line) /\ a \in Seq(Line)
      BY <1>1, <1>2
    <3> HIDE DEF u
    <3>2. u \o (r \o (k \o a)) = ((u \o r) \o k) \o a
      <4>1. Assoc(u, r, k, a)
        BY <1>1, <3>1, LineAssoc, Zenon
      <4> QED BY <4>1, Zenon DEF Assoc
    <3> QED BY <3>2, Zenon DEF u
  <2>2. Keep(m \o a, UserLine) = Keep(m, UserLine) \o Keep(a, UserLine)
        /\ Keep(b \o a, UserLine) = Keep(b, UserLine) \o Keep(a, UserLine)
    <3> HIDE DEF m
    <3> QED BY <1>2, OwnConcat, Zenon
  <2>3. x = Empty => Keep(m \o a, UserLine) = Keep(b \o a, UserLine)
    BY <1>3, <1>4, <2>2, Zenon
  <2>4. Laid(SubSeq(f, 1, i - 1) \o <<x>> \o SubSeq(f, i, Len(f)), es, m, a)
    BY <1>4, <2>1, Zenon DEF Laid, k
  <2> QED BY <1>2, <2>3, <2>4, Zenon
<1>5. CASE /\ SubSeq(f, 1, i - 1) = (b \o k) \o l
           /\ SubSeq(f, i, Len(f)) = r
           /\ l \o r = a
  <2>1. (((b \o k) \o l) \o <<x>>) \o r = (b \o k) \o m
    <3> DEFINE c == b \o k
               y == <<x>>
    <3>1. c \in Seq(Line) /\ l \in Seq(Line) /\ y \in Seq(Line) /\ r \in Seq(Line)
      BY <1>1
    <3> HIDE DEF c, y
    <3>2. ((c \o l) \o y) \o r = c \o ((l \o y) \o r)
      <4>1. Assoc(c, l, y, r)
        BY <3>1, LineAssoc, Zenon
      <4> QED BY <4>1, Zenon DEF Assoc
    <3> QED BY <3>2, Zenon DEF c, y
  <2>2. Keep(b \o m, UserLine) = Keep(b, UserLine) \o Keep(m, UserLine)
        /\ Keep(b \o a, UserLine) = Keep(b, UserLine) \o Keep(a, UserLine)
    <3> HIDE DEF m
    <3> QED BY <1>2, OwnConcat, Zenon
  <2>3. x = Empty => Keep(b \o m, UserLine) = Keep(b \o a, UserLine)
    BY <1>3, <1>5, <2>2, Zenon
  <2>4. Laid(SubSeq(f, 1, i - 1) \o <<x>> \o SubSeq(f, i, Len(f)), es, b, m)
    BY <1>5, <2>1, Zenon DEF Laid, k
  <2> QED BY <1>2, <2>3, <2>4, Zenon
<1> QED BY <1>4, <1>5, Zenon DEF Cut, k

(* A line of the user's own taken out: the cuts before and after it. *)
LEMMA DeleteLaid ==
    ASSUME NEW es \in Blocks \cup {<<>>}, NEW b \in Seq(Own), NEW a \in Seq(Own), NEW f, Laid(f, es, b, a),
           NEW i \in 1..Len(f), i <= Len(b) \/ i > Len(b) + Len(InForce(es))
    PROVE  \E b2, a2 \in Seq(Own) : Laid(SubSeq(f, 1, i - 1) \o SubSeq(f, i + 1, Len(f)), es, b2, a2)
<1> DEFINE k == InForce(es)
<1>1. b \in Seq(Line) /\ a \in Seq(Line) /\ k \in Seq(Line) /\ f = (b \o k) \o a
  BY LaidLines, InForceLines, Zenon DEF Laid
<1>2. i <= Len(b) \/ i > Len(b) + Len(k)
  OBVIOUS
<1> HIDE DEF k
<1>3. CASE i <= Len(b)
  <2> DEFINE c == k \o a
             l == SubSeq(b, 1, i - 1)
             r == SubSeq(b, i + 1, Len(b))
  <2>1. c \in Seq(Line) /\ f = b \o c
    <3>1. Assoc3(b, k, a) /\ k \o a \in Seq(Line)
      BY <1>1, LineAssoc3, Zenon
    <3> QED BY <1>1, <3>1, Zenon DEF Assoc3
  <2>2. i \in 1..Len(b) + 1 /\ i + 1 \in 1..Len(b) + 1 /\ (i + 1) - 1 = i
    BY <1>3
  <2> HIDE DEF c
  <2>3. HeadCut(b, c, i) /\ HeadCut(b, c, i + 1)
    BY <1>1, <2>1, <2>2, CutHead, Zenon
  <2>4. SubSeq(f, 1, i - 1) = l /\ SubSeq(f, i + 1, Len(f)) = r \o c
    BY <2>1, <2>3, Zenon DEF HeadCut
  <2>5. l \in Seq(Own) /\ r \in Seq(Own) /\ l \o r \in Seq(Own)
    <3>1. l \in Seq(Own)
      BY <2>2, CutWhole, Zenon
    <3>2. r \in Seq(Own)
      BY <2>2, CutWhole, Zenon
    <3> HIDE DEF l, r
    <3> QED BY <3>1, <3>2
  <2> HIDE DEF l, r
  <2>6. l \in Seq(Line) /\ r \in Seq(Line)
    BY <2>5, OwnLines
  <2>7. l \o (r \o (k \o a)) = ((l \o r) \o k) \o a
    <3>1. Assoc(l, r, k, a)
      BY <1>1, <2>6, LineAssoc, Zenon
    <3> QED BY <3>1, Zenon DEF Assoc
  <2>8. Laid(SubSeq(f, 1, i - 1) \o SubSeq(f, i + 1, Len(f)), es, l \o r, a)
    BY <2>4, <2>7, Zenon DEF Laid, k, c
  <2> QED BY <2>5, <2>8, Zenon
<1>4. CASE i > Len(b) + Len(k)
  <2> DEFINE c == b \o k
             j == i - Len(c)
             l == SubSeq(a, 1, j - 1)
             r == SubSeq(a, j + 1, Len(a))
  <2>1. c \in Seq(Line) /\ f = c \o a /\ Len(c) = Len(b) + Len(k)
    BY <1>1
  <2> HIDE DEF c
  <2>2. /\ j \in 1..Len(a) + 1 /\ j + 1 \in 1..Len(a) + 1
        /\ i - 1 = Len(c) + j - 1 /\ i + 1 = Len(c) + (j + 1) /\ (j + 1) - 1 = j
    <3>1. Len(c \o a) = Len(c) + Len(a) /\ Len(c) \in Nat /\ Len(a) \in Nat
      BY <1>1, <2>1, LineLen, Zenon
    <3>2. i > Len(c) /\ i \in 1..Len(c \o a)
      BY <1>4, <2>1
    <3> QED BY <3>1, <3>2
  <2>3. SubSeq(c \o a, 1, Len(c) + j - 1) = c \o SubSeq(a, 1, j - 1)
    <3> HIDE DEF j
    <3>1. TailCut(c, a, j)
      BY <1>1, <2>1, <2>2, CutTail, Zenon
    <3> QED BY <3>1, Zenon DEF TailCut
  <2>4. SubSeq(c \o a, Len(c) + (j + 1), Len(c \o a)) = SubSeq(a, j + 1, Len(a))
    <3> DEFINE h == j + 1
    <3>1. h \in 1..Len(a) + 1
      BY <2>2
    <3> HIDE DEF h, j
    <3>2. SubSeq(c \o a, Len(c) + h, Len(c \o a)) = SubSeq(a, h, Len(a))
      <4>1. TailCut(c, a, h)
        BY <1>1, <2>1, <3>1, CutTail, ZenonT(30)
      <4> QED BY <4>1, Zenon DEF TailCut
    <3> QED BY <3>2, Zenon DEF h
  <2>5. l \in Seq(Own) /\ r \in Seq(Own) /\ l \o r \in Seq(Own)
    <3> HIDE DEF j
    <3>1. l \in Seq(Own)
      BY <2>2, CutWhole, Zenon
    <3>2. r \in Seq(Own)
      BY <2>2, CutWhole, Zenon
    <3> HIDE DEF l, r
    <3> QED BY <3>1, <3>2
  <2>6. SubSeq(f, 1, i - 1) = c \o l /\ SubSeq(f, i + 1, Len(f)) = r
    <3> HIDE DEF j
    <3> QED BY <2>1, <2>2, <2>3, <2>4, Zenon
  <2> HIDE DEF l, r, j
  <2>7. (c \o l) \o r = c \o (l \o r)
    <3>1. l \in Seq(Line) /\ r \in Seq(Line) /\ c \in Seq(Line)
      BY <2>1, <2>5, OwnLines
    <3>2. Assoc3(c, l, r)
      BY <3>1, LineAssoc3, Zenon
    <3> QED BY <3>2, Zenon DEF Assoc3
  <2>8. Laid(SubSeq(f, 1, i - 1) \o SubSeq(f, i + 1, Len(f)), es, b, l \o r)
    BY <2>6, <2>7, Zenon DEF Laid, k, c
  <2> QED BY <2>5, <2>8, Zenon
<1> QED BY <1>2, <1>3, <1>4

(* The lines of the block are the ones InBlock tells. *)
LEMMA InBlockPlace ==
    ASSUME HostsIInv, NEW b \in Seq(Own), NEW a \in Seq(Own), Laid(file, applied, b, a),
           NEW i \in Int, Len(b) + 1 <= i, i <= Len(b) + Len(InForce(applied))
    PROVE  InBlock(i)
<1> DEFINE k == InForce(applied)
<1>0. applied \in Blocks \cup {<<>>}
  BY DEF HostsIInv
<1>1. b \in Seq(Line) /\ a \in Seq(Line) /\ k \in Seq(Line) /\ file = (b \o k) \o a
  BY <1>0, LaidLines, InForceLines, Zenon DEF Laid
<1>2. Len(b) \in Nat /\ Len(k) \in Nat /\ Len(k) > 0
  <2>1. Len(b) \in Nat /\ Len(k) \in Nat
    BY <1>1, LineLen, Zenon
  <2> HIDE DEF k
  <2>2. i <= Len(b) + Len(k)
    BY DEF k
  <2> QED BY <2>1, <2>2
<1>3. k[1] = MarkerStart /\ k[Len(k)] = MarkerEnd
  <2>1. applied # <<>>
    BY <1>2 DEF InForce
  <2>2. applied \in Seq(Line) /\ k = Block(applied)
    BY <1>0, <2>1, BlockLines DEF InForce
  <2>3. MarkerStart \in Line /\ Notice \in Line /\ MarkerEnd \in Line
    BY DEF Line
  <2> DEFINE t == <<MarkerStart, Notice>> \o applied
  <2>4. t \in Seq(Line) /\ t[1] = MarkerStart /\ Len(t) >= 1 /\ Len(t) \in Nat
    BY <2>2, <2>3
  <2>5. k = t \o <<MarkerEnd>>
    BY <2>2 DEF Block
  <2> HIDE DEF k, t
  <2>6. Len(k) = Len(t) + 1 /\ k[1] = t[1] /\ k[Len(t) + 1] = MarkerEnd
    BY <2>3, <2>4, <2>5
  <2> QED BY <2>4, <2>6
<1> HIDE DEF k
<1> DEFINE c == b \o k
           s == Len(b) + 1
           e == Len(b) + Len(k)
<1>4. c \in Seq(Line) /\ Len(c) = e
  BY <1>1
<1>5. c[s] = MarkerStart /\ c[e] = MarkerEnd /\ s \in 1..e /\ e \in 1..e
  BY <1>1, <1>2, <1>3
<1> HIDE DEF c
<1>6. file = c \o a
  BY <1>1 DEF c
<1>7. file[s] = MarkerStart /\ file[e] = MarkerEnd /\ s \in DOMAIN file /\ e \in DOMAIN file
  <2> HIDE DEF s, e
  <2>1. a \in Seq(Line) /\ e \in Nat
    BY <1>1, <1>2 DEF e
  <2>2. \A j \in 1..e : (c \o a)[j] = c[j] /\ j \in DOMAIN (c \o a)
    BY <1>4, <2>1
  <2> QED BY <1>5, <1>6, <2>2, Zenon
<1>8. s <= i /\ i <= e
  BY DEF k
<1> QED BY <1>7, <1>8, Zenon DEF InBlock

LEMMA HostsInitial == HostsInit => HostsIInv
<1> SUFFICES ASSUME HostsInit PROVE HostsIInv
  OBVIOUS
<1>1. <<Empty>> \in Seq(Own) /\ <<>> \in Seq(Own)
  BY OwnLines
<1>2. Laid(file, applied, <<Empty>>, <<>>)
  BY <1>1 DEF HostsInit, Laid, InForce
<1>3. Keep(<<Empty>> \o <<>>, UserLine) = <<>>
  <2>1. <<Empty>> \o <<>> = Append(<<>>, Empty)
    OBVIOUS
  <2>2. Keep(Append(<<>>, Empty), UserLine) = Keep(<<>>, UserLine)
    BY <1>1, KeepAppend, OwnLines, Zenon
  <2> QED BY <2>1, <2>2, KeepEmpty
<1> QED BY <1>1, <1>2, <1>3, Zenon DEF HostsIInv, HostsInit

LEMMA HostsApply ==
    ASSUME HostsIInv, NEW es \in Blocks, Apply(es)
    PROVE  HostsIInv'
<1>0. es # <<>> /\ applied' = es /\ mine' = mine /\ file' = AppendManagedBlock(file, es)
  BY Zenon DEF Apply
<1>1. PICK b \in Seq(Own), a \in Seq(Own) : Laid(file, applied, b, a) /\ mine = Keep(b \o a, UserLine)
  BY Zenon DEF HostsIInv
<1>2. applied \in Blocks \cup {<<>>}
  BY Zenon DEF HostsIInv
<1> DEFINE t == b \o a
           base == TrimRight(t)
           f == Front(base)
<1>3. file \in Seq(Line) /\ t \in Seq(Own) /\ Base(file) = base
  BY <1>1, <1>2, LaidLines, LaidBase, SMTT(30)
<1> HIDE DEF t
<1>4. base \in Seq(Own) /\ Keep(base, UserLine) = Keep(t, UserLine)
  BY <1>3, OwnLines, TrimFacts, TrimKeep, SMTT(30)
<1>5. file' = (f \o Block(es)) \o <<Empty>>
  BY <1>0, <1>3, ApplyWrites, Zenon
<1> HIDE DEF base
<1>6. f \in Seq(Own) /\ Keep(f, UserLine) = Keep(base, UserLine)
  <2>1. CASE base = <<>>
    BY <1>4, <2>1 DEF Front
  <2>2. CASE base # <<>>
    <3>1. Keep(Append(base, Empty), UserLine) = Keep(base, UserLine)
      BY <1>4, OwnLines, KeepAppend
    <3>2. Append(base, Empty) \in Seq(Own)
      BY <1>4, OwnLines
    <3> QED BY <2>2, <3>1, <3>2 DEF Front
  <2> QED BY <2>1, <2>2
<1> HIDE DEF f
<1>7. <<Empty>> \in Seq(Own) /\ f \o <<Empty>> = Append(f, Empty)
  BY <1>6, OwnLines
<1>8. Keep(Append(f, Empty), UserLine) = Keep(f, UserLine)
  BY <1>6, OwnLines, KeepAppend
<1>9. mine' = Keep(f \o <<Empty>>, UserLine)
  BY <1>0, <1>1, <1>4, <1>6, <1>7, <1>8, Zenon DEF t
<1>10. Laid(file', applied', f, <<Empty>>)
  BY <1>0, <1>5, Zenon DEF Laid, InForce
<1> QED BY <1>0, <1>6, <1>7, <1>9, <1>10, Zenon DEF HostsIInv

LEMMA HostsRestore ==
    ASSUME HostsIInv, Restore
    PROVE  HostsIInv'
<1>0. applied' = <<>> /\ mine' = mine /\ file' = RemoveManagedBlock(file)
  BY Zenon DEF Restore
<1>1. PICK b \in Seq(Own), a \in Seq(Own) : Laid(file, applied, b, a) /\ mine = Keep(b \o a, UserLine)
  BY Zenon DEF HostsIInv
<1>2. applied \in Blocks \cup {<<>>}
  BY Zenon DEF HostsIInv
<1> DEFINE t == b \o a
           base == TrimRight(t)
           g == Append(base, Empty)
<1>3. file \in Seq(Line) /\ t \in Seq(Own) /\ Base(file) = base
  BY <1>1, <1>2, LaidLines, LaidBase, ZenonT(100)
<1> HIDE DEF t
<1>4. base \in Seq(Own) /\ Keep(base, UserLine) = Keep(t, UserLine)
  BY <1>3, OwnLines, TrimFacts, TrimKeep, Zenon
<1>5. file' = g
  BY <1>0, <1>3, BaseFacts
<1> HIDE DEF base
<1>6. g \in Seq(Own) /\ <<>> \in Seq(Own)
  BY <1>4, OwnLines
<1>7. Keep(g, UserLine) = Keep(base, UserLine)
  BY <1>4, OwnLines, KeepAppend
<1> HIDE DEF g
<1>8. g \o <<>> = g
  BY <1>6
<1>9. mine' = Keep(g \o <<>>, UserLine)
  BY <1>0, <1>1, <1>4, <1>7, <1>8, Zenon DEF t
<1>10. Laid(file', applied', g, <<>>)
  BY <1>0, <1>5, <1>8, Zenon DEF Laid, InForce
<1> QED BY <1>0, <1>6, <1>9, <1>10, Zenon DEF HostsIInv

LEMMA HostsInsert ==
    ASSUME HostsIInv, NEW i \in DOMAIN file, ~(InBlock(i) /\ InBlock(i - 1)), NEW x \in Own,
           file' = LinesBefore(i) \o <<x>> \o LinesFrom(i), applied' = applied,
           mine' = Keep(file', UserLine) \/ (x = Empty /\ mine' = mine)
    PROVE  HostsIInv'
<1>1. PICK b \in Seq(Own), a \in Seq(Own) : Laid(file, applied, b, a) /\ mine = Keep(b \o a, UserLine)
  BY Zenon DEF HostsIInv
<1>2. applied \in Blocks \cup {<<>>}
  BY Zenon DEF HostsIInv
<1>3. file \in Seq(Line)
  BY <1>1, <1>2, LaidLines, Zenon
<1>4. i \in 1..Len(file) + 1 /\ i \in Int
  BY <1>3
<1>5. i <= Len(b) + 1 \/ i > Len(b) + Len(InForce(applied))
  <2> SUFFICES ASSUME i > Len(b) + 1, i <= Len(b) + Len(InForce(applied)) PROVE FALSE
    <3>1. Len(b) \in Nat /\ InForce(applied) \in Seq(Line)
      BY <1>2, InForceLines
    <3> QED BY <1>4, <3>1
  <2>1. Len(b) \in Nat /\ Len(InForce(applied)) \in Nat
    BY <1>2, InForceLines
  <2>2. i - 1 \in Int /\ Len(b) + 1 <= i - 1 /\ i - 1 <= Len(b) + Len(InForce(applied)) /\ Len(b) + 1 <= i
    BY <1>4, <2>1
  <2>3. InBlock(i)
    BY <1>1, <1>4, <2>2, InBlockPlace, Zenon
  <2>4. InBlock(i - 1)
    <3> DEFINE h == i - 1
    <3>1. h \in Int /\ Len(b) + 1 <= h /\ h <= Len(b) + Len(InForce(applied))
      BY <2>2
    <3> HIDE DEF h
    <3>2. InBlock(h)
      BY <1>1, <3>1, InBlockPlace
    <3> QED BY <3>2 DEF h
  <2> QED BY <2>3, <2>4
<1>6. PICK l \in Seq(Own), r \in Seq(Own) : Cut(file, i, InForce(applied), b, a, l, r)
  BY <1>1, <1>2, <1>4, <1>5, CutOutside, Zenon
<1>7. PICK b2 \in Seq(Own), a2 \in Seq(Own) :
          /\ Laid(SubSeq(file, 1, i - 1) \o <<x>> \o SubSeq(file, i, Len(file)), applied, b2, a2)
          /\ x = Empty => Keep(b2 \o a2, UserLine) = Keep(b \o a, UserLine)
  BY <1>2, <1>6, InsertLaid, SMTT(30)
<1>8. Laid(file', applied', b2, a2)
  BY <1>7, Zenon DEF LinesBefore, LinesFrom
<1>9. Keep(file', UserLine) = Keep(b2 \o a2, UserLine)
  <2>1. Laid(file', applied, b2, a2)
    BY <1>8
  <2>2. SameLines(file', b2 \o a2)
    BY <1>2, <2>1, LaidSame, Zenon
  <2> QED BY <2>2, Zenon DEF SameLines
<1>10. mine' = Keep(b2 \o a2, UserLine)
  BY <1>1, <1>7, <1>9
<1> QED BY <1>2, <1>8, <1>10, Zenon DEF HostsIInv

LEMMA HostsDelete ==
    ASSUME HostsIInv, NEW i \in DOMAIN file, UserDelete(i)
    PROVE  HostsIInv'
<1>0. /\ ~InBlock(i) /\ applied' = applied /\ mine' = Keep(file', UserLine)
      /\ file' = SubSeq(file, 1, i - 1) \o SubSeq(file, i + 1, Len(file))
  BY Zenon DEF UserDelete, LinesBefore, LinesFrom
<1>1. PICK b \in Seq(Own), a \in Seq(Own) : Laid(file, applied, b, a) /\ mine = Keep(b \o a, UserLine)
  BY Zenon DEF HostsIInv
<1>2. applied \in Blocks \cup {<<>>}
  BY Zenon DEF HostsIInv
<1>3. file \in Seq(Line)
  BY <1>1, <1>2, LaidLines
<1>4. i \in 1..Len(file) /\ i \in Int
  BY <1>3
<1>5. i <= Len(b) \/ i > Len(b) + Len(InForce(applied))
  <2>1. Len(b) \in Nat /\ Len(InForce(applied)) \in Nat
    BY <1>2, InForceLines
  <2> SUFFICES ASSUME Len(b) + 1 <= i, i <= Len(b) + Len(InForce(applied)) PROVE FALSE
    BY <1>4, <2>1
  <2>2. InBlock(i)
    BY <1>1, <1>4, InBlockPlace
  <2> QED BY <1>0, <2>2
<1>6. PICK b2 \in Seq(Own), a2 \in Seq(Own) :
          Laid(SubSeq(file, 1, i - 1) \o SubSeq(file, i + 1, Len(file)), applied, b2, a2)
  BY <1>1, <1>2, <1>4, <1>5, DeleteLaid, Zenon
<1>7. Laid(file', applied, b2, a2)
  BY <1>0, <1>6, Zenon
<1>8. Keep(file', UserLine) = Keep(b2 \o a2, UserLine)
  BY <1>2, <1>7, LaidKeep
<1> QED BY <1>0, <1>2, <1>7, <1>8, Zenon DEF HostsIInv

LEMMA HostsStep == HostsIInv /\ [HostsNext]_hostsVars => HostsIInv'
<1> SUFFICES ASSUME HostsIInv, [HostsNext]_hostsVars PROVE HostsIInv'
  OBVIOUS
<1>1. ASSUME NEW es \in Blocks, Apply(es) PROVE HostsIInv'
  BY <1>1, HostsApply
<1>2. CASE Restore
  BY <1>2, HostsRestore
<1>3. ASSUME NEW i \in DOMAIN file, NEW line \in UserLine, UserInsert(i, line) PROVE HostsIInv'
  <2>1. /\ ~(InBlock(i) /\ InBlock(i - 1)) /\ applied' = applied /\ mine' = Keep(file', UserLine)
        /\ file' = LinesBefore(i) \o <<line>> \o LinesFrom(i)
    BY <1>3, Zenon DEF UserInsert
  <2>2. line \in Own
    BY OwnLines
  <2> QED BY <2>1, <2>2, HostsInsert, Zenon
<1>4. ASSUME NEW i \in DOMAIN file, UserSpace(i) PROVE HostsIInv'
  <2>1. /\ ~(InBlock(i) /\ InBlock(i - 1)) /\ applied' = applied /\ mine' = mine
        /\ file' = LinesBefore(i) \o <<Empty>> \o LinesFrom(i)
    BY <1>4, Zenon DEF UserSpace
  <2>2. Empty \in Own
    BY OwnLines
  <2> QED BY <2>1, <2>2, HostsInsert, Zenon
<1>5. ASSUME NEW i \in DOMAIN file, UserDelete(i) PROVE HostsIInv'
  BY <1>5, HostsDelete
<1>6. CASE UNCHANGED hostsVars
  BY <1>6, Zenon DEF hostsVars, HostsIInv
<1> QED BY <1>1, <1>2, <1>3, <1>4, <1>5, <1>6, Zenon DEF HostsNext

(* Whatever the order of Apply, Restore and the user's edits, the file is   *)
(* the user's lines around the block in force (hosts.go).                   *)
THEOREM HostsInvariant == HostsSpec => []HostsIInv
<1>1. HostsInit => HostsIInv
  BY HostsInitial
<1>2. HostsIInv /\ [HostsNext]_hostsVars => HostsIInv'
  BY HostsStep
<1> QED BY <1>1, <1>2, PTL DEF HostsSpec

(* No line the user wrote is lost, invented or reordered, and what else the *)
(* file holds is exactly the block in force: removeManagedBlock and         *)
(* appendManagedBlock over any sequence of edits.                           *)
THEOREM HostsUserLinesKept == HostsSpec => []UserLinesKept
<1>1. HostsIInv => UserLinesKept
  <2> SUFFICES ASSUME HostsIInv PROVE UserLinesKept
    OBVIOUS
  <2>1. PICK b \in Seq(Own), a \in Seq(Own) : Laid(file, applied, b, a) /\ mine = Keep(b \o a, UserLine)
    BY Zenon DEF HostsIInv
  <2>2. applied \in Blocks \cup {<<>>}
    BY Zenon DEF HostsIInv
  <2>3. Keep(file, UserLine) = mine
    BY <2>1, <2>2, LaidKeep
  <2> DEFINE k == InForce(applied)
             S == Range(file) \ Own
             c == b \o k
  <2>4. /\ b \in Seq(Line) /\ a \in Seq(Line) /\ k \in Seq(Line) /\ k \in Seq(Line \ Own)
        /\ file = c \o a
    BY <2>1, <2>2, LaidLines, InForceLines, Zenon DEF Laid
  <2> HIDE DEF k
  <2>5. c \in Seq(Line)
    BY <2>4
  <2>6. Keep(b, S) = <<>> /\ Keep(a, S) = <<>>
    <3>1. Range(b) \cap S = {} /\ Range(a) \cap S = {}
      BY RangeOfSeq
    <3> HIDE DEF S
    <3>2. Keep(b, S) = <<>>
      BY <3>1, KeepNone
    <3>3. Keep(a, S) = <<>>
      BY <3>1, KeepNone
    <3> QED BY <3>2, <3>3
  <2>7. Keep(k, S) = k
    <3>1. Range(k) \subseteq S /\ k \in Seq(Range(k))
      <4>1. Range(k) \subseteq Range(c)
        BY <2>4, LineRange, Zenon
      <4>2. Range(c) \subseteq Range(file)
        <5> HIDE DEF c
        <5> QED BY <2>4, <2>5, LineRange, Zenon
      <4>3. k \in Seq(Range(k)) /\ Range(k) \subseteq Line \ Own
        BY <2>4, RangeOfSeq
      <4> HIDE DEF c
      <4> QED BY <4>1, <4>2, <4>3
    <3> HIDE DEF S
    <3> QED BY <3>1, KeepAll
  <2> HIDE DEF S
  <2>8. Keep(c, S) = Keep(b, S) \o Keep(k, S)
    <3>1. Joins(b, k, S)
      BY <2>4, LineJoins, Zenon
    <3> QED BY <3>1, Zenon DEF Joins
  <2> HIDE DEF c
  <2>9. Keep(c \o a, S) = Keep(c, S) \o Keep(a, S)
    <3>1. c \in Seq(Line) /\ a \in Seq(Line)
      BY <2>4, <2>5
    <3>2. Joins(c, a, S)
      BY <3>1, LineJoins, Zenon
    <3> QED BY <3>2, Zenon DEF Joins
  <2>10. (<<>> \o k) \o <<>> = k
    BY <2>4
  <2>11. Keep(file, S) = k
    BY <2>4, <2>6, <2>7, <2>8, <2>9, <2>10, Zenon
  <2> QED BY <2>3, <2>11, Zenon DEF UserLinesKept, S, Own, k, InForce, Block
<1> QED BY <1>1, HostsInvariant, PTL

(* Applying and restoring leaves what restoring leaves, and applying twice  *)
(* what applying once leaves: the file does not grow over starts and stops. *)
THEOREM HostsRoundTrip == HostsSpec => []RoundTrip
<1>1. HostsIInv => RoundTrip
  <2> SUFFICES ASSUME HostsIInv, NEW es \in Blocks
               PROVE  LET on == AppendManagedBlock(file, es)
                      IN  /\ RemoveManagedBlock(on) = RemoveManagedBlock(file)
                          /\ AppendManagedBlock(on, es) = on
    BY Zenon DEF RoundTrip
  <2> DEFINE on == AppendManagedBlock(file, es)
  <2>1. file \in Seq(Line)
    <3>1. PICK b \in Seq(Own), a \in Seq(Own) : Laid(file, applied, b, a)
      BY Zenon DEF HostsIInv
    <3>2. applied \in Blocks \cup {<<>>}
      BY Zenon DEF HostsIInv
    <3> QED BY <3>1, <3>2, LaidLines
  <2>2. on = Front(Base(file)) \o Block(es) \o <<Empty>> /\ on \in Seq(Line) /\ Base(on) = Base(file)
    BY <2>1, ApplyWrites, ApplyBase, Zenon
  <2>3. RemoveManagedBlock(file) = Append(Base(file), Empty)
    BY <2>1, BaseFacts
  <2> HIDE DEF on
  <2>4. RemoveManagedBlock(on) = Append(Base(on), Empty)
    BY <2>2, BaseFacts, Zenon
  <2>5. AppendManagedBlock(on, es) = Front(Base(on)) \o Block(es) \o <<Empty>>
    BY <2>2, ApplyWrites, Zenon
  <2> QED BY <2>2, <2>3, <2>4, <2>5, Zenon DEF on
<1> QED BY <1>1, HostsInvariant, PTL

-----------------------------------------------------------------------------
(* Host names and their text *)

Name == Seq(Label) \ {<<>>}

LEMMA LabelChars ==
    ASSUME NEW l \in Label
    PROVE  Chars[l] \in Seq(Char) /\ Chars[l] # <<>> /\ "." \notin Range(Chars[l])
<1>1. /\ Chars[l] \in Seq(Range(Chars[l])) /\ Chars[l] # <<>>
      /\ "." \notin Range(Chars[l])
  BY RulesAssumption, Zenon
<1>2. Range(Chars[l]) \subseteq Char
  BY Zenon DEF Char
<1>3. \A R : R \subseteq Char => Seq(R) \subseteq Seq(Char)
  OBVIOUS
<1>4. Chars[l] \in Seq(Char)
  BY <1>1, <1>2, <1>3, Zenon
<1> QED BY <1>1, <1>4, Zenon

LEMMA JoinEmpty == Join(<<>>) = <<>>
  BY LoopEmpty, Zenon DEF Join

\* A text, a dot and a text.
Dotted(u, p) == u \o <<".">> \o p

LEMMA DottedText ==
    ASSUME NEW u \in Seq(Char), NEW p \in Seq(Char)
    PROVE  Dotted(u, p) \in Seq(Char) /\ Dotted(u, p) # <<>>
<1>1. <<".">> \in Seq(Char)
  BY DEF Char
<1>2. u \o <<".">> \in Seq(Char) /\ Len(u \o <<".">>) > 0
  BY <1>1
<1> DEFINE v == u \o <<".">>
<1> HIDE DEF v
<1>3. v \in Seq(Char) /\ Len(v) > 0
  BY <1>2 DEF v
<1>4. v \o p \in Seq(Char) /\ Len(v \o p) > 0
  BY <1>3
<1>5. v \o p # <<>>
  BY <1>4
<1> QED BY <1>4, <1>5, Zenon DEF Dotted, v

LEMMA JoinAppend ==
    ASSUME NEW n \in Seq(Label), NEW l \in Label
    PROVE  /\ Join(n) \in Seq(Char)
           /\ Join(Append(n, l)) = IF Join(n) = <<>> THEN Chars[l] ELSE Dotted(Join(n), Chars[l])
<1> DEFINE R == Range(n)
           R2 == Range(Append(n, l))
           A == Seq(Char)
           Next1(t, m) == IF t = <<>> THEN Chars[m] ELSE Dotted(t, Chars[m])
           F(D) == [m \in D |-> [t \in A |-> Next1(t, m)]]
<1>1. Join(n) = LoopOver(F(R), <<>>, n) /\ Join(Append(n, l)) = LoopOver(F(R2), <<>>, Append(n, l))
  BY Zenon DEF Join, Dotted
<1>2. n \in Seq(R) /\ R2 = R \cup {l} /\ R \subseteq Label
  BY RangeOfSeq, RangeAppend, Zenon
<1>3. <<>> \in A
  OBVIOUS
<1>4. ASSUME NEW t \in A, NEW m \in Label PROVE Next1(t, m) \in A
  BY LabelChars, DottedText
<1> HIDE DEF R, R2, A, Next1
<1>5. F(R) \in [R -> [A -> A]]
  BY <1>2, <1>4
<1>6. \A b \in R, a \in A : F(R2)[b][a] = F(R)[b][a]
  BY <1>2
<1>7. \A a \in A : F(R2)[l][a] = Next1(a, l)
  BY <1>2
<1>8. /\ LoopOver(F(R), <<>>, n) \in A
      /\ LoopOver(F(R2), <<>>, Append(n, l)) = F(R2)[l][LoopOver(F(R), <<>>, n)]
  <2> DEFINE f == F(R)
             g == F(R2)
  <2>1. LoopIn(A, R, f, <<>>, n)
    BY <1>2, <1>3, <1>5, Zenon DEF LoopIn
  <2>2. Extends(g, f, A, R)
    BY <1>6, Zenon DEF Extends
  <2> HIDE DEF f, g
  <2>3. LoopOver(f, <<>>, n) \in A /\ LoopOver(g, <<>>, Append(n, l)) = g[l][LoopOver(f, <<>>, n)]
    BY <2>1, <2>2, LoopAppend
  <2> QED BY <2>3, Zenon DEF f, g
<1> HIDE DEF F
<1> QED BY <1>1, <1>7, <1>8, Zenon DEF A, Next1

(* A name is not empty, nor is its text. *)
LEMMA NameSplit ==
    ASSUME NEW a \in Name
    PROVE  \E c \in Seq(Label), m \in Label : a = Append(c, m)
<1>1. a \in Seq(Label) /\ Len(a) > 0
  BY DEF Name
<1> DEFINE c == SubSeq(a, 1, Len(a) - 1)
           m == a[Len(a)]
<1>2. c \in Seq(Label) /\ m \in Label
  BY <1>1
<1>3. a = Append(c, m)
  BY <1>1
<1> QED BY <1>2, <1>3, Zenon

LEMMA JoinText ==
    ASSUME NEW a \in Name
    PROVE  Join(a) \in Seq(Char) /\ Join(a) # <<>>
<1>1. a \in Seq(Label) /\ \E c \in Seq(Label), m \in Label : a = Append(c, m)
  BY NameSplit DEF Name
<1>2. PICK c \in Seq(Label), m \in Label : a = Append(c, m)
  BY <1>1, Zenon
<1>3. Join(c) \in Seq(Char) /\ Join(a) = IF Join(c) = <<>> THEN Chars[m] ELSE Dotted(Join(c), Chars[m])
  BY <1>2, JoinAppend
<1>4. Chars[m] \in Seq(Char) /\ Chars[m] # <<>>
  BY LabelChars, Zenon
<1>5. Dotted(Join(c), Chars[m]) \in Seq(Char) /\ Dotted(Join(c), Chars[m]) # <<>>
  BY <1>3, <1>4, DottedText, Zenon
<1> QED BY <1>3, <1>4, <1>5, Zenon

LEMMA JoinOne ==
    ASSUME NEW l \in Label
    PROVE  Join(Append(<<>>, l)) = Chars[l]
<1>1. <<>> \in Seq(Label)
  OBVIOUS
<1>2. Join(Append(<<>>, l)) = IF Join(<<>>) = <<>> THEN Chars[l] ELSE Dotted(Join(<<>>), Chars[l])
  BY <1>1, JoinAppend, Zenon
<1> QED BY <1>2, JoinEmpty, Zenon

LEMMA JoinMore ==
    ASSUME NEW n \in Name, NEW l \in Label
    PROVE  Join(Append(n, l)) = Dotted(Join(n), Chars[l])
<1>1. n \in Seq(Label)
  BY DEF Name
<1>2. Join(n) # <<>>
  BY JoinText, Zenon
<1>3. Join(Append(n, l)) = IF Join(n) = <<>> THEN Chars[l] ELSE Dotted(Join(n), Chars[l])
  BY <1>1, JoinAppend
<1> QED BY <1>2, <1>3, Zenon

-----------------------------------------------------------------------------
(* The last dot of a text *)

Dotless(p) == p \in Seq(Char) /\ "." \notin Range(p)

LEMMA CharsDotless == \A l \in Label : Dotless(Chars[l])
  BY LabelChars, Zenon DEF Dotless

DotAt(t, u, p) ==
    /\ Len(t) = Len(u) + 1 + Len(p)
    /\ \A i \in 1..Len(u) : t[i] = u[i]
    /\ t[Len(u) + 1] = "."
    /\ \A i \in 1..Len(p) : t[Len(u) + 1 + i] = p[i]

LEMMA DottedAt ==
    ASSUME NEW u \in Seq(Char), NEW p \in Seq(Char)
    PROVE  DotAt(Dotted(u, p), u, p)
<1> DEFINE v == u \o <<".">>
<1>1. <<".">> \in Seq(Char)
  BY DEF Char
<1>2. /\ v \in Seq(Char) /\ Len(v) = Len(u) + 1 /\ v[Len(u) + 1] = "."
      /\ \A i \in 1..Len(u) : v[i] = u[i]
  BY <1>1
<1> HIDE DEF v
<1> DEFINE t == v \o p
<1>3. Len(u) \in Nat /\ Len(p) \in Nat
  OBVIOUS
<1>4. /\ Len(t) = Len(v) + Len(p)
      /\ \A i \in 1..Len(v) : t[i] = v[i]
      /\ \A i \in 1..Len(p) : t[Len(v) + i] = p[i]
  BY <1>2, SMTT(30)
<1> HIDE DEF t
<1>5. Len(t) = Len(u) + 1 + Len(p)
  BY <1>2, <1>4
<1>6. ASSUME NEW i \in 1..Len(u) PROVE t[i] = u[i]
  BY <1>2, <1>3, <1>4, SMTT(30)
<1>7. t[Len(u) + 1] = "."
  BY <1>2, <1>3, <1>4
<1>8. ASSUME NEW i \in 1..Len(p) PROVE t[Len(u) + 1 + i] = p[i]
  BY <1>2, <1>4
<1>9. t = Dotted(u, p)
  BY Zenon DEF t, v, Dotted
<1> QED BY <1>5, <1>6, <1>7, <1>8, <1>9, Zenon DEF DotAt

LEMMA NoDot ==
    ASSUME NEW u \in Seq(Char), NEW p \in Seq(Char), NEW q, Dotless(q)
    PROVE  Dotted(u, p) # q
<1> SUFFICES ASSUME Dotted(u, p) = q PROVE FALSE
  OBVIOUS
<1>1. Len(q) = Len(u) + 1 + Len(p) /\ q[Len(u) + 1] = "."
  BY DottedAt, Zenon DEF DotAt
<1>2. q \in Seq(Char) /\ "." \notin Range(q)
  BY DEF Dotless
<1>3. Len(u) + 1 \in 1..Len(q) /\ DOMAIN q = 1..Len(q)
  BY <1>1, <1>2
<1>4. q[Len(u) + 1] \in Range(q)
  BY <1>3, Zenon DEF Range
<1> QED BY <1>1, <1>2, <1>4, Zenon

LEMMA LastDotLen ==
    ASSUME NEW u \in Seq(Char), NEW v \in Seq(Char), NEW p, Dotless(p), NEW q, Dotless(q),
           Dotted(u, p) = Dotted(v, q)
    PROVE  ~(Len(u) < Len(v))
<1> SUFFICES ASSUME Len(u) < Len(v) PROVE FALSE
  OBVIOUS
<1>1. p \in Seq(Char) /\ q \in Seq(Char) /\ "." \notin Range(p)
  BY DEF Dotless
<1> DEFINE t == Dotted(u, p)
           i == Len(v) - Len(u)
<1>2. Len(t) = Len(u) + 1 + Len(p) /\ \A j \in 1..Len(p) : t[Len(u) + 1 + j] = p[j]
  BY <1>1, DottedAt, Zenon DEF DotAt
<1>3. Len(t) = Len(v) + 1 + Len(q) /\ t[Len(v) + 1] = "."
  <2>1. DotAt(t, v, q)
    BY <1>1, DottedAt, Zenon
  <2> QED BY <2>1, Zenon DEF DotAt
<1>4. Len(u) \in Nat /\ Len(v) \in Nat /\ Len(p) \in Nat /\ Len(q) \in Nat /\ DOMAIN p = 1..Len(p)
  BY <1>1
<1> HIDE DEF t
<1>5. i \in 1..Len(p) /\ Len(u) + 1 + i = Len(v) + 1
  BY <1>2, <1>3, <1>4
<1> HIDE DEF i
<1>6. p[i] = "."
  BY <1>2, <1>3, <1>5, Zenon
<1>7. p[i] \in Range(p)
  BY <1>4, <1>5, Zenon DEF Range
<1> QED BY <1>1, <1>6, <1>7, Zenon

LEMMA SameSeq ==
    ASSUME NEW B, NEW s \in Seq(B), NEW t \in Seq(B), Len(s) = Len(t), \A i \in 1..Len(s) : s[i] = t[i]
    PROVE  s = t
  BY SMTT(30)

(* What stands before the last dot, and what after it, is determined. *)
LEMMA LastDot ==
    ASSUME NEW u \in Seq(Char), NEW v \in Seq(Char), NEW p, Dotless(p), NEW q, Dotless(q),
           Dotted(u, p) = Dotted(v, q)
    PROVE  u = v /\ p = q
<1>1. p \in Seq(Char) /\ q \in Seq(Char)
  BY DEF Dotless
<1>2. ~(Len(u) < Len(v)) /\ ~(Len(v) < Len(u))
  <2>1. ~(Len(u) < Len(v))
    BY LastDotLen, Zenon
  <2>2. ~(Len(v) < Len(u))
    BY LastDotLen, Zenon
  <2> QED BY <2>1, <2>2
<1>3. Len(u) \in Nat /\ Len(v) \in Nat /\ Len(p) \in Nat /\ Len(q) \in Nat
  BY <1>1
<1>4. Len(u) = Len(v)
  BY <1>2, <1>3
<1> DEFINE t == Dotted(u, p)
<1>5. /\ Len(t) = Len(u) + 1 + Len(p)
      /\ \A i \in 1..Len(u) : t[i] = u[i]
      /\ \A i \in 1..Len(p) : t[Len(u) + 1 + i] = p[i]
  BY <1>1, DottedAt, Zenon DEF DotAt
<1>6. /\ Len(t) = Len(u) + 1 + Len(q)
      /\ \A i \in 1..Len(u) : t[i] = v[i]
      /\ \A i \in 1..Len(q) : t[Len(u) + 1 + i] = q[i]
  <2>1. DotAt(t, v, q)
    BY <1>1, DottedAt, Zenon
  <2> QED BY <1>4, <2>1, Zenon DEF DotAt
<1> HIDE DEF t
<1>7. Len(p) = Len(q)
  BY <1>3, <1>5, <1>6
<1>8. \A i \in 1..Len(u) : u[i] = v[i]
  BY <1>5, <1>6, Zenon
<1>9. \A i \in 1..Len(p) : p[i] = q[i]
  BY <1>5, <1>6, <1>7, Zenon
<1>10. u = v
  BY <1>4, <1>8, SameSeq, Zenon
<1>11. p = q
  BY <1>1, <1>7, <1>9, SameSeq, Zenon
<1> QED BY <1>10, <1>11, Zenon

LEMMA DottedTwice ==
    ASSUME NEW u \in Seq(Char), NEW v \in Seq(Char), NEW p \in Seq(Char)
    PROVE  Dotted(u, Dotted(v, p)) = Dotted(Dotted(u, v), p)
<1> DEFINE d == <<".">>
           x == u \o d
           y == v \o d
<1>1. d \in Seq(Char)
  BY DEF Char
<1>2. x \in Seq(Char) /\ y \in Seq(Char)
  BY <1>1
<1> HIDE DEF d
<1>3. x \o (y \o p) = (x \o y) \o p
  <2> HIDE DEF x, y
  <2>1. Assoc3(x, y, p)
    BY <1>2, ConcatAssoc3, Zenon
  <2> QED BY <2>1, Zenon DEF Assoc3
<1>4. x \o y = (x \o v) \o d
  <2> HIDE DEF x
  <2>1. x \in Seq(Char) /\ d \in Seq(Char)
    BY <1>1, <1>2
  <2>2. Assoc3(x, v, d)
    BY <2>1, ConcatAssoc3, Zenon
  <2> QED BY <2>2, Zenon DEF Assoc3
<1> QED BY <1>3, <1>4, Zenon DEF Dotted, d

-----------------------------------------------------------------------------
(* Below a host: said of text and said of labels *)

TextBelow(x, y) == \E u \in Seq(Char) : x = Dotted(u, y)
NameBelow(a, b) == \E u \in Name : a = u \o b

LEMMA NameAppend ==
    ASSUME NEW c \in Seq(Label), NEW m \in Label
    PROVE  Append(c, m) \in Name
<1>1. Append(c, m) \in Seq(Label) /\ Len(Append(c, m)) = Len(c) + 1 /\ Len(c) \in Nat
  OBVIOUS
<1>2. Append(c, m) # <<>>
  BY <1>1
<1> QED BY <1>1, <1>2 DEF Name

(* The last label: a name is one label, or its text ends with a dot and the  *)
(* label.                                                                    *)
LEMMA LastLabel ==
    ASSUME NEW a \in Name
    PROVE  \/ \E m \in Label : a = Append(<<>>, m) /\ Join(a) = Chars[m]
           \/ \E c \in Name, m \in Label : a = Append(c, m) /\ Join(a) = Dotted(Join(c), Chars[m])
<1>1. PICK c \in Seq(Label), m \in Label : a = Append(c, m)
  BY NameSplit, Zenon
<1>2. CASE c = <<>>
  <2>1. a = Append(<<>>, m) /\ Join(a) = Chars[m]
    BY <1>1, <1>2, JoinOne, Zenon
  <2> QED BY <2>1, Zenon
<1>3. CASE c # <<>>
  <2>1. c \in Name
    BY <1>3, Zenon DEF Name
  <2>2. Join(Append(c, m)) = Dotted(Join(c), Chars[m])
    BY <2>1, JoinMore
  <2> QED BY <1>1, <2>1, <2>2, Zenon
<1> QED BY <1>2, <1>3

(* Taking the last label off both. *)
LEMMA BelowOne ==
    ASSUME NEW a \in Name, NEW l \in Label
    PROVE  TextBelow(Join(a), Chars[l]) <=> NameBelow(a, Append(<<>>, l))
<1>0. Dotless(Chars[l]) /\ Chars[l] \in Seq(Char)
  BY CharsDotless, LabelChars, Zenon
<1>1. ASSUME TextBelow(Join(a), Chars[l]) PROVE NameBelow(a, Append(<<>>, l))
  <2>1. PICK u \in Seq(Char) : Join(a) = Dotted(u, Chars[l])
    BY <1>1, Zenon DEF TextBelow
  <2>2. CASE \E m \in Label : a = Append(<<>>, m) /\ Join(a) = Chars[m]
    <3>1. PICK m \in Label : Join(a) = Chars[m]
      BY <2>2, Zenon
    <3>2. Dotless(Chars[m])
      BY CharsDotless, Zenon
    <3>3. Dotted(u, Chars[l]) # Chars[m]
      BY <1>0, <3>2, NoDot, Zenon
    <3> QED BY <2>1, <3>1, <3>3, Zenon
  <2>3. CASE \E c \in Name, m \in Label : a = Append(c, m) /\ Join(a) = Dotted(Join(c), Chars[m])
    <3>1. PICK c \in Name, m \in Label : a = Append(c, m) /\ Join(a) = Dotted(Join(c), Chars[m])
      BY <2>3, Zenon
    <3>2. Dotless(Chars[m]) /\ Join(c) \in Seq(Char)
      BY CharsDotless, JoinText, Zenon
    <3>3. Chars[m] = Chars[l]
      BY <1>0, <2>1, <3>1, <3>2, LastDot, ZenonT(30)
    <3>4. m = l
      BY <3>3, RulesAssumption, Zenon
    <3>5. a = c \o Append(<<>>, l)
      <4>1. c \in Seq(Label)
        BY DEF Name
      <4> QED BY <3>1, <3>4, <4>1
    <3> QED BY <3>5, Zenon DEF NameBelow
  <2> QED BY <2>2, <2>3, LastLabel, Zenon
<1>2. ASSUME NameBelow(a, Append(<<>>, l)) PROVE TextBelow(Join(a), Chars[l])
  <2>1. PICK u \in Name : a = u \o Append(<<>>, l)
    BY <1>2, Zenon DEF NameBelow
  <2>2. a = Append(u, l)
    <3>1. u \in Seq(Label)
      BY DEF Name
    <3> QED BY <2>1, <3>1
  <2>3. Join(Append(u, l)) = Dotted(Join(u), Chars[l]) /\ Join(u) \in Seq(Char)
    BY JoinMore, JoinText
  <2> QED BY <2>2, <2>3, Zenon DEF TextBelow
<1> QED BY <1>1, <1>2

LEMMA BelowMore ==
    ASSUME NEW b \in Name, NEW l \in Label, NEW a \in Name,
           \A c \in Name : TextBelow(Join(c), Join(b)) <=> NameBelow(c, b)
    PROVE  TextBelow(Join(a), Dotted(Join(b), Chars[l])) <=> NameBelow(a, Append(b, l))
<1>0. Dotless(Chars[l]) /\ Chars[l] \in Seq(Char) /\ Join(b) \in Seq(Char) /\ b \in Seq(Label)
  BY CharsDotless, LabelChars, JoinText, Zenon DEF Name
<1>1. ASSUME TextBelow(Join(a), Dotted(Join(b), Chars[l])) PROVE NameBelow(a, Append(b, l))
  <2>1. PICK u \in Seq(Char) : Join(a) = Dotted(u, Dotted(Join(b), Chars[l]))
    BY <1>1, Zenon DEF TextBelow
  <2>2. Join(a) = Dotted(Dotted(u, Join(b)), Chars[l]) /\ Dotted(u, Join(b)) \in Seq(Char)
    <3>1. Dotted(u, Dotted(Join(b), Chars[l])) = Dotted(Dotted(u, Join(b)), Chars[l])
      BY <1>0, DottedTwice, SMTT(30)
    <3>2. Dotted(u, Join(b)) \in Seq(Char)
      BY <1>0, DottedText, Zenon
    <3> QED BY <2>1, <3>1, <3>2, Zenon
  <2>3. CASE \E m \in Label : a = Append(<<>>, m) /\ Join(a) = Chars[m]
    <3>1. PICK m \in Label : Join(a) = Chars[m]
      BY <2>3, Zenon
    <3>2. Dotless(Chars[m])
      BY CharsDotless, Zenon
    <3>3. Dotted(Dotted(u, Join(b)), Chars[l]) # Chars[m]
      BY <1>0, <2>2, <3>2, NoDot, Zenon
    <3> QED BY <2>2, <3>1, <3>3, Zenon
  <2>4. CASE \E c \in Name, m \in Label : a = Append(c, m) /\ Join(a) = Dotted(Join(c), Chars[m])
    <3>1. PICK c \in Name, m \in Label : a = Append(c, m) /\ Join(a) = Dotted(Join(c), Chars[m])
      BY <2>4, Zenon
    <3>2. Dotless(Chars[m]) /\ Join(c) \in Seq(Char)
      BY CharsDotless, JoinText, Zenon
    <3>3. Chars[m] = Chars[l] /\ Join(c) = Dotted(u, Join(b))
      BY <1>0, <2>2, <3>1, <3>2, LastDot, SMTT(30)
    <3>4. m = l
      BY <3>3, RulesAssumption, Zenon
    <3>5. NameBelow(c, b)
      BY <3>3, Zenon DEF TextBelow
    <3>6. PICK w \in Name : c = w \o b
      BY <3>5, Zenon DEF NameBelow
    <3>7. a = w \o Append(b, l)
      <4>1. w \in Seq(Label)
        BY DEF Name
      <4>2. w \o Append(b, l) = Append(w \o b, l)
        BY <1>0, <4>1, AppendConcat, SMTT(30)
      <4> QED BY <3>1, <3>4, <3>6, <4>2, Zenon
    <3> QED BY <3>7, Zenon DEF NameBelow
  <2> QED BY <2>3, <2>4, LastLabel, Zenon
<1>2. ASSUME NameBelow(a, Append(b, l)) PROVE TextBelow(Join(a), Dotted(Join(b), Chars[l]))
  <2>1. PICK w \in Name : a = w \o Append(b, l)
    BY <1>2, Zenon DEF NameBelow
  <2> DEFINE c == w \o b
  <2>2. a = Append(c, l) /\ c \in Name
    <3>1. w \in Seq(Label) /\ Len(w) > 0
      BY DEF Name
    <3>2. w \o Append(b, l) = Append(c, l) /\ c \in Seq(Label)
      BY <1>0, <3>1, AppendConcat, Zenon
    <3>3. Len(c) > 0
      BY <1>0, <3>1
    <3> HIDE DEF c
    <3>4. c # <<>>
      BY <3>3
    <3> QED BY <2>1, <3>2, <3>4, SMTT(30) DEF Name
  <2>3. NameBelow(c, b)
    BY Zenon DEF NameBelow
  <2> HIDE DEF c
  <2>4. PICK u \in Seq(Char) : Join(c) = Dotted(u, Join(b))
    BY <2>2, <2>3, Zenon DEF TextBelow
  <2>5. Join(Append(c, l)) = Dotted(Join(c), Chars[l])
    BY <2>2, JoinMore, SMTT(30)
  <2>6. Dotted(Dotted(u, Join(b)), Chars[l]) = Dotted(u, Dotted(Join(b), Chars[l]))
    BY <1>0, DottedTwice
  <2> QED BY <2>2, <2>4, <2>5, <2>6, Zenon DEF TextBelow
<1> QED BY <1>1, <1>2

(* The comparison of text never takes notexample.com for a host below        *)
(* example.com: it says of the texts what NameBelow says of the labels.      *)
LEMMA BelowSame ==
    ASSUME NEW a \in Name, NEW b \in Name
    PROVE  TextBelow(Join(a), Join(b)) <=> NameBelow(a, b)
<1> DEFINE Same(n) == \A c \in Name : TextBelow(Join(c), Join(n)) <=> NameBelow(c, n)
           T == {n \in Seq(Label) : n \in Name => Same(n)}
<1>1. <<>> \in T
  <2>1. <<>> \in Seq(Label) /\ <<>> \notin Name
    BY DEF Name
  <2> QED BY <2>1, Zenon
<1>2. ASSUME NEW n \in Seq(Label), NEW l \in Label, n \in T PROVE Append(n, l) \in T
  <2>1. Append(n, l) \in Seq(Label)
    OBVIOUS
  <2>2. CASE n = <<>>
    <3>1. Join(Append(n, l)) = Chars[l]
      BY <2>2, JoinOne, Zenon
    <3>2. Same(Append(n, l))
      BY <2>2, <3>1, BelowOne, Zenon
    <3> QED BY <2>1, <3>2, Zenon
  <2>3. CASE n # <<>>
    <3>1. n \in Name
      BY <2>3, Zenon DEF Name
    <3>2. Join(Append(n, l)) = Dotted(Join(n), Chars[l])
      BY <3>1, JoinMore
    <3>3. Same(n)
      BY <1>2, <3>1, Zenon
    <3>4. Same(Append(n, l))
      BY <3>1, <3>2, <3>3, BelowMore, Zenon
    <3> QED BY <2>1, <3>4, Zenon
  <2> QED BY <2>2, <2>3, Zenon
<1>3. Seq(Label) \subseteq T
  <2> HIDE DEF T
  <2> QED BY <1>1, <1>2, SeqInduct, Zenon
<1>4. b \in Seq(Label)
  BY DEF Name
<1> QED BY <1>3, <1>4, Zenon

(* Two names with one text are one name. *)
LEMMA JoinInjective ==
    ASSUME NEW a \in Name, NEW b \in Name, Join(a) = Join(b)
    PROVE  a = b
<1> DEFINE Only(n) == \A c \in Name : Join(c) = Join(n) => c = n
           T == {n \in Seq(Label) : n \in Name => Only(n)}
<1>1. <<>> \in T
  <2>1. <<>> \in Seq(Label) /\ <<>> \notin Name
    BY DEF Name
  <2> QED BY <2>1, Zenon
<1>2. ASSUME NEW n \in Seq(Label), NEW l \in Label, n \in T PROVE Append(n, l) \in T
  <2>0. Dotless(Chars[l]) /\ Chars[l] \in Seq(Char)
    BY CharsDotless, LabelChars, Zenon
  <2>1. Append(n, l) \in Seq(Label)
    OBVIOUS
  <2> SUFFICES ASSUME NEW c \in Name, Join(c) = Join(Append(n, l)) PROVE c = Append(n, l)
    BY <2>1, Zenon
  <2>2. CASE n = <<>> /\ \E m \in Label : c = Append(<<>>, m) /\ Join(c) = Chars[m]
    <3>1. PICK m \in Label : c = Append(<<>>, m) /\ Join(c) = Chars[m]
      BY <2>2, Zenon
    <3>2. Join(Append(n, l)) = Chars[l]
      BY <2>2, JoinOne, Zenon
    <3>3. Chars[m] = Chars[l]
      BY <3>1, <3>2, Zenon
    <3>4. m = l
      BY <3>3, RulesAssumption, Zenon
    <3> QED BY <2>2, <3>1, <3>4, Zenon
  <2>3. CASE n = <<>> /\ \E e \in Name, m \in Label : c = Append(e, m) /\ Join(c) = Dotted(Join(e), Chars[m])
    <3>1. PICK e \in Name, m \in Label : Join(c) = Dotted(Join(e), Chars[m])
      BY <2>3, Zenon
    <3>2. Join(Append(n, l)) = Chars[l]
      BY <2>3, JoinOne, Zenon
    <3>3. Join(e) \in Seq(Char) /\ Chars[m] \in Seq(Char)
      BY JoinText, LabelChars, Zenon
    <3>4. Dotted(Join(e), Chars[m]) # Chars[l]
      BY <2>0, <3>3, NoDot, Zenon
    <3> QED BY <3>1, <3>2, <3>4, Zenon
  <2>4. CASE n # <<>> /\ \E m \in Label : c = Append(<<>>, m) /\ Join(c) = Chars[m]
    <3>1. PICK m \in Label : Join(c) = Chars[m]
      BY <2>4, Zenon
    <3>2. n \in Name
      BY <2>4, Zenon DEF Name
    <3>3. Join(Append(n, l)) = Dotted(Join(n), Chars[l]) /\ Join(n) \in Seq(Char)
      BY <3>2, JoinMore, JoinText, Zenon
    <3>4. Dotless(Chars[m])
      BY CharsDotless, Zenon
    <3>5. Dotted(Join(n), Chars[l]) # Chars[m]
      BY <2>0, <3>3, <3>4, NoDot, Zenon
    <3> QED BY <3>1, <3>3, <3>5, Zenon
  <2>5. CASE n # <<>> /\ \E e \in Name, m \in Label : c = Append(e, m) /\ Join(c) = Dotted(Join(e), Chars[m])
    <3>1. PICK e \in Name, m \in Label : c = Append(e, m) /\ Join(c) = Dotted(Join(e), Chars[m])
      BY <2>5, Zenon
    <3>2. n \in Name
      BY <2>5, Zenon DEF Name
    <3>3. Join(Append(n, l)) = Dotted(Join(n), Chars[l]) /\ Join(n) \in Seq(Char)
      BY <3>2, JoinMore, JoinText
    <3>4. Dotless(Chars[m]) /\ Join(e) \in Seq(Char)
      BY CharsDotless, JoinText, Zenon
    <3>5. Dotted(Join(e), Chars[m]) = Dotted(Join(n), Chars[l])
      BY <3>1, <3>3, Zenon
    <3>6. Join(e) = Join(n) /\ Chars[m] = Chars[l]
      BY <2>0, <3>3, <3>4, <3>5, LastDot, ZenonT(100)
    <3>7. m = l
      BY <3>6, RulesAssumption, Zenon
    <3>8. e = n
      BY <1>2, <3>2, <3>6, Zenon
    <3> QED BY <3>1, <3>7, <3>8, Zenon
  <2> QED BY <2>2, <2>3, <2>4, <2>5, LastLabel, Zenon
<1>3. Seq(Label) \subseteq T
  <2> HIDE DEF T
  <2> QED BY <1>1, <1>2, SeqInduct, Zenon
<1>4. b \in Seq(Label)
  BY DEF Name
<1> QED BY <1>3, <1>4, Zenon

-----------------------------------------------------------------------------
(* strings.HasSuffix *)

LEMMA SuffixIs ==
    ASSUME NEW B, NEW s \in Seq(B), NEW t \in Seq(B)
    PROVE  HasSuffix(s, t) <=> \E u \in Seq(B) : s = u \o t
<1>0. Len(s) \in Nat /\ Len(t) \in Nat
  OBVIOUS
<1>1. ASSUME HasSuffix(s, t) PROVE \E u \in Seq(B) : s = u \o t
  <2> DEFINE i == Len(s) - Len(t) + 1
  <2>1. i \in 1..Len(s) + 1 /\ SubSeq(s, i, Len(s)) = t
    BY <1>0, <1>1 DEF HasSuffix
  <2> HIDE DEF i
  <2>2. /\ SubSeq(s, 1, i - 1) \in Seq(B)
        /\ SubSeq(s, 1, i - 1) \o SubSeq(s, i, Len(s)) = s
    BY <2>1, CutWhole, Zenon
  <2> QED BY <2>1, <2>2, Zenon
<1>2. ASSUME NEW u \in Seq(B), s = u \o t PROVE HasSuffix(s, t)
  <2>1. Len(s) = Len(u) + Len(t) /\ Len(u) \in Nat
    BY <1>2
  <2>2. Len(s) >= Len(t) /\ Len(s) - Len(t) + 1 = Len(u) + 1
    BY <1>0, <2>1
  <2>3. SubSeq(u \o t, Len(u) + 1, Len(u \o t)) = t
    OBVIOUS
  <2> QED BY <1>2, <2>2, <2>3, Zenon DEF HasSuffix
<1> QED BY <1>1, <1>2, Zenon

LEMMA HostNames == /\ \A n \in HostName : n \in Name /\ Text[n] = Join(n)
                   /\ PrototypeKey \subseteq HostName
  BY RulesAssumption, Zenon DEF Name, Text

(* The texts a suffix with a dot in front is a suffix of. *)
LEMMA DotSuffix ==
    ASSUME NEW x \in Seq(Char), NEW y \in Seq(Char)
    PROVE  /\ HasSuffix(x, <<".">> \o y) <=> TextBelow(x, y)
           /\ Len(<<".">> \o y) = Len(y) + 1
<1> DEFINE d == <<".">>
           z == d \o y
<1>1. d \in Seq(Char)
  BY DEF Char
<1>2. z \in Seq(Char) /\ Len(z) = Len(y) + 1
  BY <1>1
<1>3. HasSuffix(x, z) <=> \E u \in Seq(Char) : x = u \o z
  <2> HIDE DEF z
  <2> QED BY <1>2, SuffixIs, ZenonT(30)
<1>4. ASSUME NEW u \in Seq(Char) PROVE u \o z = Dotted(u, y)
  <2> HIDE DEF d
  <2>1. Assoc3(u, d, y)
    BY <1>1, ConcatAssoc3, Zenon
  <2> QED BY <2>1, Zenon DEF Assoc3, Dotted, d
<1> QED BY <1>2, <1>3, <1>4, Zenon DEF TextBelow

(* No text starts with a dot. *)
LEMMA FirstChar ==
    ASSUME NEW a \in Name
    PROVE  Join(a)[1] # "."
<1> DEFINE T == {n \in Seq(Label) : n \in Name => Join(n)[1] # "."}
<1>1. <<>> \in T
  <2>1. <<>> \in Seq(Label) /\ <<>> \notin Name
    BY DEF Name
  <2> QED BY <2>1, Zenon
<1>2. ASSUME NEW n \in Seq(Label), NEW l \in Label, n \in T PROVE Append(n, l) \in T
  <2>0. Chars[l] \in Seq(Char) /\ Chars[l] # <<>> /\ "." \notin Range(Chars[l])
    BY LabelChars, Zenon
  <2>1. Append(n, l) \in Seq(Label)
    OBVIOUS
  <2>2. CASE n = <<>>
    <3>1. Join(Append(n, l)) = Chars[l]
      BY <2>2, JoinOne, Zenon
    <3>2. 1 \in DOMAIN Chars[l]
      BY <2>0
    <3>3. Chars[l][1] # "."
      BY <2>0, <3>2, Zenon DEF Range
    <3> QED BY <2>1, <3>1, <3>3, Zenon
  <2>3. CASE n # <<>>
    <3>1. n \in Name
      BY <2>3, Zenon DEF Name
    <3>2. Join(Append(n, l)) = Dotted(Join(n), Chars[l]) /\ Join(n) \in Seq(Char) /\ Join(n) # <<>>
      BY <3>1, JoinMore, JoinText, SMTT(30)
    <3>3. Join(n)[1] # "."
      BY <1>2, <3>1, Zenon
    <3>4. 1 \in 1..Len(Join(n))
      BY <3>2
    <3>5. DotAt(Dotted(Join(n), Chars[l]), Join(n), Chars[l])
      BY <2>0, <3>2, DottedAt, Zenon
    <3>6. Dotted(Join(n), Chars[l])[1] = Join(n)[1]
      BY <3>4, <3>5, Zenon DEF DotAt
    <3> QED BY <2>1, <3>2, <3>3, <3>6, Zenon
  <2> QED BY <2>2, <2>3, Zenon
<1>3. Seq(Label) \subseteq T
  <2> HIDE DEF T
  <2> QED BY <1>1, <1>2, SeqInduct, Zenon
<1>4. a \in Seq(Label)
  BY DEF Name
<1> QED BY <1>3, <1>4, Zenon

LEMMA BelowLonger ==
    ASSUME NEW a \in Name, NEW b \in Name, NameBelow(a, b)
    PROVE  Len(a) > Len(b) /\ Len(Join(a)) > Len(Join(b)) + 1
<1>1. Len(a) > Len(b)
  <2>1. PICK u \in Name : a = u \o b
    BY Zenon DEF NameBelow
  <2>2. u \in Seq(Label) /\ b \in Seq(Label) /\ Len(u) > 0
    BY DEF Name
  <2>3. Len(u \o b) = Len(u) + Len(b) /\ Len(b) \in Nat /\ Len(u) \in Nat
    BY <2>2
  <2> QED BY <2>1, <2>2, <2>3, SMTT(30)
<1>2. Len(Join(a)) > Len(Join(b)) + 1
  <2>1. Join(a) \in Seq(Char) /\ Join(b) \in Seq(Char)
    BY JoinText, Zenon
  <2>2. PICK u \in Seq(Char) : Join(a) = Dotted(u, Join(b))
    BY BelowSame, Zenon DEF TextBelow
  <2>3. DotAt(Join(a), u, Join(b))
    BY <2>1, <2>2, DottedAt, Zenon
  <2>4. Len(Join(a)) = Len(u) + 1 + Len(Join(b)) /\ Join(a)[Len(u) + 1] = "."
    BY <2>3, Zenon DEF DotAt
  <2>5. Join(a)[1] # "."
    BY FirstChar, Zenon
  <2>6. Len(u) # 0
    BY <2>4, <2>5
  <2>7. Len(u) \in Nat /\ Len(Join(b)) \in Nat
    BY <2>1
  <2> QED BY <2>4, <2>6, <2>7
<1> QED BY <1>1, <1>2, SMTT(30)

(* The three ways to say that a name is below a rule's. *)
LEMMA BelowWays ==
    ASSUME NEW a \in HostName, NEW b \in HostName
    PROVE  /\ HasHostSuffix(a, b) <=> NameBelow(a, b)
           /\ (Len(Text[a]) > Len(<<".">> \o Text[b]) /\ HasSuffix(Text[a], <<".">> \o Text[b]))
                 <=> NameBelow(a, b)
           /\ (Len(a) > Len(b) /\ HasSuffix(a, b)) <=> NameBelow(a, b)
<1>1. a \in Name /\ b \in Name /\ Text[a] = Join(a) /\ Text[b] = Join(b)
  BY HostNames, Zenon
<1>2. Join(a) \in Seq(Char) /\ Join(b) \in Seq(Char)
  BY <1>1, JoinText, Zenon
<1>3. /\ HasSuffix(Join(a), <<".">> \o Join(b)) <=> NameBelow(a, b)
      /\ Len(<<".">> \o Join(b)) = Len(Join(b)) + 1
  <2>1. /\ HasSuffix(Join(a), <<".">> \o Join(b)) <=> TextBelow(Join(a), Join(b))
        /\ Len(<<".">> \o Join(b)) = Len(Join(b)) + 1
    BY <1>2, DotSuffix
  <2>2. TextBelow(Join(a), Join(b)) <=> NameBelow(a, b)
    BY <1>1, BelowSame, Zenon
  <2> QED BY <2>1, <2>2, Zenon
<1>4. NameBelow(a, b) => Len(a) > Len(b) /\ Len(Join(a)) > Len(Join(b)) + 1
  BY <1>1, BelowLonger, Zenon
<1>5. Len(a) > Len(b) => a # b
  <2>1. Len(a) \in Nat /\ a \in Seq(Label)
    BY <1>1 DEF Name
  <2> QED BY <2>1
<1>6. HasHostSuffix(a, b) <=> NameBelow(a, b)
  BY <1>1, <1>3, <1>4, <1>5, ZenonT(30) DEF HasHostSuffix
<1>7. (Len(Text[a]) > Len(<<".">> \o Text[b]) /\ HasSuffix(Text[a], <<".">> \o Text[b])) <=> NameBelow(a, b)
  BY <1>1, <1>3, <1>4, Zenon
<1>8. (Len(a) > Len(b) /\ HasSuffix(a, b)) <=> NameBelow(a, b)
  <2>1. a \in Seq(Label) /\ b \in Seq(Label)
    BY <1>1, Zenon DEF Name
  <2>2. HasSuffix(a, b) <=> \E u \in Seq(Label) : a = u \o b
    BY <2>1, SuffixIs, ZenonT(30)
  <2>3. ASSUME NEW u \in Seq(Label), a = u \o b, Len(a) > Len(b) PROVE u \in Name
    <3>1. u # <<>>
      <4> SUFFICES ASSUME u = <<>> PROVE FALSE
        OBVIOUS
      <4>1. <<>> \o b = b /\ Len(b) \in Nat
        BY <2>1, SMTT(30)
      <4> QED BY <2>3, <4>1
    <3> QED BY <3>1, Zenon DEF Name
  <2>4. \A u \in Name : u \in Seq(Label)
    BY SMTT(30) DEF Name
  <2> QED BY <1>4, <2>2, <2>3, <2>4, Zenon DEF NameBelow
<1> QED BY <1>6, <1>7, <1>8, Zenon

-----------------------------------------------------------------------------
(* The matcher's tables and the rules they were built from *)

Exact(rs, i, h) == ~rs[i].wild /\ rs[i].raw.name = h

\* The rule of h that counts in the exact table: the last.
LastExact(rs, i, h) == Exact(rs, i, h) /\ \A j \in 1..Len(rs) : Exact(rs, j, h) => j <= i

ExactTable(rs, ex) ==
    /\ DOMAIN ex \subseteq HostName
    /\ \A i \in 1..Len(rs) : ~rs[i].wild => rs[i].raw.name \in DOMAIN ex
    /\ \A h \in DOMAIN ex : \E i \in 1..Len(rs) : LastExact(rs, i, h) /\ ex[h] = rs[i].group

\* at tells which rule each entry of the wildcard table is: the wildcards, in
\* their order.
Placed(rs, ws, at) ==
    /\ at \in [1..Len(ws) -> 1..Len(rs)]
    /\ \A k \in 1..Len(ws) : /\ rs[at[k]].wild
                             /\ ws[k].host = rs[at[k]].raw.name
                             /\ ws[k].group = rs[at[k]].group
    /\ \A k, m \in 1..Len(ws) : k < m => at[k] < at[m]
    /\ \A i \in 1..Len(rs) : rs[i].wild => \E k \in 1..Len(ws) : at[k] = i

Held(rs, ws) == \E at : Placed(rs, ws, at)

Entry == [host : HostName, group : Group]

RulesIInv ==
    /\ added \in Seq(Rule)
    /\ \A i \in 1..Len(added) : NormalizeHost(added[i].raw) # NoHost
    /\ wildcard \in Seq(Entry)
    /\ ExactTable(added, exact)
    /\ Held(added, wildcard)

\* A sequence with one more element.
Longer(s, x, t) ==
    Len(t) = Len(s) + 1 /\ Len(s) \in Nat /\ t[Len(s) + 1] = x /\ \A i \in 1..Len(s) : t[i] = s[i]

LEMMA AppendLonger ==
    ASSUME NEW B, NEW s \in Seq(B), NEW x \in B
    PROVE  Longer(s, x, Append(s, x))
  BY DEF Longer

LEMMA HostIs ==
    ASSUME NEW raw, NormalizeHost(raw) # NoHost
    PROVE  NormalizeHost(raw) = raw.name
  BY Zenon DEF NormalizeHost

(* A wildcard leaves the exact table as it is. *)
LEMMA ExactSame ==
    ASSUME NEW rs, NEW r, NEW rs2, Longer(rs, r, rs2), r.wild, NEW ex, ExactTable(rs, ex)
    PROVE  ExactTable(rs2, ex)
<1>1. \A i \in 1..Len(rs2) : i \in 1..Len(rs) \/ i = Len(rs) + 1
  BY DEF Longer
<1>2. \A i \in 1..Len(rs) : i \in 1..Len(rs2) /\ rs2[i] = rs[i]
  BY DEF Longer
<1>3. rs2[Len(rs) + 1].wild
  BY DEF Longer
<1>4. ASSUME NEW i \in 1..Len(rs2), ~rs2[i].wild PROVE rs2[i].raw.name \in DOMAIN ex
  BY <1>1, <1>2, <1>3, <1>4, Zenon DEF ExactTable
<1>5. ASSUME NEW h \in DOMAIN ex PROVE \E i \in 1..Len(rs2) : LastExact(rs2, i, h) /\ ex[h] = rs2[i].group
  <2>1. PICK i \in 1..Len(rs) : LastExact(rs, i, h) /\ ex[h] = rs[i].group
    BY Zenon DEF ExactTable
  <2>2. Exact(rs2, i, h)
    BY <1>2, <2>1, Zenon DEF LastExact, Exact
  <2>3. ASSUME NEW j \in 1..Len(rs2), Exact(rs2, j, h) PROVE j <= i
    <3>1. j \in 1..Len(rs)
      BY <1>1, <1>3, <2>3, Zenon DEF Exact
    <3>2. Exact(rs, j, h)
      BY <1>2, <2>3, <3>1, Zenon DEF Exact
    <3> QED BY <2>1, <3>1, <3>2, Zenon DEF LastExact
  <2>4. LastExact(rs2, i, h)
    BY <2>2, <2>3, Zenon DEF LastExact
  <2> QED BY <1>2, <2>1, <2>4, Zenon
<1> QED BY <1>4, <1>5, Zenon DEF ExactTable

Overwritten(ex, h0, g, ex2) == ex2 = [h \in DOMAIN ex \cup {h0} |-> IF h = h0 THEN g ELSE ex[h]]

(* An exact rule takes the place of an earlier one of its host. *)
LEMMA ExactAdd ==
    ASSUME NEW rs, NEW r, NEW rs2, Longer(rs, r, rs2), ~r.wild, NEW ex, ExactTable(rs, ex),
           NEW h0 \in HostName, r.raw.name = h0,
           NEW ex2, Overwritten(ex, h0, r.group, ex2)
    PROVE  ExactTable(rs2, ex2)
<1> DEFINE n == Len(rs) + 1
<1>0. DOMAIN ex2 = DOMAIN ex \cup {h0} /\ ex2[h0] = r.group /\ \A h \in DOMAIN ex : h # h0 => ex2[h] = ex[h]
  BY Zenon DEF Overwritten
<1>1. \A i \in 1..Len(rs2) : (i \in 1..Len(rs) \/ i = n) /\ i <= n
  BY SMTT(30) DEF Longer
<1>2. \A i \in 1..Len(rs) : i \in 1..Len(rs2) /\ rs2[i] = rs[i]
  BY DEF Longer
<1>3. n \in 1..Len(rs2) /\ rs2[n] = r
  BY DEF Longer
<1> HIDE DEF n
<1>4. ASSUME NEW i \in 1..Len(rs2), ~rs2[i].wild PROVE rs2[i].raw.name \in DOMAIN ex2
  BY <1>0, <1>1, <1>2, <1>3, <1>4, Zenon DEF ExactTable
<1>5. LastExact(rs2, n, h0)
  BY <1>1, <1>3, Zenon DEF LastExact, Exact
<1>6. ASSUME NEW h \in DOMAIN ex, h # h0
      PROVE  \E i \in 1..Len(rs2) : LastExact(rs2, i, h) /\ ex2[h] = rs2[i].group
  <2>1. PICK i \in 1..Len(rs) : LastExact(rs, i, h) /\ ex[h] = rs[i].group
    BY Zenon DEF ExactTable
  <2>2. Exact(rs2, i, h)
    BY <1>2, <2>1, Zenon DEF LastExact, Exact
  <2>3. ASSUME NEW j \in 1..Len(rs2), Exact(rs2, j, h) PROVE j <= i
    <3>1. j \in 1..Len(rs)
      BY <1>1, <1>3, <1>6, <2>3, ZenonT(30) DEF Exact
    <3>2. Exact(rs, j, h)
      BY <1>2, <2>3, <3>1, Zenon DEF Exact
    <3> QED BY <2>1, <3>1, <3>2, Zenon DEF LastExact
  <2>4. LastExact(rs2, i, h)
    BY <2>2, <2>3, Zenon DEF LastExact
  <2> QED BY <1>0, <1>2, <1>6, <2>1, <2>4, Zenon
<1>7. DOMAIN ex2 \subseteq HostName
  BY <1>0, Zenon DEF ExactTable
<1> QED BY <1>0, <1>3, <1>4, <1>5, <1>6, <1>7, Zenon DEF ExactTable

(* An exact rule leaves the wildcard table as it is. *)
LEMMA PlacedSame ==
    ASSUME NEW rs, NEW r, NEW rs2, Longer(rs, r, rs2), ~r.wild, NEW ws, NEW at, Placed(rs, ws, at)
    PROVE  Placed(rs2, ws, at)
<1>1. \A i \in 1..Len(rs2) : i \in 1..Len(rs) \/ i = Len(rs) + 1
  BY DEF Longer
<1>2. \A i \in 1..Len(rs) : i \in 1..Len(rs2) /\ rs2[i] = rs[i]
  BY DEF Longer
<1>3. rs2[Len(rs) + 1] = r
  BY Zenon DEF Longer
<1>4. at \in [1..Len(ws) -> 1..Len(rs)]
  BY SMTT(30) DEF Placed
<1>5. at \in [1..Len(ws) -> 1..Len(rs2)]
  BY <1>2, <1>4, SMTT(30)
<1>6. \A k \in 1..Len(ws) : at[k] \in 1..Len(rs)
  BY <1>4
<1>7. ASSUME NEW k \in 1..Len(ws)
      PROVE  rs2[at[k]].wild /\ ws[k].host = rs2[at[k]].raw.name /\ ws[k].group = rs2[at[k]].group
  BY <1>2, <1>6, ZenonT(30) DEF Placed
<1>8. ASSUME NEW i \in 1..Len(rs2), rs2[i].wild PROVE \E k \in 1..Len(ws) : at[k] = i
  BY <1>1, <1>2, <1>3, <1>8, Zenon DEF Placed
<1>9. \A k, m \in 1..Len(ws) : k < m => at[k] < at[m]
  BY Zenon DEF Placed
<1> QED BY <1>5, <1>7, <1>8, <1>9, Zenon DEF Placed

(* A wildcard goes to the end of its table. *)
LEMMA PlacedAdd ==
    ASSUME NEW rs, NEW r, NEW rs2, Longer(rs, r, rs2), r.wild,
           NEW ws, NEW w, NEW ws2, Longer(ws, w, ws2), w.host = r.raw.name, w.group = r.group,
           NEW at, Placed(rs, ws, at)
    PROVE  Held(rs2, ws2)
<1> DEFINE n == Len(rs) + 1
           c == Len(ws) + 1
           at2 == [k \in 1..c |-> IF k = c THEN n ELSE at[k]]
<1>0. Len(rs) \in Nat /\ Len(ws) \in Nat /\ Len(rs2) = n /\ Len(ws2) = c
  BY DEF Longer
<1>1. \A i \in 1..n : i \in 1..Len(rs) \/ i = n
  BY <1>0, SMTT(30)
<1>2. \A i \in 1..Len(rs) : i \in 1..n /\ rs2[i] = rs[i] /\ i < n
  BY <1>0, SMTT(30) DEF Longer
<1>3. n \in 1..n /\ rs2[n] = r
  BY SMTT(30) DEF Longer
<1>4. \A k \in 1..c : k \in 1..Len(ws) \/ k = c
  BY <1>0, SMTT(30)
<1>5. \A k \in 1..Len(ws) : k \in 1..c /\ ws2[k] = ws[k] /\ k # c /\ ~(c < k)
  BY <1>0, SMTT(30) DEF Longer
<1>6. c \in 1..c /\ ws2[c] = w /\ ~(c < c)
  BY <1>0, SMTT(30) DEF Longer
<1>7. \A k \in 1..Len(ws) : at[k] \in 1..Len(rs)
  BY DEF Placed
<1> HIDE DEF n, c
<1>8. at2[c] = n /\ \A k \in 1..Len(ws) : at2[k] = at[k]
  BY <1>5, <1>6, Zenon
<1>9. at2 \in [1..c -> 1..n]
  BY <1>2, <1>3, <1>4, <1>7, Zenon
<1> HIDE DEF at2
<1>10. ASSUME NEW k \in 1..c
       PROVE  rs2[at2[k]].wild /\ ws2[k].host = rs2[at2[k]].raw.name /\ ws2[k].group = rs2[at2[k]].group
  <2>1. CASE k = c
    BY <1>3, <1>6, <1>8, <2>1, Zenon
  <2>2. CASE k \in 1..Len(ws)
    <3>1. at2[k] = at[k] /\ ws2[k] = ws[k] /\ rs2[at[k]] = rs[at[k]]
      BY <1>2, <1>5, <1>7, <1>8, <2>2, Zenon
    <3>2. rs[at[k]].wild /\ ws[k].host = rs[at[k]].raw.name /\ ws[k].group = rs[at[k]].group
      BY <2>2, Zenon DEF Placed
    <3> QED BY <3>1, <3>2, Zenon
  <2> QED BY <1>4, <2>1, <2>2, Zenon
<1>11. ASSUME NEW k \in 1..c, NEW m \in 1..c, k < m PROVE at2[k] < at2[m]
  <2>1. CASE m = c
    <3>1. k \in 1..Len(ws)
      BY <1>4, <1>6, <1>11, <2>1, Zenon
    <3> QED BY <1>2, <1>7, <1>8, <2>1, <3>1, Zenon
  <2>2. CASE m \in 1..Len(ws)
    <3>1. k \in 1..Len(ws)
      BY <1>4, <1>5, <1>11, <2>2, ZenonT(30)
    <3> QED BY <1>8, <1>11, <2>2, <3>1, Zenon DEF Placed
  <2> QED BY <1>4, <2>1, <2>2, Zenon
<1>12. ASSUME NEW i \in 1..n, rs2[i].wild PROVE \E k \in 1..c : at2[k] = i
  <2>1. CASE i = n
    BY <1>6, <1>8, <2>1, ZenonT(30)
  <2>2. CASE i \in 1..Len(rs)
    <3>1. PICK k \in 1..Len(ws) : at[k] = i
      BY <1>2, <1>12, <2>2, Zenon DEF Placed
    <3> QED BY <1>5, <1>8, <3>1, Zenon
  <2> QED BY <1>1, <2>1, <2>2, ZenonT(30)
<1>13. Placed(rs2, ws2, at2)
  BY <1>0, <1>9, <1>10, <1>11, <1>12, Zenon DEF Placed
<1> QED BY <1>13, Zenon DEF Held

LEMMA RulesStart == RulesInit => RulesIInv
<1> SUFFICES ASSUME RulesInit PROVE RulesIInv
  OBVIOUS
<1>1. added = <<>> /\ wildcard = <<>> /\ DOMAIN exact = {}
  BY Zenon DEF RulesInit
<1>2. <<>> \in Seq(Rule) /\ <<>> \in Seq(Entry) /\ 1..Len(<<>>) = {}
  OBVIOUS
<1>3. ExactTable(added, exact)
  BY <1>1, <1>2, Zenon DEF ExactTable
<1>4. Placed(added, wildcard, <<>>)
  <2>1. <<>> \in [1..0 -> 1..0] /\ Len(<<>>) = 0
    OBVIOUS
  <2>2. 1..0 = {}
    OBVIOUS
  <2> QED BY <1>1, <2>1, <2>2, Zenon DEF Placed
<1> QED BY <1>1, <1>2, <1>3, <1>4, Zenon DEF RulesIInv, Held

LEMMA RulesAdd ==
    ASSUME RulesIInv, NEW r \in Rule, AddRule(r)
    PROVE  RulesIInv'
<1> DEFINE host == r.raw.name
<1>0. NormalizeHost(r.raw) # NoHost /\ NormalizeHost(r.raw) = host
  BY HostIs, Zenon DEF AddRule
<1>1. r.raw \in RawHost /\ host \in HostName /\ r.group \in Group /\ r.wild \in BOOLEAN
  BY DEF Rule, RawHost
<1>2. added' = Append(added, r)
  BY Zenon DEF AddRule
<1>3. added \in Seq(Rule) /\ wildcard \in Seq(Entry)
  BY Zenon DEF RulesIInv
<1>4. added' \in Seq(Rule) /\ Longer(added, r, added')
  <2>1. Append(added, r) \in Seq(Rule)
    BY <1>3
  <2>2. Longer(added, r, Append(added, r))
    BY <1>3, AppendLonger, Zenon
  <2> QED BY <1>2, <2>1, <2>2, Zenon
<1>5. \A i \in 1..Len(added') : NormalizeHost(added'[i].raw) # NoHost
  <2>1. ASSUME NEW i \in 1..Len(added') PROVE i \in 1..Len(added) \/ i = Len(added) + 1
    BY <1>4 DEF Longer
  <2>2. added'[Len(added) + 1] = r /\ \A i \in 1..Len(added) : added'[i] = added[i]
    BY <1>4, Zenon DEF Longer
  <2> QED BY <1>0, <2>1, <2>2, Zenon DEF RulesIInv
<1>6. PICK at : Placed(added, wildcard, at)
  BY Zenon DEF RulesIInv, Held
<1>7. ExactTable(added, exact)
  BY Zenon DEF RulesIInv
<1>8. CASE r.wild
  <2> DEFINE w == [host |-> host, group |-> r.group]
  <2>1. wildcard' = Append(wildcard, w) /\ exact' = exact
    BY <1>0, <1>8, Zenon DEF AddRule
  <2>2. w \in Entry /\ w.host = host /\ w.group = r.group
    BY <1>1 DEF Entry
  <2> HIDE DEF w
  <2>3. wildcard' \in Seq(Entry) /\ Longer(wildcard, w, wildcard')
    <3>1. Append(wildcard, w) \in Seq(Entry)
      BY <1>3, <2>2
    <3>2. Longer(wildcard, w, Append(wildcard, w))
      BY <1>3, <2>2, AppendLonger, Zenon
    <3> QED BY <2>1, <3>1, <3>2, Zenon
  <2>4. Held(added', wildcard')
    BY <1>4, <1>6, <1>8, <2>2, <2>3, PlacedAdd, ZenonT(30)
  <2>5. ExactTable(added', exact')
    BY <1>4, <1>7, <1>8, <2>1, ExactSame, Zenon
  <2> QED BY <1>4, <1>5, <2>3, <2>4, <2>5, ZenonT(30) DEF RulesIInv
<1>9. CASE ~r.wild
  <2>1. wildcard' = wildcard /\ Overwritten(exact, host, r.group, exact')
    BY <1>0, <1>9, Zenon DEF AddRule, Overwritten
  <2>2. Placed(added', wildcard, at)
    BY <1>4, <1>6, <1>9, PlacedSame, Zenon
  <2>3. ExactTable(added', exact')
    BY <1>1, <1>4, <1>7, <1>9, <2>1, ExactAdd, ZenonT(30)
  <2> QED BY <1>3, <1>4, <1>5, <2>1, <2>2, <2>3, ZenonT(30) DEF RulesIInv, Held
<1> QED BY <1>8, <1>9, Zenon

(* Whatever rules NewMatcher is given, its tables hold them: the last of the *)
(* exact rules of each host, and the wildcards in their order (addGroup).    *)
THEOREM RulesInvariant == RulesSpec => []RulesIInv
<1>1. RulesInit => RulesIInv
  BY RulesStart
<1>2. RulesIInv /\ [RulesNext]_rulesVars => RulesIInv'
  <2> SUFFICES ASSUME RulesIInv, [RulesNext]_rulesVars PROVE RulesIInv'
    OBVIOUS
  <2>1. ASSUME NEW r \in Rule, AddRule(r) PROVE RulesIInv'
    BY <2>1, RulesAdd, Zenon
  <2>2. ASSUME NEW r \in Rule, RejectRule(r) PROVE RulesIInv'
    BY <2>2, Zenon DEF RejectRule, RulesIInv
  <2>3. CASE UNCHANGED rulesVars
    BY <2>3, Zenon DEF rulesVars, RulesIInv
  <2> QED BY <2>1, <2>2, <2>3, Zenon DEF RulesNext
<1> QED BY <1>1, <1>2, PTL DEF RulesSpec

-----------------------------------------------------------------------------
(* What MatchHost answers *)

WildHits(name) == {k \in DOMAIN wildcard : HasHostSuffix(name, wildcard[k].host)}
First(S) == CHOOSE j \in S : \A k \in S : j <= k

LEMMA MatchIs ==
    ASSUME NEW raw
    PROVE  /\ NormalizeHost(raw) = NoHost => MatchHost(raw) = NoMatch
           /\ NormalizeHost(raw) # NoHost =>
                 /\ raw.name \in DOMAIN exact =>
                       MatchHost(raw) = [ok |-> TRUE, group |-> exact[raw.name], wild |-> FALSE]
                 /\ (raw.name \notin DOMAIN exact /\ WildHits(raw.name) # {}) =>
                       MatchHost(raw) = [ok |-> TRUE, group |-> wildcard[First(WildHits(raw.name))].group,
                                         wild |-> TRUE]
                 /\ (raw.name \notin DOMAIN exact /\ WildHits(raw.name) = {}) => MatchHost(raw) = NoMatch
<1>1. NormalizeHost(raw) = NoHost => MatchHost(raw) = NoMatch
  BY Zenon DEF MatchHost
<1>2. ASSUME NormalizeHost(raw) # NoHost, raw.name \in DOMAIN exact
      PROVE  MatchHost(raw) = [ok |-> TRUE, group |-> exact[raw.name], wild |-> FALSE]
  BY <1>2, HostIs, ZenonT(30) DEF MatchHost
<1>3. ASSUME NormalizeHost(raw) # NoHost, raw.name \notin DOMAIN exact, WildHits(raw.name) # {}
      PROVE  MatchHost(raw) = [ok |-> TRUE, group |-> wildcard[First(WildHits(raw.name))].group,
                               wild |-> TRUE]
  <2>1. NormalizeHost(raw) = raw.name
    BY <1>3, HostIs
  <2>2. {k \in DOMAIN wildcard : HasHostSuffix(raw.name, wildcard[k].host)} # {}
    BY <1>3, Zenon DEF WildHits
  <2> QED BY <1>3, <2>1, <2>2, Zenon DEF MatchHost, WildHits, First
<1>4. ASSUME NormalizeHost(raw) # NoHost, raw.name \notin DOMAIN exact, WildHits(raw.name) = {}
      PROVE  MatchHost(raw) = NoMatch
  BY <1>4, HostIs, Zenon DEF MatchHost, WildHits
<1> QED BY <1>1, <1>2, <1>3, <1>4, Zenon

(* The wildcard entries that hit are those of the rules that cover. *)
LEMMA WildHitsAre ==
    ASSUME RulesIInv, NEW name \in HostName
    PROVE  /\ WildHits(name) = {k \in 1..Len(wildcard) : NameBelow(name, wildcard[k].host)}
           /\ \A k \in 1..Len(wildcard) : wildcard[k].host \in HostName
<1>1. wildcard \in Seq(Entry)
  BY Zenon DEF RulesIInv
<1>2. DOMAIN wildcard = 1..Len(wildcard) /\ \A k \in 1..Len(wildcard) : wildcard[k] \in Entry
  BY <1>1
<1>3. \A k \in 1..Len(wildcard) : wildcard[k].host \in HostName
  BY <1>2 DEF Entry
<1>4. \A k \in 1..Len(wildcard) : HasHostSuffix(name, wildcard[k].host) <=> NameBelow(name, wildcard[k].host)
  BY <1>3, BelowWays, Zenon
<1> QED BY <1>2, <1>3, <1>4, Zenon DEF WildHits

LEMMA FirstIs ==
    ASSUME NEW S, S \subseteq Nat, S # {}
    PROVE  First(S) \in S /\ \A k \in S : First(S) <= k
<1>1. \E j \in S : \A k \in S : j <= k
  BY LeastExists, Zenon
<1> QED BY <1>1, Zenon DEF First

LEMMA CoveringIs ==
    ASSUME RulesIInv, NEW raw \in RawHost, NormalizeHost(raw) # NoHost
    PROVE  Covering(raw) = {i \in 1..Len(added) : IF added[i].wild THEN NameBelow(raw.name, added[i].raw.name)
                                                 ELSE added[i].raw.name = raw.name}
<1>1. added \in Seq(Rule) /\ raw.name \in HostName
  BY DEF RulesIInv, RawHost
<1>2. DOMAIN added = 1..Len(added) /\ \A i \in 1..Len(added) : added[i] \in Rule
  BY <1>1, SMTT(30)
<1>3. \A i \in 1..Len(added) : added[i].raw.name \in HostName
  BY <1>2, SMTT(30) DEF Rule, RawHost
<1>4. ASSUME NEW i \in 1..Len(added)
      PROVE  Covers(added[i], raw.name) <=> IF added[i].wild THEN NameBelow(raw.name, added[i].raw.name)
                                            ELSE added[i].raw.name = raw.name
  <2>1. (Len(raw.name) > Len(added[i].raw.name) /\ HasSuffix(raw.name, added[i].raw.name))
           <=> NameBelow(raw.name, added[i].raw.name)
    BY <1>1, <1>3, BelowWays, ZenonT(30)
  <2> QED BY <2>1, Zenon DEF Covers
<1> QED BY <1>2, <1>4, Zenon DEF Covering

(* MatchHost accepts exactly the hosts some rule covers label by label, and  *)
(* attributes the match to the last exact rule or else the first wildcard.   *)
THEOREM RulesMatchesCovered == RulesSpec => []MatchesCovered
<1>1. RulesIInv => MatchesCovered
  <2> SUFFICES ASSUME RulesIInv, NEW raw \in RawHost
               PROVE  LET hits == Covering(raw)
                          exacts == {i \in hits : ~added[i].wild}
                          winner == IF exacts # {} THEN CHOOSE i \in exacts : \A j \in exacts : j <= i
                                    ELSE CHOOSE i \in hits : \A j \in hits : i <= j
                      IN  IF hits = {} THEN ~MatchHost(raw).ok
                          ELSE MatchHost(raw) = [ok |-> TRUE, group |-> added[winner].group,
                                                 wild |-> added[winner].wild]
    BY Zenon DEF MatchesCovered
  <2> DEFINE hits == Covering(raw)
             exacts == {i \in hits : ~added[i].wild}
             name == raw.name
             winner == IF exacts # {} THEN CHOOSE i \in exacts : \A j \in exacts : j <= i
                       ELSE CHOOSE i \in hits : \A j \in hits : i <= j
  <2>0. ~NoMatch.ok
    BY DEF NoMatch
  <2>1. CASE NormalizeHost(raw) = NoHost
    <3>1. hits = {}
      BY <2>1, Zenon DEF Covering
    <3>2. MatchHost(raw) = NoMatch
      BY <2>1, MatchIs, Zenon
    <3> QED BY <2>0, <3>1, <3>2, Zenon
  <2>2. CASE NormalizeHost(raw) # NoHost
    <3>0. name \in HostName
      BY DEF RawHost
    <3>1. hits = {i \in 1..Len(added) : IF added[i].wild THEN NameBelow(name, added[i].raw.name)
                                         ELSE added[i].raw.name = name}
      BY <2>2, CoveringIs, Zenon
    <3>2. exacts = {i \in 1..Len(added) : Exact(added, i, name)}
      BY <3>1, Zenon DEF Exact
    <3> HIDE DEF hits
    <3>3. CASE name \in DOMAIN exact
      <4>1. PICK i \in 1..Len(added) : LastExact(added, i, name) /\ exact[name] = added[i].group
        BY <3>3, Zenon DEF RulesIInv, ExactTable
      <4>2. i \in exacts /\ (\A j \in exacts : j <= i) /\ ~added[i].wild
        BY <3>2, <4>1, ZenonT(30) DEF LastExact, Exact
      <4>3. \A j \in exacts : (\A k \in exacts : k <= j) => j = i
        <5>1. \A j \in exacts : j \in Nat
          BY <3>2
        <5> HIDE DEF exacts
        <5> QED BY <4>2, <5>1, SMTT(30)
      <4>4. hits # {}
        BY <4>2, Zenon
      <4>5. winner = i
        <5> HIDE DEF exacts
        <5> QED BY <4>2, <4>3, Zenon
      <4>6. MatchHost(raw) = [ok |-> TRUE, group |-> exact[name], wild |-> FALSE]
        BY <2>2, <3>3, MatchIs, Zenon
      <4>7. added[i].wild = FALSE
        <5>1. added[i] \in Rule
          BY DEF RulesIInv
        <5> QED BY <4>2, <5>1, Zenon DEF Rule
      <4> HIDE DEF winner
      <4>8. MatchHost(raw) = [ok |-> TRUE, group |-> added[winner].group, wild |-> added[winner].wild]
        BY <4>1, <4>5, <4>6, <4>7, ZenonT(30)
      <4> QED BY <4>4, <4>8, Zenon DEF winner, hits
    <3>4. CASE name \notin DOMAIN exact
      <4>1. exacts = {}
        BY <3>2, <3>4, Zenon DEF RulesIInv, ExactTable, Exact
      <4> DEFINE wh == WildHits(name)
      <4>2. wh = {k \in 1..Len(wildcard) : NameBelow(name, wildcard[k].host)}
        BY <3>0, WildHitsAre, Zenon
      <4>3. PICK at : Placed(added, wildcard, at)
        BY Zenon DEF RulesIInv, Held
      <4>4. \A k \in 1..Len(wildcard) : at[k] \in 1..Len(added)
        BY <4>3 DEF Placed
      <4>5. \A k \in wh : at[k] \in hits
        BY <3>1, <4>2, <4>3, <4>4, Zenon DEF Placed
      <4>6. \A i \in hits : added[i].wild
        BY <4>1, Zenon
      <4>7. \A i \in hits : \E k \in wh : at[k] = i
        <5>1. ASSUME NEW i \in hits PROVE \E k \in wh : at[k] = i
          <6>1. i \in 1..Len(added) /\ NameBelow(name, added[i].raw.name)
            BY <3>1, <4>6, Zenon
          <6>2. PICK k \in 1..Len(wildcard) : at[k] = i
            BY <4>3, <4>6, <6>1, ZenonT(30) DEF Placed
          <6>3. wildcard[k].host = added[at[k]].raw.name
            BY <4>3, ZenonT(30) DEF Placed
          <6> QED BY <4>2, <6>1, <6>2, <6>3, Zenon
        <5> QED BY <5>1, Zenon
      <4> HIDE DEF wh
      <4>8. CASE wh = {}
        <5>1. hits = {}
          BY <4>7, <4>8, Zenon
        <5>2. MatchHost(raw) = NoMatch
          BY <2>2, <3>4, <4>8, MatchIs, Zenon DEF wh
        <5> QED BY <2>0, <5>1, <5>2, Zenon DEF hits
      <4>9. CASE wh # {}
        <5> DEFINE j == First(wh)
        <5>1. wh \subseteq Nat
          BY <4>2
        <5>2. j \in wh /\ \A k \in wh : j <= k
          BY <4>9, <5>1, FirstIs, Zenon
        <5>3. MatchHost(raw) = [ok |-> TRUE, group |-> wildcard[j].group, wild |-> TRUE]
          BY <2>2, <3>4, <4>9, MatchIs, Zenon DEF wh
        <5> HIDE DEF j
        <5>4. at[j] \in hits
          BY <4>5, <5>2, Zenon
        <5>5. ASSUME NEW i \in hits PROVE at[j] <= i
          <6>1. PICK k \in wh : at[k] = i
            BY <4>7, Zenon
          <6>2. j \in 1..Len(wildcard) /\ k \in 1..Len(wildcard) /\ j <= k
            BY <4>2, <5>2, <6>1, Zenon
          <6>3. at[j] \in Nat /\ at[k] \in Nat
            BY <4>4, <6>2
          <6>4. j = k \/ j < k
            BY <6>2
          <6>5. j < k => at[j] < at[k]
            BY <4>3, <6>2, Zenon DEF Placed
          <6> QED BY <6>1, <6>3, <6>4, <6>5, SMTT(30)
        <5>6. hits \subseteq Nat
          BY <3>1
        <5>7. (CHOOSE i \in hits : \A m \in hits : i <= m) = at[j]
          <6>1. \A i \in hits : (\A m \in hits : i <= m) => i = at[j]
            <7>1. ASSUME NEW i \in hits, \A m \in hits : i <= m PROVE i = at[j]
              <8>1. i <= at[j] /\ at[j] <= i
                BY <5>4, <5>5, <7>1, Zenon
              <8>2. i \in Nat /\ at[j] \in Nat
                BY <5>4, <5>6, Zenon
              <8> QED BY <8>1, <8>2
            <7> QED BY <7>1, Zenon
          <6> QED BY <5>4, <5>5, <6>1, Zenon
        <5>8. winner = at[j]
          BY <4>1, <5>7, Zenon
        <5>9. wildcard[j].group = added[at[j]].group
          BY <4>2, <4>3, <5>2, Zenon DEF Placed
        <5>10. added[at[j]].wild = TRUE
          <6>1. added[at[j]] \in Rule
            <7>1. at[j] \in 1..Len(added)
              BY <3>1, <5>4, Zenon
            <7> QED BY <7>1 DEF RulesIInv
          <6>2. added[at[j]].wild
            BY <4>6, <5>4, Zenon
          <6> QED BY <6>1, <6>2 DEF Rule
        <5> HIDE DEF winner
        <5>11. MatchHost(raw) = [ok |-> TRUE, group |-> added[winner].group, wild |-> added[winner].wild]
          BY <5>3, <5>8, <5>9, <5>10, ZenonT(30)
        <5> QED BY <5>4, <5>11, Zenon DEF winner, hits
      <4> QED BY <4>8, <4>9, Zenon
    <3> QED BY <3>3, <3>4, Zenon
  <2> QED BY <2>1, <2>2, Zenon
<1> QED BY <1>1, RulesInvariant, PTL

(* The script sends to the proxy what the proxy takes for a target, but for  *)
(* the two exceptions of PacAgrees.                                          *)
THEOREM RulesPacAgrees == RulesSpec => []PacAgrees
<1>1. RulesIInv => PacAgrees
  <2> SUFFICES ASSUME RulesIInv, NEW raw \in BrowserHost
               PROVE  /\ MatchHost(raw).ok => FindProxy(raw)
                      /\ FindProxy(raw) => \/ MatchHost(raw).ok
                                           \/ NormalizeHost(raw) = NoHost
                                           \/ raw.name \in PrototypeKey
    BY Zenon DEF PacAgrees
  <2> DEFINE name == raw.name
  <2>0. ~NoMatch.ok /\ name \in HostName
    BY DEF NoMatch, BrowserHost, RawHost
  <2>1. \A h \in HostName : Text[name] = Text[h] <=> h = name
    BY <2>0, HostNames, JoinInjective, ZenonT(30)
  <2>2. PacExact(Text[name]) <=> name \in DOMAIN exact \/ name \in PrototypeKey
    <3>1. DOMAIN exact \subseteq HostName /\ PrototypeKey \subseteq HostName
      BY HostNames, Zenon DEF RulesIInv, ExactTable
    <3> QED BY <2>1, <3>1, Zenon DEF PacExact
  <2>3. /\ WildHits(name) = {k \in 1..Len(wildcard) : NameBelow(name, wildcard[k].host)}
        /\ \A k \in 1..Len(wildcard) : wildcard[k].host \in HostName
    BY <2>0, WildHitsAre, Zenon
  <2>4. FindProxy(raw) <=> \/ name \in DOMAIN exact
                          \/ name \in PrototypeKey
                          \/ WildHits(name) # {}
    <3>1. \A k \in 1..Len(wildcard) :
             (/\ Len(Text[name]) > Len(<<".">> \o Text[wildcard[k].host])
              /\ HasSuffix(Text[name], <<".">> \o Text[wildcard[k].host])) <=> NameBelow(name, wildcard[k].host)
      BY <2>0, <2>3, BelowWays, Zenon
    <3>2. DOMAIN wildcard = 1..Len(wildcard)
      BY DEF RulesIInv
    <3>3. FindProxy(raw) <=>
             \/ PacExact(Text[name])
             \/ \E k \in 1..Len(wildcard) :
                   /\ Len(Text[name]) > Len(<<".">> \o Text[wildcard[k].host])
                   /\ HasSuffix(Text[name], <<".">> \o Text[wildcard[k].host])
      BY <3>2, Zenon DEF FindProxy, PacHost
    <3>4. WildHits(name) # {} <=> \E k \in 1..Len(wildcard) : NameBelow(name, wildcard[k].host)
      BY <2>3, Zenon
    <3> QED BY <2>2, <3>1, <3>3, <3>4, Zenon
  <2>5. CASE NormalizeHost(raw) = NoHost
    BY <2>0, <2>5, MatchIs, Zenon
  <2>6. CASE NormalizeHost(raw) # NoHost /\ name \in DOMAIN exact
    <3>1. MatchHost(raw) = [ok |-> TRUE, group |-> exact[name], wild |-> FALSE]
      BY <2>6, MatchIs, Zenon
    <3>2. MatchHost(raw).ok
      BY <3>1
    <3> QED BY <2>4, <2>6, <3>2, Zenon
  <2>7. CASE NormalizeHost(raw) # NoHost /\ name \notin DOMAIN exact /\ WildHits(name) # {}
    <3>1. MatchHost(raw) = [ok |-> TRUE, group |-> wildcard[First(WildHits(name))].group, wild |-> TRUE]
      BY <2>7, MatchIs, Zenon
    <3>2. MatchHost(raw).ok
      BY <3>1
    <3> QED BY <2>4, <2>7, <3>2, Zenon
  <2>8. CASE NormalizeHost(raw) # NoHost /\ name \notin DOMAIN exact /\ WildHits(name) = {}
    <3>1. MatchHost(raw) = NoMatch
      BY <2>8, MatchIs, Zenon
    <3> QED BY <2>0, <2>4, <2>8, <3>1, Zenon
  <2> QED BY <2>5, <2>6, <2>7, <2>8, Zenon
<1> QED BY <1>1, RulesInvariant, PTL
=============================================================================
