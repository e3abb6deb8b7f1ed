------------------------------ MODULE Induction ------------------------------
(***************************************************************************)
(* Induction over numbers and over sequences, and with it what loops over  *)
(* sequences of any length compute.  The induction theorems of the library *)
(* take the property as an operator, which the provers do not instantiate; *)
(* here it is a set: the numbers, or the sequences, that have it.  Before  *)
(* that, the sums and the orders in which the proofs of bounds end.        *)
(***************************************************************************)
EXTENDS Loops, WellFoundedInduction, TLAPS

-----------------------------------------------------------------------------
(* Sums and bounds: products in order, the lesser of two, ages, lifetimes  *)
(* and what is left of them.                                               *)

LEMMA AtMost ==
    ASSUME NEW x \in Nat, NEW y \in Nat, NEW z \in Nat, x <= y, y <= z
    PROVE  x <= z
OBVIOUS

LEMMA AtMostInt ==
    ASSUME NEW x \in Nat, NEW y \in Nat, NEW z \in Int, x <= y, y <= z
    PROVE  x <= z
OBVIOUS

LEMMA SameNat ==
    ASSUME NEW x \in Nat, NEW y \in Nat, x <= y, y <= x
    PROVE  x = y
OBVIOUS

LEMMA Multiples ==
    ASSUME NEW x \in Nat, NEW y \in Nat, NEW k \in Nat, x <= y
    PROVE  x * k <= y * k
OBVIOUS

LEMMA Products == \A x, y \in Nat : x * y \in Nat
OBVIOUS

LEMMA Lesser ==
    ASSUME NEW x \in Nat, NEW y \in Nat, NEW z, z = IF x > y THEN y ELSE x
    PROVE  z \in Nat /\ z <= x /\ z <= y
OBVIOUS

LEMMA NoRest == \A u \in Nat \ {0} : (-0) % u = 0
OBVIOUS

LEMMA SinceExpiry ==
    ASSUME NEW t \in Nat, NEW at \in Nat, NEW expires \in Nat, NEW pause \in Nat, NEW second \in Nat,
           at < expires, t - at <= pause, pause <= second
    PROVE  expires - t \in Int /\ -(expires - t) < second
OBVIOUS

LEMMA Clocks ==
    ASSUME NEW t \in Nat, NEW pause \in Nat, NEW ttl \in Nat
    PROVE  /\ 0 <= t /\ t <= t /\ t - t <= pause /\ t + ttl \in Nat /\ 0 <= 0 + pause + ttl
OBVIOUS

LEMMA Sums ==
    ASSUME NEW now \in Nat, NEW born \in Nat, NEW expires \in Nat, NEW at \in Nat,
           NEW pause \in Nat, NEW ttl \in Nat, NEW life \in Nat, NEW x \in Nat, NEW y \in Nat
    PROVE  /\ x <= y /\ y <= expires - now /\ expires <= born + pause + life
                => now + x <= born + life + pause
           /\ at < expires /\ now - at <= pause /\ expires <= born + pause + life
                => now - born < life + 2 * pause
           /\ now - born <= pause /\ ttl <= life => now + ttl <= born + pause + life
           /\ now - born <= pause => now + life <= born + life + pause
OBVIOUS

LEMMA Ages ==
    ASSUME NEW start \in Nat, NEW born \in Nat, NEW t \in Nat, NEW limit \in Nat,
           start <= born, t - start <= limit
    PROVE  t - born <= limit
OBVIOUS

LEMMA Earlier ==
    ASSUME NEW t \in Nat, NEW expire \in Nat, NEW born \in Nat, NEW a \in Nat, NEW b \in Nat,
           t <= expire, expire - born <= a + b
    PROVE  t - born <= a + b
OBVIOUS

LEMMA Lasts ==
    ASSUME NEW t \in Nat, NEW born \in Nat, NEW cap \in Nat, NEW ttl \in Nat, NEW limit \in Nat,
           t - born <= limit, cap <= ttl
    PROVE  (t + cap) - born <= ttl + limit /\ t - born <= ttl + limit
OBVIOUS

LEMMA OneLater ==
    ASSUME NEW start \in Nat, NEW t \in Nat, NEW limit \in Nat, t - start < limit
    PROVE  (t + 1) - start <= limit
OBVIOUS

LEMMA StillPast ==
    ASSUME NEW a \in Nat, NEW t \in Nat, a <= t
    PROVE  a <= t + 1
OBVIOUS

-----------------------------------------------------------------------------
(* What is a sequence over a set. *)

LEMMA EmptyIsSeq == \A S : <<>> \in Seq(S)
OBVIOUS

LEMMA OneIsSeq == \A S : \A x \in S : <<x>> \in Seq(S)
OBVIOUS

LEMMA ConcatIsSeq ==
    ASSUME NEW S, NEW s \in Seq(S), NEW t \in Seq(S)
    PROVE  s \o t \in Seq(S)
OBVIOUS

LEMMA WiderSeq ==
    ASSUME NEW S, NEW T, S \subseteq T, NEW s \in Seq(S)
    PROVE  s \in Seq(T)
OBVIOUS

(* The addresses of a sequence of records. *)
LEMMA IpsAreSeq ==
    ASSUME NEW R, NEW A, \A r \in R : r.ip \in A, NEW s \in Seq(R)
    PROVE  [i \in DOMAIN s |-> s[i].ip] \in Seq(A)
<1>1. Len(s) \in Nat /\ DOMAIN s = 1..Len(s) /\ \A i \in 1..Len(s) : s[i] \in R
  OBVIOUS
<1>2. [i \in 1..Len(s) |-> s[i].ip] \in Seq(A)
  BY <1>1
<1> QED BY <1>1, <1>2, Zenon

-----------------------------------------------------------------------------
(* Induction *)

(* A nonempty set of natural numbers has a least element. *)
LEMMA LeastExists ==
    ASSUME NEW S, S \subseteq Nat, S # {}
    PROVE  \E t \in S : \A u \in S : t <= u
<1>1. PICK t \in S : \A u \in S : ~(<<u, t>> \in OpToRel(<, Nat))
  BY NatLessThanWellFounded, WFMin, Zenon
<1>2. \A u \in S : ~(u < t)
  BY <1>1, Zenon DEF OpToRel
<1> QED BY <1>2

(* What holds of 0, and of n + 1 if it holds of n, holds of all numbers. *)
LEMMA Induct ==
    ASSUME NEW T, 0 \in T, \A n \in Nat : n \in T => n + 1 \in T
    PROVE  Nat \subseteq T
<1> SUFFICES ASSUME Nat \ T # {} PROVE FALSE
  OBVIOUS
<1>1. PICK t \in Nat \ T : \A u \in Nat \ T : t <= u
  BY LeastExists, Zenon
<1>2. t - 1 \in Nat /\ t - 1 \in T
  BY <1>1
<1> QED BY <1>1, <1>2

(* The same up to a bound. *)
LEMMA InductTo ==
    ASSUME NEW m \in Nat, NEW T, 0 \in T, \A n \in 0..m - 1 : n \in T => n + 1 \in T
    PROVE  0..m \subseteq T
<1> DEFINE U == {n \in Nat : n <= m => n \in T}
<1>1. 0 \in U
  OBVIOUS
<1>2. \A n \in Nat : n \in U => n + 1 \in U
  OBVIOUS
<1>3. Nat \subseteq U
  <2> HIDE DEF U
  <2> QED BY <1>1, <1>2, Induct
<1> QED BY <1>3

(* What holds of the empty sequence, and of a sequence with one more       *)
(* element if it holds of the sequence, holds of all sequences.            *)
LEMMA SeqInduct ==
    ASSUME NEW S, NEW T, <<>> \in T,
           \A s \in Seq(S), x \in S : s \in T => Append(s, x) \in T
    PROVE  Seq(S) \subseteq T
<1> DEFINE N == {n \in Nat : \A s \in Seq(S) : Len(s) = n => s \in T}
<1>1. 0 \in N
  OBVIOUS
<1>2. ASSUME NEW n \in Nat, n \in N PROVE n + 1 \in N
  <2> SUFFICES ASSUME NEW s \in Seq(S), Len(s) = n + 1 PROVE s \in T
    OBVIOUS
  <2> DEFINE front == [i \in 1..n |-> s[i]]
  <2>1. front \in Seq(S) /\ Len(front) = n /\ s[n + 1] \in S
    OBVIOUS
  <2>2. s = Append(front, s[n + 1])
    OBVIOUS
  <2>3. front \in T
    BY <1>2, <2>1
  <2> HIDE DEF front
  <2> QED BY <2>1, <2>2, <2>3, Zenon
<1>3. Nat \subseteq N
  <2> HIDE DEF N
  <2> QED BY <1>1, <1>2, Induct
<1> QED BY <1>3

-----------------------------------------------------------------------------
(* Loops *)

(* v has the values of the loop variable: at first, and after each element. *)
IsRun(v, step, start, s) ==
    v = [i \in 0..Len(s) |-> IF i = 0 THEN start ELSE step[s[i]][v[i - 1]]]

LEMMA RunExists ==
    ASSUME NEW A, NEW B, NEW start \in A, NEW step \in [B -> [A -> A]], NEW s \in Seq(B)
    PROVE  \E v \in [0..Len(s) -> A] : IsRun(v, step, start, s)
<1> DEFINE Upto(v, n) == v[0] = start /\ \A i \in 1..n : v[i] = step[s[i]][v[i - 1]]
<1> DEFINE T == {n \in 0..Len(s) : \E v \in [0..n -> A] : Upto(v, n)}
<1>1. 0 \in T
  <2> DEFINE v == [i \in 0..0 |-> start]
  <2>1. v \in [0..0 -> A] /\ v[0] = start /\ 1..0 = {}
    OBVIOUS
  <2>2. Upto(v, 0)
    BY <2>1
  <2> HIDE DEF v, Upto
  <2> QED BY <2>1, <2>2
<1>2. ASSUME NEW n \in 0..Len(s) - 1, n \in T PROVE n + 1 \in T
  <2>1. PICK v \in [0..n -> A] : Upto(v, n)
    BY <1>2
  <2> DEFINE w == [i \in 0..n + 1 |-> IF i = n + 1 THEN step[s[n + 1]][v[n]] ELSE v[i]]
  <2>2. s[n + 1] \in B /\ v[n] \in A
    OBVIOUS
  <2>3. step[s[n + 1]][v[n]] \in A
    BY <2>2
  <2>4. w \in [0..n + 1 -> A]
    BY <2>3, SMTT(30)
  <2>5. Upto(w, n + 1)
    BY <2>1
  <2>6. n + 1 \in 0..Len(s)
    OBVIOUS
  <2> HIDE DEF w, Upto
  <2> QED BY <2>4, <2>5, <2>6
<1>3. 0..Len(s) \subseteq T
  <2> HIDE DEF T
  <2>1. Len(s) \in Nat
    OBVIOUS
  <2> QED BY <1>1, <1>2, <2>1, InductTo, Zenon
<1>4. PICK v \in [0..Len(s) -> A] : Upto(v, Len(s))
  BY <1>3
<1>5. IsRun(v, step, start, s)
  BY <1>4 DEF IsRun
<1> QED BY <1>5

LEMMA RunUnique ==
    ASSUME NEW step, NEW start, NEW B, NEW s \in Seq(B), NEW v, NEW w,
           IsRun(v, step, start, s), IsRun(w, step, start, s)
    PROVE  v = w
<1> DEFINE T == {n \in 0..Len(s) : v[n] = w[n]}
<1>1. 0 \in T
  BY DEF IsRun
<1>2. ASSUME NEW n \in 0..Len(s) - 1, n \in T PROVE n + 1 \in T
  BY <1>2 DEF IsRun
<1>3. 0..Len(s) \subseteq T
  <2> HIDE DEF T
  <2>1. Len(s) \in Nat
    OBVIOUS
  <2> QED BY <1>1, <1>2, <2>1, InductTo, SMTT(30)
<1> QED BY <1>3 DEF IsRun

LEMMA LoopIsRun ==
    ASSUME NEW step, NEW start, NEW B, NEW s \in Seq(B), NEW v, IsRun(v, step, start, s)
    PROVE  LoopOver(step, start, s) = v[Len(s)]
<1> DEFINE chosen == CHOOSE u : IsRun(u, step, start, s)
<1>1. IsRun(chosen, step, start, s)
  OBVIOUS
<1>2. chosen = v
  <2> HIDE DEF chosen
  <2> QED BY <1>1, RunUnique
<1>3. LoopOver(step, start, s) = chosen[Len(s)]
  BY DEF LoopOver, IsRun
<1> QED BY <1>2, <1>3, Zenon

(* A loop over s whose variable stays in A. *)
LoopIn(A, B, f, start, s) == f \in [B -> [A -> A]] /\ start \in A /\ s \in Seq(B)

(* g does what f does. *)
Extends(g, f, A, B) == \A b \in B, a \in A : g[b][a] = f[b][a]

(* One turn more: what a loop computes, from what it computed so far.  The *)
(* steps of the two loops need not be the same beyond what the first does. *)
LEMMA LoopAppend ==
    ASSUME NEW A, NEW B, NEW f, NEW start, NEW s, LoopIn(A, B, f, start, s),
           NEW g, Extends(g, f, A, B), NEW x
    PROVE  /\ LoopOver(f, start, s) \in A
           /\ LoopOver(g, start, Append(s, x)) = g[x][LoopOver(f, start, s)]
<1>0. f \in [B -> [A -> A]] /\ start \in A /\ s \in Seq(B)
  BY DEF LoopIn
<1>1. PICK v \in [0..Len(s) -> A] : IsRun(v, f, start, s)
  BY <1>0, RunExists
<1>2. LoopOver(f, start, s) = v[Len(s)] /\ v[Len(s)] \in A
  <2>1. Len(s) \in 0..Len(s)
    BY <1>0
  <2> QED BY <1>0, <1>1, <2>1, LoopIsRun
<1> DEFINE t == Append(s, x)
           w == [i \in 0..Len(t) |-> IF i = Len(t) THEN g[x][v[Len(s)]] ELSE v[i]]
<1>3. t \in Seq(B \cup {x}) /\ Len(t) = Len(s) + 1 /\ t[Len(t)] = x
      /\ \A i \in 1..Len(s) : t[i] = s[i] /\ s[i] \in B
  BY <1>0
<1>4. IsRun(w, g, start, t)
  <2>0. ASSUME NEW i \in 0..Len(s)
        PROVE  v[i] = IF i = 0 THEN start ELSE f[s[i]][v[i - 1]]
    BY <1>1, Zenon DEF IsRun
  <2>1. v[0] = start
    BY <2>0, <1>0
  <2>2. ASSUME NEW i \in 1..Len(s) PROVE v[i] = g[t[i]][v[i - 1]]
    <3>1. v[i] = f[s[i]][v[i - 1]]
      BY <1>0, <2>0
    <3>2. i - 1 \in 0..Len(s)
      BY <1>0
    <3>3. v[i - 1] \in A
      BY <3>2
    <3>4. s[i] \in B /\ t[i] = s[i]
      BY <1>3, Zenon
    <3> QED BY <3>1, <3>3, <3>4 DEF Extends
  <2> HIDE DEF t
  <2>3. \A i \in 0..Len(t) : w[i] = IF i = 0 THEN start ELSE g[t[i]][w[i - 1]]
    BY <2>1, <2>2, <1>3
  <2> QED BY <2>3, SMTT(30) DEF IsRun
<1>5. LoopOver(g, start, t) = w[Len(t)]
  <2> HIDE DEF w, t
  <2> QED BY <1>3, <1>4, LoopIsRun
<1>6. w[Len(t)] = g[x][v[Len(s)]]
  BY <1>3
<1> QED BY <1>2, <1>5, <1>6

LEMMA LoopEmpty ==
    ASSUME NEW step, NEW start
    PROVE  LoopOver(step, start, <<>>) = start
<1> DEFINE v == [i \in 0..0 |-> start]
<1>1. IsRun(v, step, start, <<>>)
  BY DEF IsRun
<1>2. <<>> \in Seq({})
  OBVIOUS
<1>3. LoopOver(step, start, <<>>) = v[Len(<<>>)]
  <2> HIDE DEF v
  <2> QED BY <1>1, <1>2, LoopIsRun, Zenon
<1> QED BY <1>3

-----------------------------------------------------------------------------
(* Appending and joining sequences *)

LEMMA RangeOfSeq ==
    ASSUME NEW B, NEW s \in Seq(B)
    PROVE  s \in Seq(Range(s)) /\ Range(s) \subseteq B
  BY DEF Range

LEMMA RangeAppend ==
    ASSUME NEW B, NEW s \in Seq(B), NEW x
    PROVE  Range(Append(s, x)) = Range(s) \cup {x}
<1> DEFINE n == Len(s)
           t == Append(s, x)
<1>1. n \in Nat /\ DOMAIN s = 1..n
  OBVIOUS
<1>2. DOMAIN t = 1..n + 1 /\ t[n + 1] = x /\ \A i \in 1..n : t[i] = s[i]
  OBVIOUS
<1>3. 1..n + 1 = (1..n) \cup {n + 1}
  BY <1>1
<1> HIDE DEF n, t
<1> QED BY <1>1, <1>2, <1>3, ZenonT(30) DEF Range, t

LEMMA RangeEmpty == Range(<<>>) = {}
  BY DEF Range

LEMMA AppendConcat ==
    ASSUME NEW B, NEW s \in Seq(B), NEW t \in Seq(B), NEW x \in B
    PROVE  s \o Append(t, x) = Append(s \o t, x) /\ s \o t \in Seq(B)
  OBVIOUS

LEMMA ConcatAssoc ==
    ASSUME NEW B, NEW s \in Seq(B), NEW t \in Seq(B), NEW u \in Seq(B)
    PROVE  (s \o t) \o u = s \o (t \o u)
  OBVIOUS

\* The same as a predicate, which the provers look up by its name.
Assoc3(s, t, u) == (s \o t) \o u = s \o (t \o u)

LEMMA ConcatAssoc3 ==
    ASSUME NEW B, NEW s \in Seq(B), NEW t \in Seq(B), NEW u \in Seq(B)
    PROVE  Assoc3(s, t, u)
<1>1. (s \o t) \o u = s \o (t \o u)
  OBVIOUS
<1> QED BY <1>1, Zenon DEF Assoc3

LEMMA ConcatEmpty ==
    ASSUME NEW B, NEW s \in Seq(B)
    PROVE  s \o <<>> = s /\ <<>> \o s = s
  OBVIOUS

LEMMA CutWhole ==
    ASSUME NEW B, NEW b \in Seq(B), NEW i \in 1..Len(b) + 1
    PROVE  /\ SubSeq(b, 1, i - 1) \in Seq(B) /\ SubSeq(b, i, Len(b)) \in Seq(B)
           /\ SubSeq(b, 1, i - 1) \o SubSeq(b, i, Len(b)) = b
<1>3. SubSeq(b, 1, i - 1) \in Seq(B) /\ SubSeq(b, i, Len(b)) \in Seq(B)
  OBVIOUS
<1>4. SubSeq(b, 1, i - 1) \o SubSeq(b, i, Len(b)) = b
  <2> DEFINE l == SubSeq(b, 1, i - 1)
             r == SubSeq(b, i, Len(b))
             n == Len(b)
  <2>1. l \in Seq(B) /\ r \in Seq(B) /\ Len(l) = i - 1 /\ Len(r) = n - i + 1 /\ n \in Nat
    OBVIOUS
  <2>2. (\A j \in 1..i - 1 : l[j] = b[j]) /\ (\A j \in 1..n - i + 1 : r[j] = b[j + i - 1])
    OBVIOUS
  <2> HIDE DEF l, r
  <2>3. l \o r \in Seq(B) /\ Len(l \o r) = n
    BY <2>1
  <2>4. ASSUME NEW j \in 1..n PROVE (l \o r)[j] = b[j]
    <3>1. CASE j <= i - 1
      <4>1. (l \o r)[j] = l[j] /\ j \in 1..i - 1
        BY <2>1, <3>1
      <4> QED BY <4>1, <2>2
    <3>2. CASE j > i - 1
      <4> DEFINE h == j - (i - 1)
      <4>1. h \in 1..Len(r) /\ h \in 1..n - i + 1 /\ h + i - 1 = j /\ Len(l) + h = j
        BY <2>1, <3>2
      <4>2. \A g \in 1..Len(r) : (l \o r)[Len(l) + g] = r[g]
        BY <2>1, SMTT(30)
      <4>3. (l \o r)[j] = r[h]
        BY <4>1, <4>2, Zenon
      <4> HIDE DEF h
      <4>4. r[h] = b[h + i - 1]
        BY <2>2, <4>1
      <4> QED BY <4>1, <4>3, <4>4, Zenon
    <3>3. j <= i - 1 \/ j > i - 1
      BY <2>1
    <3> QED BY <3>1, <3>2, <3>3, Zenon
  <2> DEFINE t == l \o r
  <2> HIDE DEF t
  <2>5. t \in Seq(B) /\ Len(t) = Len(b) /\ \A j \in 1..Len(b) : t[j] = b[j]
    BY <2>3, <2>4 DEF t
  <2>6. t = b
    BY <2>5
  <2> QED BY <2>6, Zenon DEF l, r, t
<1> QED BY <1>3, <1>4, Zenon

LEMMA SingleConcat ==
    ASSUME NEW B, NEW s \in Seq(B), NEW x \in B
    PROVE  Append(s, x) = s \o <<x>> /\ <<x>> \in Seq(B)
  OBVIOUS

-----------------------------------------------------------------------------
(* Keep *)

LEMMA KeepEmpty == \A S : Keep(<<>>, S) = <<>>
  BY LoopEmpty, Zenon DEF Keep

LEMMA KeepAppend ==
    ASSUME NEW B, NEW s \in Seq(B), NEW x, NEW S
    PROVE  /\ Keep(s, S) \in Seq(Range(s))
           /\ Keep(Append(s, x), S) = IF x \in S THEN Append(Keep(s, S), x) ELSE Keep(s, S)
<1> DEFINE R == Range(s)
           R2 == Range(Append(s, x))
           F(D) == [y \in D |-> [kept \in Seq(D) |->
                      IF y \in S THEN Append(kept, y) ELSE kept]]
<1>1. Keep(s, S) = LoopOver(F(R), <<>>, s)
      /\ Keep(Append(s, x), S) = LoopOver(F(R2), <<>>, Append(s, x))
  BY Zenon DEF Keep
<1>2. s \in Seq(R) /\ R2 = R \cup {x}
  BY RangeOfSeq, RangeAppend, Zenon
<1> HIDE DEF R, R2
<1>3. Seq(R) \subseteq Seq(R2) /\ <<>> \in Seq(R) /\ x \in R2 /\ R \subseteq R2
  BY <1>2
<1>4. ASSUME NEW D PROVE F(D) \in [D -> [Seq(D) -> Seq(D)]]
  OBVIOUS
<1>5. \A b \in R, a \in Seq(R) : F(R2)[b][a] = F(R)[b][a]
  BY <1>3
<1>6. \A a \in Seq(R2) : F(R2)[x][a] = IF x \in S THEN Append(a, x) ELSE a
  BY <1>3
<1> HIDE DEF F
<1>7. /\ LoopOver(F(R), <<>>, s) \in Seq(R)
      /\ LoopOver(F(R2), <<>>, Append(s, x)) = F(R2)[x][LoopOver(F(R), <<>>, s)]
  <2> DEFINE f == F(R)
             g == F(R2)
             A == Seq(R)
  <2>1. LoopIn(A, R, f, <<>>, s)
    BY <1>2, <1>3, <1>4 DEF LoopIn
  <2>2. Extends(g, f, A, R)
    BY <1>5 DEF Extends
  <2> HIDE DEF f, g, A
  <2>3. LoopOver(f, <<>>, s) \in A /\ LoopOver(g, <<>>, Append(s, x)) = g[x][LoopOver(f, <<>>, s)]
    BY <2>1, <2>2, LoopAppend
  <2> QED BY <2>3 DEF f, g, A
<1> QED BY <1>1, <1>3, <1>6, <1>7, Zenon DEF R

(* Keep keeps the members of S, and nothing else. *)
LEMMA KeepFacts ==
    ASSUME NEW B, NEW s \in Seq(B), NEW S
    PROVE  Keep(s, S) \in Seq(B) /\ Range(Keep(s, S)) = Range(s) \cap S
<1> DEFINE T == {t \in Seq(B) : Keep(t, S) \in Seq(B) /\ Range(Keep(t, S)) = Range(t) \cap S}
<1>1. <<>> \in T
  <2>1. Keep(<<>>, S) = <<>> /\ <<>> \in Seq(B) /\ Range(<<>>) \cap S = {}
    BY KeepEmpty, RangeEmpty
  <2> QED BY <2>1, RangeEmpty, Zenon
<1>2. ASSUME NEW t \in Seq(B), NEW x \in B, t \in T PROVE Append(t, x) \in T
  <2>1. Keep(Append(t, x), S) = IF x \in S THEN Append(Keep(t, S), x) ELSE Keep(t, S)
    BY KeepAppend, Zenon
  <2>2. Keep(t, S) \in Seq(B) /\ Range(Keep(t, S)) = Range(t) \cap S
    BY <1>2
  <2>3. Range(Append(t, x)) = Range(t) \cup {x} /\ Append(t, x) \in Seq(B)
    BY RangeAppend
  <2>4. Range(Append(Keep(t, S), x)) = Range(Keep(t, S)) \cup {x}
    BY <2>2, RangeAppend
  <2>5. Range(Keep(Append(t, x), S)) = Range(Append(t, x)) \cap S
    BY <2>1, <2>2, <2>3, <2>4
  <2>6. Keep(Append(t, x), S) \in Seq(B)
    BY <2>1, <2>2
  <2> QED BY <2>3, <2>5, <2>6
<1>3. Seq(B) \subseteq T
  <2> HIDE DEF T
  <2> QED BY <1>1, <1>2, SeqInduct
<1> QED BY <1>3

LEMMA KeepConcat ==
    ASSUME NEW B, NEW s \in Seq(B), NEW t \in Seq(B), NEW S
    PROVE  Keep(s \o t, S) = Keep(s, S) \o Keep(t, S)
<1> DEFINE T == {u \in Seq(B) : Keep(s \o u, S) = Keep(s, S) \o Keep(u, S)}
<1>0. Keep(s, S) \in Seq(B)
  BY KeepFacts
<1>1. <<>> \in T
  BY <1>0, KeepEmpty, ConcatEmpty
<1>2. ASSUME NEW u \in Seq(B), NEW x \in B, u \in T PROVE Append(u, x) \in T
  <2>1. s \o Append(u, x) = Append(s \o u, x) /\ s \o u \in Seq(B) /\ Append(u, x) \in Seq(B)
    BY AppendConcat
  <2>2. /\ Keep(Append(s \o u, x), S) = IF x \in S THEN Append(Keep(s \o u, S), x) ELSE Keep(s \o u, S)
        /\ Keep(Append(u, x), S) = IF x \in S THEN Append(Keep(u, S), x) ELSE Keep(u, S)
    BY <2>1, KeepAppend, Zenon
  <2>3. Keep(u, S) \in Seq(B)
    BY KeepFacts
  <2>4. Keep(s, S) \o Append(Keep(u, S), x) = Append(Keep(s, S) \o Keep(u, S), x)
    BY <1>0, <2>3, AppendConcat, SMTT(30)
  <2> QED BY <1>2, <2>1, <2>2, <2>4, Zenon
<1>3. Seq(B) \subseteq T
  <2> HIDE DEF T
  <2> QED BY <1>1, <1>2, SeqInduct
<1> QED BY <1>3

-----------------------------------------------------------------------------
(* Distinct *)

LEMMA DistinctEmpty == Distinct(<<>>) = <<>>
  BY LoopEmpty, Zenon DEF Distinct

LEMMA DistinctAppend ==
    ASSUME NEW B, NEW s \in Seq(B), NEW x
    PROVE  /\ Distinct(s) \in Seq(Range(s))
           /\ Distinct(Append(s, x)) = IF x \in Range(Distinct(s)) THEN Distinct(s)
                                      ELSE Append(Distinct(s), x)
<1> DEFINE R == Range(s)
           R2 == Range(Append(s, x))
           F(D) == [y \in D |-> [kept \in Seq(D) |->
                      IF y \in Range(kept) THEN kept ELSE Append(kept, y)]]
<1>1. Distinct(s) = LoopOver(F(R), <<>>, s)
      /\ Distinct(Append(s, x)) = LoopOver(F(R2), <<>>, Append(s, x))
  BY Zenon DEF Distinct
<1>2. s \in Seq(R) /\ R2 = R \cup {x}
  BY RangeOfSeq, RangeAppend, Zenon
<1> HIDE DEF R, R2
<1>3. Seq(R) \subseteq Seq(R2) /\ <<>> \in Seq(R) /\ x \in R2 /\ R \subseteq R2
  BY <1>2
<1>4. ASSUME NEW D PROVE F(D) \in [D -> [Seq(D) -> Seq(D)]]
  OBVIOUS
<1>5. \A b \in R, a \in Seq(R) : F(R2)[b][a] = F(R)[b][a]
  BY <1>3
<1>6. \A a \in Seq(R2) : F(R2)[x][a] = IF x \in Range(a) THEN a ELSE Append(a, x)
  BY <1>3
<1> HIDE DEF F
<1>7. /\ LoopOver(F(R), <<>>, s) \in Seq(R)
      /\ LoopOver(F(R2), <<>>, Append(s, x)) = F(R2)[x][LoopOver(F(R), <<>>, s)]
  <2> DEFINE f == F(R)
             g == F(R2)
             A == Seq(R)
  <2>1. LoopIn(A, R, f, <<>>, s)
    BY <1>2, <1>3, <1>4 DEF LoopIn
  <2>2. Extends(g, f, A, R)
    BY <1>5 DEF Extends
  <2> HIDE DEF f, g, A
  <2>3. LoopOver(f, <<>>, s) \in A /\ LoopOver(g, <<>>, Append(s, x)) = g[x][LoopOver(f, <<>>, s)]
    BY <2>1, <2>2, LoopAppend
  <2> QED BY <2>3 DEF f, g, A
<1> QED BY <1>1, <1>3, <1>6, <1>7, Zenon DEF R

(* Distinct keeps one of each, and loses none. *)
LEMMA DistinctFacts ==
    ASSUME NEW B, NEW s \in Seq(B)
    PROVE  Distinct(s) \in Seq(B) /\ Range(Distinct(s)) = Range(s)
<1> DEFINE T == {t \in Seq(B) : Distinct(t) \in Seq(B) /\ Range(Distinct(t)) = Range(t)}
<1>1. <<>> \in T
  <2>1. <<>> \in Seq(B)
    OBVIOUS
  <2> QED BY <2>1, DistinctEmpty, Zenon
<1>2. ASSUME NEW t \in Seq(B), NEW x \in B, t \in T PROVE Append(t, x) \in T
  <2>1. Distinct(Append(t, x)) = IF x \in Range(Distinct(t)) THEN Distinct(t)
                                 ELSE Append(Distinct(t), x)
    BY DistinctAppend
  <2>2. Distinct(t) \in Seq(B) /\ Range(Distinct(t)) = Range(t)
    BY <1>2
  <2>3. Range(Append(t, x)) = Range(t) \cup {x} /\ Append(t, x) \in Seq(B)
    BY RangeAppend
  <2>4. Range(Append(Distinct(t), x)) = Range(t) \cup {x}
    BY <2>2, RangeAppend
  <2>5. Range(Distinct(Append(t, x))) = Range(Append(t, x))
    BY <2>1, <2>2, <2>3, <2>4
  <2>6. Distinct(Append(t, x)) \in Seq(B)
    BY <2>1, <2>2
  <2> QED BY <2>3, <2>5, <2>6, Zenon
<1>3. Seq(B) \subseteq T
  <2> HIDE DEF T
  <2> QED BY <1>1, <1>2, SeqInduct
<1> QED BY <1>3

-----------------------------------------------------------------------------
(* Order *)

InOrder(rank, s) == \A i, j \in DOMAIN s : i < j => rank[s[i]] < rank[s[j]]

LEMMA InOrderEmpty == \A rank : InOrder(rank, <<>>)
  BY DEF InOrder

LEMMA InOrderAppend ==
    ASSUME NEW B, NEW s \in Seq(B), NEW x \in B, NEW rank
    PROVE  InOrder(rank, Append(s, x)) <=>
              InOrder(rank, s) /\ \A y \in Range(s) : rank[y] < rank[x]
<1> DEFINE n == Len(s)
           t == Append(s, x)
<1>1. n \in Nat /\ DOMAIN s = 1..n
  OBVIOUS
<1>2. DOMAIN t = 1..n + 1 /\ t[n + 1] = x /\ \A i \in 1..n : t[i] = s[i]
  OBVIOUS
<1>3. \A y : y \in Range(s) <=> \E i \in 1..n : y = s[i]
  BY <1>1 DEF Range
<1> HIDE DEF n, t
<1>4. ASSUME InOrder(rank, t) PROVE InOrder(rank, s) /\ \A y \in Range(s) : rank[y] < rank[x]
  <2>1. ASSUME NEW i \in 1..n, NEW j \in 1..n, i < j PROVE rank[s[i]] < rank[s[j]]
    BY <1>1, <1>2, <1>4, <2>1 DEF InOrder
  <2>2. ASSUME NEW i \in 1..n PROVE rank[s[i]] < rank[x]
    <3>1. i \in 1..n + 1 /\ n + 1 \in 1..n + 1 /\ i < n + 1
      BY <1>1
    <3>2. rank[t[i]] < rank[t[n + 1]]
      BY <1>2, <1>4, <3>1 DEF InOrder
    <3> QED BY <1>2, <3>2
  <2> QED BY <1>1, <1>3, <2>1, <2>2 DEF InOrder
<1>5. ASSUME InOrder(rank, s), \A y \in Range(s) : rank[y] < rank[x] PROVE InOrder(rank, t)
  <2> SUFFICES ASSUME NEW i \in 1..n + 1, NEW j \in 1..n + 1, i < j
               PROVE  rank[t[i]] < rank[t[j]]
    BY <1>2 DEF InOrder
  <2>1. i \in 1..n
    BY <1>1
  <2>2. CASE j = n + 1
    BY <1>2, <1>3, <1>5, <2>1, <2>2
  <2>3. CASE j \in 1..n
    <3>1. rank[s[i]] < rank[s[j]]
      BY <1>1, <1>5, <2>1, <2>3 DEF InOrder
    <3> QED BY <1>2, <2>1, <2>3, <3>1
  <2> QED BY <1>1, <2>2, <2>3
<1> QED BY <1>4, <1>5 DEF t

(* Keep keeps the order. *)
LEMMA KeepInOrder ==
    ASSUME NEW B, NEW s \in Seq(B), NEW S, NEW rank, InOrder(rank, s)
    PROVE  InOrder(rank, Keep(s, S))
<1> DEFINE T == {t \in Seq(B) : InOrder(rank, t) => InOrder(rank, Keep(t, S))}
<1>1. <<>> \in T
  <2>1. <<>> \in Seq(B)
    OBVIOUS
  <2> QED BY <2>1, KeepEmpty, Zenon
<1>2. ASSUME NEW t \in Seq(B), NEW x \in B, t \in T PROVE Append(t, x) \in T
  <2>0. Append(t, x) \in Seq(B)
    OBVIOUS
  <2>1. Keep(Append(t, x), S) = IF x \in S THEN Append(Keep(t, S), x) ELSE Keep(t, S)
    BY KeepAppend, Zenon
  <2>2. Keep(t, S) \in Seq(B) /\ Range(Keep(t, S)) \subseteq Range(t)
    BY KeepFacts
  <2>3. ASSUME InOrder(rank, Append(t, x)) PROVE InOrder(rank, Keep(Append(t, x), S))
    <3>1. InOrder(rank, t) /\ \A y \in Range(t) : rank[y] < rank[x]
      BY <2>3, InOrderAppend
    <3>2. InOrder(rank, Keep(t, S)) /\ \A y \in Range(Keep(t, S)) : rank[y] < rank[x]
      BY <1>2, <2>2, <3>1
    <3>3. InOrder(rank, Append(Keep(t, S), x))
      BY <2>2, <3>2, InOrderAppend
    <3> QED BY <2>1, <3>2, <3>3
  <2> QED BY <2>0, <2>3
<1>3. Seq(B) \subseteq T
  <2> HIDE DEF T
  <2> QED BY <1>1, <1>2, SeqInduct
<1> QED BY <1>3

(* Keeping twice. *)
LEMMA KeepKeep ==
    ASSUME NEW B, NEW s \in Seq(B), NEW S, NEW U
    PROVE  Keep(Keep(s, S), U) = Keep(s, S \cap U)
<1> DEFINE T == {t \in Seq(B) : Keep(Keep(t, S), U) = Keep(t, S \cap U)}
<1>1. <<>> \in T
  <2>1. <<>> \in Seq(B)
    OBVIOUS
  <2> QED BY <2>1, KeepEmpty, Zenon
<1>2. ASSUME NEW t \in Seq(B), NEW x \in B, t \in T PROVE Append(t, x) \in T
  <2> DEFINE V == S \cap U
  <2>0. Append(t, x) \in Seq(B) /\ (x \in V <=> x \in S /\ x \in U)
    OBVIOUS
  <2> HIDE DEF V
  <2>1. Keep(Append(t, x), S) = IF x \in S THEN Append(Keep(t, S), x) ELSE Keep(t, S)
    BY KeepAppend, Zenon
  <2>4. Keep(Append(t, x), V) = IF x \in V THEN Append(Keep(t, V), x) ELSE Keep(t, V)
    BY KeepAppend, Zenon
  <2>2. Keep(t, S) \in Seq(B)
    BY KeepFacts
  <2>3. Keep(Append(Keep(t, S), x), U) = IF x \in U THEN Append(Keep(Keep(t, S), U), x)
                                        ELSE Keep(Keep(t, S), U)
    BY <2>2, KeepAppend, Zenon
  <2>5. Keep(Keep(t, S), U) = Keep(t, V)
    BY <1>2 DEF V
  <2>6. Keep(Keep(Append(t, x), S), U) = Keep(Append(t, x), V)
    BY <2>0, <2>1, <2>3, <2>4, <2>5, Zenon
  <2> QED BY <2>0, <2>6 DEF V
<1>3. Seq(B) \subseteq T
  <2> HIDE DEF T
  <2> QED BY <1>1, <1>2, SeqInduct
<1> QED BY <1>3, Zenon

(* Nothing is kept, everything is kept. *)
LEMMA KeepNone ==
    ASSUME NEW B, NEW s \in Seq(B), NEW S, Range(s) \cap S = {}
    PROVE  Keep(s, S) = <<>>
<1>1. Keep(s, S) \in Seq(B) /\ Range(Keep(s, S)) = {}
  BY KeepFacts
<1>2. \A t \in Seq(B) : Range(t) = {} => t = <<>>
  BY SMTT(30) DEF Range
<1> QED BY <1>1, <1>2

LEMMA KeepAll ==
    ASSUME NEW B, NEW s \in Seq(B), NEW S, B \subseteq S
    PROVE  Keep(s, S) = s
<1> DEFINE T == {t \in Seq(B) : Keep(t, S) = t}
<1>1. <<>> \in T
  <2>1. <<>> \in Seq(B)
    OBVIOUS
  <2> QED BY <2>1, KeepEmpty, Zenon
<1>2. ASSUME NEW t \in Seq(B), NEW x \in B, t \in T PROVE Append(t, x) \in T
  <2>0. Append(t, x) \in Seq(B)
    OBVIOUS
  <2>1. Keep(Append(t, x), S) = IF x \in S THEN Append(Keep(t, S), x) ELSE Keep(t, S)
    BY KeepAppend
  <2> QED BY <1>2, <2>0, <2>1
<1>3. Seq(B) \subseteq T
  <2> HIDE DEF T
  <2> QED BY <1>1, <1>2, SeqInduct
<1> QED BY <1>3
=============================================================================
