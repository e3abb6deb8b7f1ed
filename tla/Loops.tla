------------------------------- MODULE Loops --------------------------------
(***************************************************************************)
(* Loops over sequences: what `for _, x := range s { v = step(v, x) }`     *)
(* leaves in v.  step[x] is what the body does to v for x: a function      *)
(* and not an operator, so that a lemma can speak of all loops at once.    *)
(***************************************************************************)
EXTENDS Integers, Sequences, Functions

LoopOver(step, start, s) ==
    LET v[i \in 0..Len(s)] == IF i = 0 THEN start ELSE step[s[i]][v[i - 1]]
    IN  v[Len(s)]

\* The members of S, in order.
Keep(s, S) ==
    LoopOver([x \in Range(s) |-> [kept \in Seq(Range(s)) |->
                 IF x \in S THEN Append(kept, x) ELSE kept]], <<>>, s)

\* The first of each, in order: a loop that keeps what it has not seen.
Distinct(s) ==
    LoopOver([x \in Range(s) |-> [kept \in Seq(Range(s)) |->
                 IF x \in Range(kept) THEN kept ELSE Append(kept, x)]], <<>>, s)
=============================================================================
