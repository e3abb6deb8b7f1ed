---------------------------- MODULE MCDnsIntercept ----------------------------
(***************************************************************************)
(* Instances of DnsIntercept with two upstream servers.                    *)
(***************************************************************************)
EXTENDS DnsIntercept

MCProtoOf == [h \in Slot \cup ByName |-> IF h = "c2" THEN "tcp" ELSE "udp"]

Q(name, type) == [name |-> name, type |-> type]
TargetQuestions == {Q("t", "A"), Q("t", "HTTPS")}
OtherQuestions == {Q("o", "A")}

TwoServers == <<"s1", "s2">>

\* The manual strategy with a named server, and the system strategy without
\* and with one: the last can loop.
AllConfigs == {[strategy |-> "manual", anyPort |-> TRUE, named |-> {"s1"}],
               [strategy |-> "system", anyPort |-> FALSE, named |-> {}],
               [strategy |-> "system", anyPort |-> FALSE, named |-> {"s1"}]}

\* A server that fails at once and one that hangs, before one that is up; and two
\* that are slow to answer or to fail.
MCHealths == {[s \in {"s1", "s2"} |-> IF s = "s1" THEN first ELSE "up"] : first \in {"down", "hang"}}
             \cup {[s \in {"s1", "s2"} |-> "slow"]}

\* The defaults of the dns mode: every server by name.
DefaultConfig == {[strategy |-> "system", anyPort |-> FALSE, named |-> {"s1", "s2"}]}
=============================================================================
