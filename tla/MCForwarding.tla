----------------------------- MODULE MCForwarding -----------------------------
(***************************************************************************)
(* Instances of Forwarding: each server with each way to the upstream, and *)
(* each stopped with and without a deadline.                               *)
(***************************************************************************)
EXTENDS Forwarding

MCConfigs ==
    {[server |-> "proxy", upstream |-> u, profiles |-> {},
      reject |-> u # "http", bounded |-> u # "http"] : u \in {"direct", "http", "socks5"}}
    \cup
    {[server |-> "reverse", upstream |-> "direct",
      profiles |-> IF b THEN {[ips |-> <<"a">>, forward |-> TRUE]} ELSE {},
      reject |-> TRUE, bounded |-> b] : b \in BOOLEAN}

\* A host that cannot be resolved, and one with two addresses.
MCLookups == {<<>>, <<"a", "b">>}
=============================================================================
