---------------------------- MODULE MCLifecycle -----------------------------
(* Instances of Lifecycle and AppHost for TLC: one interface, one user.    *)
(* Both work on the system of SystemChange; in a behaviour either the CLI  *)
(* moves or the clients of the AppHost service do.                         *)
EXTENDS Lifecycle, AppHost, TLC

VARIABLE moving

mcVars == <<lifeVars, appVars, moving>>

MCInit ==
    /\ moving \in {"cli", "apphost"}
    /\ LifeInit
    /\ AppInit
    /\ moving = "cli" => service = "stopped"

MCNext ==
    \/ moving = "cli" /\ LifeNext /\ UNCHANGED appVars /\ UNCHANGED moving
    \/ moving = "apphost" /\ AppNext /\ UNCHANGED <<engVars, cliVars, moving>>

MCSpec == MCInit /\ [][MCNext]_mcVars

\* What does not move has no fair action enabled.
MCFairSpec == MCSpec /\ LifeFairness /\ AppFairness

MCActor == (Proc \X {"main", "watch"}) \cup Cmd \cup Client

MCIfaces == <<"Ethernet">>

MCValue == {"absent", "0", "1", "ours", "loopback", "none", "block",
            "corp", "dhcp", "static"}

User(dns) ==
    [ProxyEnable |-> "1", ProxyServer |-> "corp", AutoConfigURL |-> "corp",
     HostsBlock |-> "none", Ethernet |-> dns]

MCUserSettings == {User("static")}

DhcpUser == {User("dhcp")}

AllModes == {"pac", "system", "hosts", "dns"}

AllRequests == {"apply", "restore"} \X {"dns", "hosts"}

OneRequest == {<<"apply", "dns">>}

ProcSymmetry == Permutations(Proc)
=============================================================================
