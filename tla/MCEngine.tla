------------------------------ MODULE MCEngine ------------------------------
(* Instances of Engine for TLC: one interface, one user.                   *)
EXTENDS Engine, TLC

MCActor == Proc \X {"main", "watch"}

MCIfaces == <<"Ethernet">>

MCValue == {"absent", "0", "1", "ours", "loopback", "none", "block",
            "corp", "dhcp", "static"}

MCUserSettings ==
    {[ProxyEnable |-> "1", ProxyServer |-> "corp", AutoConfigURL |-> "corp",
      HostsBlock |-> "none", Ethernet |-> "static"]}

AllModes == {"pac", "system", "hosts", "dns"}

(* system is left out: it is pac with one server less. *)
RunModes == {"pac", "hosts", "dns", "proxy_only", "dns_manual"}
=============================================================================
