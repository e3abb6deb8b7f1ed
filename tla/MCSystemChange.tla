--------------------------- MODULE MCSystemChange ---------------------------
(* Instances of SystemChange for TLC: two interfaces, two users.           *)
EXTENDS SystemChange, TLC

MCIfaces == <<"Ethernet", "Wi-Fi">>

MCValue == {"absent", "0", "1", "ours", "loopback", "none", "block",
            "corp", "dhcp", "static"}

(* A user without a proxy and one behind a corporate proxy: between them   *)
(* every write of Apply changes something.                                 *)
MCUserSettings ==
    {[ProxyEnable |-> "absent", ProxyServer |-> "absent",
      AutoConfigURL |-> "absent", HostsBlock |-> "none"]
        @@ ("Ethernet" :> "dhcp" @@ "Wi-Fi" :> "static"),
     [ProxyEnable |-> "1", ProxyServer |-> "corp",
      AutoConfigURL |-> "corp", HostsBlock |-> "none"]
        @@ ("Ethernet" :> "static" @@ "Wi-Fi" :> "dhcp")}

AllModes == {"pac", "system", "hosts", "dns"}
=============================================================================
