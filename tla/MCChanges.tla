----------------------------- MODULE MCChanges ------------------------------
(***************************************************************************)
(* What the program changes on a machine, in one run for TLC: the settings *)
(* on Windows, the proxy settings on macOS, the root CA and the AppHost    *)
(* service.  They share no state; one of them moves, chosen at the start,  *)
(* while the others stay in one initial state.                             *)
(***************************************************************************)
EXTENDS MCSystemChange, MacProxy, CertStore, AppHostService

VARIABLE moving

\* Wi-Fi has nothing set, or everything; Ethernet everything, or credentials.
Chan(on, addr) == [on |-> on, addr |-> addr]
AllUnset == [web |-> Chan(FALSE, ""), secure |-> Chan(FALSE, ""), auto |-> Chan(FALSE, "")]
AllSet == [web |-> Chan(TRUE, "own"), secure |-> Chan(FALSE, "own"),
           auto |-> Chan(TRUE, "own")]
Credentials == [AllUnset EXCEPT !.web = Chan(TRUE, "auth")]

SmallServices == {"Wi-Fi", "Ethernet"}
SmallListings == {<<>>, <<"Wi-Fi">>, <<"Ethernet">>, <<"Wi-Fi", "Ethernet">>}
SmallNets == {("Wi-Fi" :> AllUnset) @@ ("Ethernet" :> AllSet),
              ("Wi-Fi" :> AllSet) @@ ("Ethernet" :> Credentials)}
SmallLists == {<<>>, <<"Wi-Fi">>}

-----------------------------------------------------------------------------
Still(part, expr, value) == moving # part => expr = value

ChangesInit ==
    /\ moving \in {"windows", "mac", "cert", "service"}
    /\ CertInit
    /\ SysInit /\ Still("windows", user, CHOOSE u \in UserSettings : TRUE)
    /\ MacInit /\ Still("mac", net, CHOOSE n \in UserNets : TRUE)
    /\ SvcInit /\ Still("service", scm, NoService)

ChangesNext ==
    /\ \/ moving = "windows" /\ SysNext /\ UNCHANGED <<macVars, certVars, svcVars>>
       \/ moving = "mac" /\ MacNext /\ UNCHANGED <<sysVars, certVars, svcVars>>
       \/ moving = "cert" /\ CertNext /\ UNCHANGED <<sysVars, macVars, svcVars>>
       \/ moving = "service" /\ SvcNext /\ UNCHANGED <<sysVars, macVars, certVars>>
    /\ UNCHANGED moving

ChangesSpec == ChangesInit /\ [][ChangesNext]_<<sysVars, macVars, certVars, svcVars, moving>>
=============================================================================
