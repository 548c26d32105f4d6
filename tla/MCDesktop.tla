------------------------------ MODULE MCDesktop ------------------------------
(* An instance of the desktop for TLC: the QEMU driver's one instance, or a   *)
(* host with its downloads, its registry and the VMs of WSL or UTM.  The two  *)
(* share no state; one of them is explored in each behaviour.                 *)
EXTENDS DesktopVM, Launcher

VARIABLE explored

desktop == <<explored, driverVars, vars>>

DesktopInit ==
    /\ explored \in {"driver", "launcher"}
    /\ DriverInit /\ Init
    \* The one that is not explored is not varied.
    /\ explored = "driver" => registry = {} /\ backend = "qemu"
    /\ explored = "launcher" => resources = 1

DesktopNext ==
    \/ explored = "driver" /\ DriverNext /\ UNCHANGED <<explored, vars>>
    \/ explored = "launcher" /\ Next /\ UNCHANGED <<explored, driverVars>>

DesktopSpec == DesktopInit /\ [][DesktopNext]_desktop
=============================================================================
