-------------------------------- MODULE MCSmp --------------------------------
(* Two CPUs.  No call takes both mem_lock and disk_lock, so a behaviour exercises *)
(* one of the two devices and its lock: all calls go to the device.               *)
EXTENDS PageAllocator, DiskScheduler

CONSTANTS CPU1, CPU2, P1

VARIABLE device
allVars == <<locked, pc, pageVars, diskVars, device>>

SmpInit == SpinInit /\ PageInit /\ DiskInit /\ device \in {"pages", "disk"}

Step(c) ==
    \/ device = "pages" /\ CpuStep(c) /\ UNCHANGED <<diskVars, device>>
    \/ device = "disk" /\ DiskStep(c) /\ UNCHANGED <<pageVars, device>>

SmpNext ==
    \/ device = "pages" /\ PageNext /\ UNCHANGED <<diskVars, device>>
    \/ device = "disk" /\ DiskNext /\ UNCHANGED <<pageVars, device>>

\* A CPU goes on with the call it is in.
SmpSpec == SmpInit /\ [][SmpNext]_allVars /\ \A c \in CPUs : WF_allVars(Step(c))
=============================================================================
