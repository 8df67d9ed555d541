---------------------------- MODULE DisposableVm ----------------------------
(***************************************************************************)
(* What a Hyper-V run promises the host, without saying how: the guest     *)
(* boots only inside its containment and stays inside it, what backs the   *)
(* VM is provided before it boots and taken away after it is gone, and in  *)
(* the end the VM is gone.                                                 *)
(***************************************************************************)

VARIABLES vm,          \* "absent", "off" or "running"
          contained,   \* the containment of the plan is in place
          held         \* backing resources on the host

avars == <<vm, contained, held>>

AInit == vm = "absent" /\ contained \in BOOLEAN /\ held = {}

\* Resources, the VM and its containment are set up, or fail to be.
AProvision ==
    /\ vm \in {"absent", "off"}
    /\ vm' = "off" \/ vm' = vm
    /\ contained' \in BOOLEAN
    /\ held \subseteq held'

ABoot == vm = "off" /\ contained /\ vm' = "running" /\ UNCHANGED <<contained, held>>

\* The host may go down with the guest and take some of the containment along.
APowerOff == vm = "running" /\ vm' = "off" /\ contained' \in BOOLEAN /\ held' = held

ARemove == vm' = "absent" /\ contained' \in BOOLEAN /\ held' = held

AReclaim == vm = "absent" /\ vm' = vm /\ contained' \in BOOLEAN /\ held' \subseteq held

ANext == AProvision \/ ABoot \/ APowerOff \/ ARemove \/ AReclaim

ASpec == AInit /\ [][ANext]_avars /\ <>[](vm = "absent")
=============================================================================
