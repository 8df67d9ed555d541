--------------------------- MODULE VmObservation ---------------------------
(***************************************************************************)
(* What wait_for_vm_completion (src/sandbox/hyperv/backend.rs) promises    *)
(* its caller: one answer about the VM.  It may turn the VM off, but only  *)
(* together with an answer that says the run did not complete, and never   *)
(* after it has answered.  WaitForCompletion of HyperVRun is this contract *)
(* in one step.                                                            *)
(***************************************************************************)
VARIABLES vm,       \* the disposable VM, and who turned it off
          beyond,   \* its writable disks are larger than the quota
          answer    \* VmCompletion, "error", or "none" before the return

vars == <<vm, beyond, answer>>

VmStates == {"on", "shut_down", "forced_off"}

Answers == {"none", "powered_off", "timed_out", "quota", "error"}

Init == vm = "on" /\ beyond = FALSE /\ answer = "none"

\* The guest writes or shuts down.
GuestMoves ==
    /\ vm = "on"
    /\ \/ vm' = "shut_down" /\ UNCHANGED beyond
       \/ beyond' = TRUE /\ UNCHANGED vm
    /\ UNCHANGED answer

Completed == vm = "shut_down" /\ answer' = "powered_off" /\ UNCHANGED vm

TimedOut == vm # "forced_off" /\ answer' = "timed_out" /\ UNCHANGED vm

\* An attempt to turn the VM off can have failed, also unnoticed.
Refused ==
    /\ vm' \in {vm, "forced_off"}
    /\ \/ answer' = "quota" /\ beyond
       \/ answer' = "error"

Return ==
    /\ answer = "none"
    /\ Completed \/ TimedOut \/ Refused
    /\ UNCHANGED beyond

Next == GuestMoves \/ Return

Spec == Init /\ [][Next]_vars
=============================================================================
