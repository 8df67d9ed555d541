---------------------------- MODULE VmCompletion ----------------------------
(***************************************************************************)
(* wait_for_vm_completion (src/sandbox/hyperv/backend.rs): an observer     *)
(* polls the VM while a watcher thread polls the size of its writable      *)
(* disks and turns the VM off when they outgrow the quota or cannot be     *)
(* measured.  The observer cannot tell that power-off from the guest's     *)
(* own; what it saw is only combined with the watcher's verdict after the  *)
(* watcher has ended.                                                      *)
(***************************************************************************)
EXTENDS Naturals

CONSTANT MaxFaults   \* failed scripts and measurements, unhealthy VMs

ASSUME MaxFaultsAssumption == MaxFaults \in Nat

VARIABLES
    vm,            \* the VM, and who turned it off
    beyond,        \* its writable disks are larger than the quota
    expired,       \* the deadline has passed
    interrupted,   \* interrupt::INTERRUPTED
    stopWatch,     \* stop_watch
    watchResult,   \* watch_result
    watcher,       \* next step of the watcher thread
    found,         \* local to the watcher: why it turns the VM off
    observer,      \* next step of the calling thread
    observed,      \* what observe_vm_completion returned
    outcome,       \* what wait_for_vm_completion returned
    faults

guest == <<vm, beyond>>
watch == <<watchResult, watcher, found>>
observation == <<stopWatch, observer, observed, outcome>>
vars == <<vm, beyond, expired, interrupted, stopWatch, watchResult, watcher,
          found, observer, observed, outcome, faults>>

\* Until the return nobody can tell that the watcher turned the VM off.
Apparent == IF vm \in {"running", "unhealthy"} \/ (vm = "forced_off" /\ outcome = "none")
            THEN "on" ELSE vm

Abstract == INSTANCE VmObservation WITH vm <- Apparent, answer <- outcome

-----------------------------------------------------------------------------
Init ==
    /\ vm = "running" /\ beyond = FALSE
    /\ expired = FALSE /\ interrupted = FALSE
    /\ stopWatch = FALSE /\ watchResult = "none"
    /\ watcher = "poll" /\ found = "none"
    /\ observer = "check" /\ observed = "none" /\ outcome = "none"
    /\ faults = 0

Fault == faults < MaxFaults /\ faults' = faults + 1

NoFault == UNCHANGED faults

\* writable_disk_usage: a breach, an error, or neither.
Measured(result) ==
    \/ result = (IF beyond THEN "quota" ELSE "none") /\ NoFault
    \/ result = "error" /\ Fault

\* What the status of the VM can say.
Reported(state) ==
    CASE vm = "running"   -> state = "live"
      [] vm = "unhealthy" -> state = "violation"
      [] OTHER            -> state = "off"

-----------------------------------------------------------------------------
\* The environment.

Write ==
    /\ vm = "running" /\ beyond' = TRUE
    /\ UNCHANGED <<vm, expired, interrupted, watch, observation, faults>>

ShutDown ==
    /\ vm = "running" /\ vm' = "shut_down"
    /\ UNCHANGED <<beyond, expired, interrupted, watch, observation, faults>>

\* Paused, saved, a checkpoint, or over its memory: outside the run policy.
Sicken ==
    /\ vm = "running" /\ vm' = "unhealthy" /\ Fault
    /\ UNCHANGED <<beyond, expired, interrupted, watch, observation>>

Expire ==
    /\ expired' = TRUE
    /\ UNCHANGED <<guest, interrupted, watch, observation, faults>>

Interrupt ==
    /\ interrupted' = TRUE
    /\ UNCHANGED <<guest, expired, watch, observation, faults>>

-----------------------------------------------------------------------------
\* The watcher thread.

\* Mutant: the loop does not look at stop_watch.
Poll_Forever ==
    /\ watcher = "poll" /\ watcher' = "measure"
    /\ UNCHANGED <<guest, expired, interrupted, watchResult, found, observation, faults>>

Poll ==
    /\ watcher = "poll"
    /\ watcher' = IF stopWatch THEN "done" ELSE "measure"
    /\ UNCHANGED <<guest, expired, interrupted, watchResult, found, observation, faults>>

Measure ==
    /\ watcher = "measure"
    /\ \E result \in {"none", "quota", "error"} :
          /\ Measured(result)
          /\ found' = result
          /\ watcher' = IF result = "none" THEN "poll" ELSE "stop"
    /\ UNCHANGED <<guest, expired, interrupted, watchResult, observation>>

\* vm::stop, its result ignored.  No script runs once the run is interrupted.
TurnOff ==
    /\ watcher = "stop" /\ watcher' = "publish"
    /\ \/ /\ ~interrupted /\ NoFault
          /\ vm' = IF vm = "shut_down" THEN vm ELSE "forced_off"
       \/ UNCHANGED vm /\ IF interrupted THEN NoFault ELSE Fault
    /\ UNCHANGED <<beyond, expired, interrupted, watchResult, found, observation>>

Publish ==
    /\ watcher = "publish" /\ watcher' = "done"
    /\ watchResult' = found
    /\ UNCHANGED <<guest, expired, interrupted, found, observation, faults>>

Watch == Poll \/ Measure \/ TurnOff \/ Publish

-----------------------------------------------------------------------------
\* observe_vm_completion in the calling thread, then the join.

Observe(step, next, result) ==
    /\ observer = step
    /\ observed' = result
    /\ observer' = IF result = "none" THEN next ELSE "stop_watch"
    /\ UNCHANGED <<guest, expired, interrupted, watch, stopWatch, outcome>>

CheckInterrupt ==
    /\ Observe("check", "query", IF interrupted THEN "error" ELSE "none")
    /\ NoFault

\* A failed query, a violation of the run policy and an unknown state are errors.
Query ==
    \/ /\ interrupted /\ Observe("query", "measure", "error") /\ NoFault
    \/ /\ ~interrupted /\ Observe("query", "measure", "error") /\ Fault
    \/ /\ ~interrupted /\ NoFault
       /\ \/ Reported("off") /\ Observe("query", "measure", "powered_off")
          \/ Reported("violation") /\ Observe("query", "measure", "error")
          \/ Reported("live") /\ Observe("query", "measure", "none")

MeasureObserved ==
    \E result \in {"none", "quota", "error"} :
       Measured(result) /\ Observe("measure", "deadline", result)

CheckDeadline ==
    /\ Observe("deadline", "check", IF expired THEN "timed_out" ELSE "none")
    /\ NoFault

StopWatch ==
    /\ observer = "stop_watch" /\ observer' = "join"
    /\ stopWatch' = TRUE
    /\ UNCHANGED <<guest, expired, interrupted, watch, observed, outcome, faults>>

\* What is left of the watcher's verdict and the observation.
Combined == IF watchResult = "none" THEN observed ELSE watchResult

\* Mutant: the watcher is told to stop, but not waited for.
Join_Detached ==
    /\ observer = "join" /\ observer' = "done"
    /\ outcome' = Combined
    /\ UNCHANGED <<guest, expired, interrupted, watch, stopWatch, observed, faults>>

\* Mutant: an ordinary completion wins over the watcher's verdict.
Join_ObservedFirst ==
    /\ observer = "join" /\ watcher = "done" /\ observer' = "done"
    /\ outcome' = IF observed = "powered_off" THEN observed ELSE Combined
    /\ UNCHANGED <<guest, expired, interrupted, watch, stopWatch, observed, faults>>

Join ==
    /\ observer = "join" /\ watcher = "done" /\ observer' = "done"
    /\ outcome' = Combined
    /\ UNCHANGED <<guest, expired, interrupted, watch, stopWatch, observed, faults>>

ObserveAndJoin ==
    CheckInterrupt \/ Query \/ MeasureObserved \/ CheckDeadline \/ StopWatch \/ Join

-----------------------------------------------------------------------------
Environment == Write \/ ShutDown \/ Sicken \/ Expire \/ Interrupt

Next == Environment \/ Watch \/ ObserveAndJoin

Spec == Init /\ [][Next]_vars

(***************************************************************************)
(* Both threads are scheduled and the clock goes on.  Nothing is assumed   *)
(* of the guest.                                                           *)
(***************************************************************************)
FairSpec == Spec /\ WF_vars(Watch) /\ WF_vars(ObserveAndJoin) /\ WF_vars(Expire)

-----------------------------------------------------------------------------
\* Types; a verdict is the last thing the watcher does.
TypeOK ==
    /\ vm \in {"running", "unhealthy", "shut_down", "forced_off"}
    /\ beyond \in BOOLEAN /\ expired \in BOOLEAN
    /\ interrupted \in BOOLEAN /\ stopWatch \in BOOLEAN
    /\ watcher \in {"poll", "measure", "stop", "publish", "done"}
    /\ found \in {"none", "quota", "error"}
    /\ watchResult \in (IF watcher = "done" THEN {"none", "quota", "error"} ELSE {"none"})
    /\ observer \in {"check", "query", "measure", "deadline", "stop_watch", "join", "done"}
    /\ observed \in {"none", "powered_off", "timed_out", "quota", "error"}
    /\ outcome \in {"none", "powered_off", "timed_out", "quota", "error"}
    /\ faults \in 0..MaxFaults

\* "Quota/check failures remain authoritative even when ordinary completion is
\* observed at the same time": whatever made the watcher act is what is returned,
\* at whichever step of the observer it acted.
QuotaIsAuthoritative == (outcome # "none" /\ found # "none") => outcome = found

\* The two threads implement the contract: a VM turned off by the watcher is never
\* returned as completed or timed out, and the VM is left alone after the return.
Contract == Abstract!Spec

\* The wait ends, whatever the guest does and whichever scripts fail: no thread
\* waits for the other for ever.
Returns == <>(outcome # "none")
=============================================================================
