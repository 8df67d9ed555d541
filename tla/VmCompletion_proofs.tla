------------------------ MODULE VmCompletion_proofs ------------------------
(***************************************************************************)
(* The verdict of the quota watcher is final, and the two threads of       *)
(* wait_for_vm_completion implement VmObservation, for every MaxFaults.    *)
(***************************************************************************)
EXTENDS VmCompletion, TLAPS

\* Only the watcher turns the VM off, and its reason is its verdict.
WatcherInv ==
    /\ watcher \in {"poll", "measure"} => found = "none"
    /\ watcher \in {"stop", "publish"} => found # "none"
    /\ watcher = "done" => watchResult = found
    /\ found = "quota" => beyond
    /\ vm = "forced_off" => found # "none"

\* What the observer saw is still so, and nothing is returned before the join.
ObserverInv ==
    /\ observer \in {"stop_watch", "join", "done"} => observed # "none"
    /\ observed = "powered_off" => vm \in {"shut_down", "forced_off"}
    /\ observed = "quota" => beyond
    /\ outcome # "none" => observer = "done" /\ watcher = "done" /\ outcome = Combined

IInv == TypeOK /\ WatcherInv /\ ObserverInv

\* Every step of the two threads and of the environment keeps the types: a verdict
\* is published together with the end of the watcher.
LEMMA TypeStep == TypeOK /\ [Next]_vars => TypeOK'
<1> SUFFICES ASSUME TypeOK, [Next]_vars PROVE TypeOK'
  OBVIOUS
<1> USE MaxFaultsAssumption DEF TypeOK, guest, watch, observation, Fault, NoFault
<1>1. CASE Environment
  <2>1. CASE Write
    BY <2>1 DEF Write
  <2>2. CASE ShutDown
    BY <2>2 DEF ShutDown
  <2>3. CASE Sicken
    BY <2>3 DEF Sicken, Fault
  <2>4. CASE Expire
    BY <2>4 DEF Expire
  <2>5. CASE Interrupt
    BY <2>5 DEF Interrupt
  <2> QED
    BY <1>1, <2>1, <2>2, <2>3, <2>4, <2>5 DEF Environment
<1>2. CASE Poll
  BY <1>2 DEF Poll
<1>3. CASE Measure
  BY <1>3 DEF Measure, Measured
<1>4. CASE TurnOff
  BY <1>4 DEF TurnOff
<1>5. CASE Publish
  BY <1>5 DEF Publish
<1>6. CASE CheckInterrupt
  BY <1>6 DEF CheckInterrupt, Observe
<1>7. CASE Query
  BY <1>7 DEF Query, Observe
<1>8. CASE MeasureObserved
  BY <1>8 DEF MeasureObserved, Measured, Observe
<1>9. CASE CheckDeadline
  BY <1>9 DEF CheckDeadline, Observe
<1>10. CASE StopWatch
  BY <1>10 DEF StopWatch
<1>11. CASE Join
  BY <1>11 DEF Join, Combined
<1>12. CASE UNCHANGED vars
  BY <1>12 DEF vars
<1> QED
  BY <1>1, <1>2, <1>3, <1>4, <1>5, <1>6, <1>7, <1>8, <1>9, <1>10, <1>11, <1>12
  DEF Next, Watch, ObserveAndJoin

\* The watcher's reason stays what the disks showed: no step forgets it.
LEMMA WatcherStep == IInv /\ [Next]_vars => WatcherInv'
<1> SUFFICES ASSUME IInv, [Next]_vars PROVE WatcherInv'
  OBVIOUS
<1> USE DEF IInv, TypeOK, WatcherInv, guest, watch, observation
<1>1. CASE Environment
  <2>1. CASE Write
    BY <2>1 DEF Write
  <2>2. CASE ShutDown
    BY <2>2 DEF ShutDown
  <2>3. CASE Sicken
    BY <2>3 DEF Sicken, Fault
  <2>4. CASE Expire
    BY <2>4 DEF Expire
  <2>5. CASE Interrupt
    BY <2>5 DEF Interrupt
  <2> QED
    BY <1>1, <2>1, <2>2, <2>3, <2>4, <2>5 DEF Environment
<1>2. CASE Poll
  BY <1>2 DEF Poll
<1>3. CASE Measure
  BY <1>3 DEF Measure, Measured
<1>4. CASE TurnOff
  BY <1>4 DEF TurnOff
<1>5. CASE Publish
  BY <1>5 DEF Publish
<1>6. CASE ObserveAndJoin
  BY <1>6 DEF ObserveAndJoin, CheckInterrupt, Query, MeasureObserved, CheckDeadline,
              StopWatch, Join, Observe
<1>7. CASE UNCHANGED vars
  BY <1>7 DEF vars
<1> QED
  BY <1>1, <1>2, <1>3, <1>4, <1>5, <1>6, <1>7 DEF Next, Watch

\* What the observer read does not go stale: the VM stays off, the disks stay large.
LEMMA ObserverStep == IInv /\ [Next]_vars => ObserverInv'
<1> SUFFICES ASSUME IInv, [Next]_vars PROVE ObserverInv'
  OBVIOUS
<1> USE DEF IInv, TypeOK, ObserverInv, Combined, guest, watch, observation
<1>1. CASE Environment
  <2>1. CASE Write
    BY <2>1 DEF Write
  <2>2. CASE ShutDown
    BY <2>2 DEF ShutDown
  <2>3. CASE Sicken
    BY <2>3 DEF Sicken, Fault
  <2>4. CASE Expire
    BY <2>4 DEF Expire
  <2>5. CASE Interrupt
    BY <2>5 DEF Interrupt
  <2> QED
    BY <1>1, <2>1, <2>2, <2>3, <2>4, <2>5 DEF Environment
<1>2. CASE Poll
  BY <1>2 DEF Poll
<1>3. CASE Measure
  BY <1>3 DEF Measure, Measured
<1>4. CASE TurnOff
  BY <1>4 DEF TurnOff
<1>5. CASE Publish
  BY <1>5 DEF Publish
<1>6. CASE CheckInterrupt
  BY <1>6 DEF CheckInterrupt, Observe
<1>7. CASE Query
  BY <1>7 DEF Query, Observe, Reported
<1>8. CASE MeasureObserved
  BY <1>8 DEF MeasureObserved, Measured, Observe
<1>9. CASE CheckDeadline
  BY <1>9 DEF CheckDeadline, Observe
<1>10. CASE StopWatch
  BY <1>10 DEF StopWatch
<1>11. CASE Join
  BY <1>11 DEF Join
<1>12. CASE UNCHANGED vars
  BY <1>12 DEF vars
<1> QED
  BY <1>1, <1>2, <1>3, <1>4, <1>5, <1>6, <1>7, <1>8, <1>9, <1>10, <1>11, <1>12
  DEF Next, Watch, ObserveAndJoin

\* The initial state: nothing seen, nothing found.
LEMMA Initially == Init => IInv
<1> SUFFICES ASSUME Init PROVE IInv
  OBVIOUS
<1> USE DEF Init
<1>1. TypeOK
  <2>1. faults \in 0..MaxFaults
    BY MaxFaultsAssumption
  <2> QED
    BY <2>1 DEF TypeOK
<1>2. WatcherInv
  BY DEF WatcherInv
<1>3. ObserverInv
  BY DEF ObserverInv
<1> QED
  BY <1>1, <1>2, <1>3 DEF IInv

\* The inductive invariant of the two threads.
THEOREM Inductive == Spec => []IInv
<1>1. Init => IInv
  BY Initially
<1>2. IInv /\ [Next]_vars => IInv'
  BY TypeStep, WatcherStep, ObserverStep DEF IInv
<1> QED
  BY <1>1, <1>2, PTL DEF Spec

\* Every reachable state is well typed, and a published verdict ends the watcher.
THEOREM TypeCorrect == Spec => []TypeOK
  BY Inductive, PTL DEF IInv

\* What made the watcher act is what wait_for_vm_completion returns.
THEOREM VerdictIsFinal == Spec => []QuotaIsAuthoritative
<1>1. IInv => QuotaIsAuthoritative
  BY DEF IInv, TypeOK, WatcherInv, ObserverInv, Combined, QuotaIsAuthoritative
<1> QED
  BY <1>1, Inductive, PTL

-----------------------------------------------------------------------------
\* The refinement.

\* The environment moves the apparent VM only as a guest can.
LEMMA EnvironmentSimulates ==
    ASSUME IInv, Environment PROVE [Abstract!Next]_(Abstract!vars)
  BY DEF IInv, TypeOK, WatcherInv, Environment, Write, ShutDown, Sicken, Expire, Interrupt,
         guest, watch, observation, Apparent, Abstract!Next, Abstract!vars, Abstract!GuestMoves

\* Nothing the watcher does can be seen before the return; afterwards it has ended.
LEMMA WatchSimulates ==
    ASSUME IInv, Watch PROVE [Abstract!Next]_(Abstract!vars)
<1> USE DEF IInv, TypeOK, WatcherInv, ObserverInv, guest, watch, observation, Apparent,
            Abstract!vars
<1>1. CASE TurnOff
  BY <1>1 DEF TurnOff
<1>2. CASE Poll \/ Measure \/ Publish
  BY <1>2 DEF Poll, Measure, Publish
<1> QED
  BY <1>1, <1>2 DEF Watch

\* The join is the one step of the observer that the caller sees.
LEMMA ObserverSimulates ==
    ASSUME IInv, ObserveAndJoin PROVE [Abstract!Next]_(Abstract!vars)
<1> USE DEF IInv, TypeOK, WatcherInv, ObserverInv, guest, watch, observation, Apparent
<1>1. CASE Join
  <2>1. Abstract!Return
    <3>1. outcome = "none" /\ outcome' = Combined /\ outcome' # "none"
      BY <1>1 DEF Join, Combined
    <3>2. UNCHANGED <<vm, beyond>>
      BY <1>1 DEF Join
    <3>3. CASE found = "none"
      BY <1>1, <3>1, <3>2, <3>3
      DEF Join, Combined, Abstract!Return, Abstract!Completed, Abstract!TimedOut, Abstract!Refused
    <3>4. CASE found # "none"
      BY <1>1, <3>1, <3>2, <3>4
      DEF Join, Combined, Abstract!Return, Abstract!Completed, Abstract!TimedOut, Abstract!Refused
    <3> QED
      BY <3>3, <3>4
  <2> QED
    BY <2>1 DEF Abstract!Next
<1>2. CASE CheckInterrupt \/ Query \/ MeasureObserved \/ CheckDeadline \/ StopWatch
  BY <1>2 DEF CheckInterrupt, Query, MeasureObserved, CheckDeadline, StopWatch, Observe,
              Abstract!vars
<1> QED
  BY <1>1, <1>2 DEF ObserveAndJoin

\* The two threads implement the contract of VmObservation.
THEOREM ImplementsContract == Spec => Contract
<1>1. Init => Abstract!Init
  BY DEF Init, Apparent, Abstract!Init
<1>2. IInv /\ [Next]_vars => [Abstract!Next]_(Abstract!vars)
  <2> SUFFICES ASSUME IInv, [Next]_vars PROVE [Abstract!Next]_(Abstract!vars)
    OBVIOUS
  <2>1. CASE UNCHANGED vars
    BY <2>1 DEF vars, Apparent, Abstract!vars
  <2> QED
    BY <2>1, EnvironmentSimulates, WatchSimulates, ObserverSimulates DEF Next
<1> QED
  BY <1>1, <1>2, Inductive, PTL DEF Spec, Contract, Abstract!Spec
=============================================================================
