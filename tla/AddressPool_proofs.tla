------------------------- MODULE AddressPool_proofs -------------------------
(***************************************************************************)
(* Leases keep the addresses of any number of runs apart, for pools of any *)
(* size and any number of recoveries, as long as no two recoveries work on *)
(* one run at a time.                                                      *)
(***************************************************************************)
EXTENDS AddressPool, TLAPS

\* A process that reconciles a run.
Busy(p) == pc[p] \in CleanupSteps

\* The file of a run that is preparing or running is its own.
WritersApart ==
    /\ \A r \in Runs : pc[r] = "write" => files[addr[r]] = "torn"
    /\ \A r, s \in Runs : (r # s /\ pc[r] = "write" /\ pc[s] = "write") => addr[r] # addr[s]

LeaseHeld == \A r \in Runs : pc[r] \in {"journal", "configure", "run"} => files[addr[r]] = r

UseLeased == \A r \in Runs : inUse[r] # 0 => files[inUse[r]] = r

\* Between the comparison and the deletion the file is still the run's.
DeletesOwn == \A p \in Processes : pc[p] = "delete" => files[addr[p]] = target[p]

\* The VM is gone before the lease is looked at.
UnusedBehindVm ==
    \A p \in Processes : pc[p] \in {"compare", "delete", "forget"} => inUse[target[p]] = 0

\* At most one process reconciles a run.
OwnTarget == \A r \in Runs : target[r] = r

Recovering == \A p \in Recoverers : Busy(p) => pc[target[p]] = "done"

RecoverersApart ==
    \A p, q \in Recoverers : (p # q /\ Busy(p) /\ Busy(q)) => target[p] # target[q]

RecoverersTyped == \A p \in Recoverers : pc[p] \in {"idle"} \cup CleanupSteps

Alone == OwnTarget /\ Recovering /\ RecoverersApart /\ RecoverersTyped

Leases == WritersApart /\ LeaseHeld /\ UseLeased /\ DeletesOwn /\ UnusedBehindVm

IInv == TypeOK /\ Alone /\ Leases

Act == \/ \E r \in Runs : Prepare(r)
       \/ \E p \in Processes : Clean(p)
       \/ \E p \in Recoverers, r \in Runs : Unattended(r) /\ Recover(p, r)

-----------------------------------------------------------------------------
\* The types of everything but the history.
PoolTypes ==
    /\ files \in [Addresses -> {"none", "torn"} \cup Runs]
    /\ recorded \in [Runs -> 0..PoolSize]
    /\ inUse \in [Runs -> 0..PoolSize]
    /\ pc \in [Processes -> {"idle", "exhausted", "done"} \cup CleanupSteps
                              \cup PreparationSteps]
    /\ target \in [Processes -> Runs]
    /\ addr \in [Processes -> Addresses]
    /\ faults \in 0..MaxFaults

\* A preparation keeps the types.
LEMMA PrepareTypes ==
    ASSUME PoolTypes, NEW r \in Runs, Prepare(r) PROVE PoolTypes'
<1> USE PoolSizeAssumption, MaxFaultsAssumption
    DEF PoolTypes, Processes, Addresses, CleanupSteps, PreparationSteps, Goto, FileBecomes,
        NoFault, Fault, Fails, Ended
<1>1. CASE Activate(r)
  BY <1>1 DEF Activate
<1>2. CASE Reserve(r)
  BY <1>2 DEF Reserve
<1>3. CASE SkipOccupied(r)
  <2>1. addr[r] < PoolSize => addr[r] + 1 \in Addresses
    OBVIOUS
  <2>2. addr' \in [Processes -> Addresses]
    BY <1>3, <2>1 DEF SkipOccupied
  <2> QED
    BY <1>3, <2>2 DEF SkipOccupied
<1>4. CASE WriteLease(r)
  BY <1>4 DEF WriteLease
<1>5. CASE WriteFails(r)
  BY <1>5 DEF WriteFails
<1>6. CASE JournalLease(r)
  BY <1>6 DEF JournalLease
<1>7. CASE JournalFails(r)
  BY <1>7 DEF JournalFails
<1>8. CASE Configure(r)
  BY <1>8 DEF Configure
<1>9. CASE BeginCleanup(r)
  BY <1>9 DEF BeginCleanup
<1> QED
  BY <1>1, <1>2, <1>3, <1>4, <1>5, <1>6, <1>7, <1>8, <1>9 DEF Prepare

\* So does a cleanup.
LEMMA CleanTypes ==
    ASSUME PoolTypes, NEW p \in Processes, Clean(p) PROVE PoolTypes'
<1> USE PoolSizeAssumption, MaxFaultsAssumption
    DEF PoolTypes, Processes, Addresses, CleanupSteps, PreparationSteps, Goto, FileBecomes,
        NoFault, Fault, Fails, Ended
<1>1. CASE RemoveVm(p)
  BY <1>1 DEF RemoveVm
<1>2. CASE CompareLease(p)
  BY <1>2 DEF CompareLease
<1>3. CASE DeleteLease(p)
  BY <1>3 DEF DeleteLease
<1>4. CASE JournalReleased(p)
  BY <1>4 DEF JournalReleased
<1>5. CASE Abandon(p)
  BY <1>5 DEF Abandon
<1> QED
  BY <1>1, <1>2, <1>3, <1>4, <1>5 DEF Clean

\* Types are kept by every step.
LEMMA TypeStep == TypeOK /\ [Next]_vars => TypeOK'
<1> SUFFICES ASSUME TypeOK, [Next]_vars PROVE TypeOK'
  OBVIOUS
<1>1. CASE UNCHANGED vars
  BY <1>1 DEF TypeOK, vars, Processes, Addresses, CleanupSteps, PreparationSteps
<1>2. CASE Next
  <2>0. PoolTypes
    BY DEF TypeOK, PoolTypes
  <2>1. PoolTypes'
    <3>1. CASE \E r \in Runs : Prepare(r)
      BY <2>0, <3>1, PrepareTypes
    <3>2. CASE \E p \in Processes : Clean(p)
      BY <2>0, <3>2, CleanTypes
    <3>3. CASE \E p \in Recoverers, r \in Runs : Recover(p, r)
      BY <2>0, <3>3 DEF Recover, PoolTypes, Processes, Addresses, CleanupSteps,
                        PreparationSteps, Goto, NoFault
    <3> QED
      BY <1>2, <3>1, <3>2, <3>3 DEF Next
  <2>2. neverTaken' \in [Runs -> SUBSET Addresses]
    BY <1>2 DEF Next, Watched, TypeOK
  <2> QED
    BY <2>1, <2>2 DEF TypeOK, PoolTypes
<1> QED
  BY <1>1, <1>2

-----------------------------------------------------------------------------
\* At most one process reconciles a run: a preparation ends before a recovery of
\* its run begins, and a recovery begins only while no other one is at work.

\* The preparation of r changes pc[r] only, and not away from "done".
LEMMA PrepareAlone ==
    ASSUME TypeOK, Alone, NEW r \in Runs, Prepare(r) PROVE Alone'
<1>1. target' = target /\ \E step : pc' = [pc EXCEPT ![r] = step]
  BY DEF Prepare, Activate, Reserve, SkipOccupied, WriteLease, WriteFails, JournalLease,
         JournalFails, Configure, BeginCleanup, Goto, Fails, TypeOK
<1>2. pc[r] # "done"
  BY DEF Prepare, Activate, Reserve, SkipOccupied, WriteLease, WriteFails, JournalLease,
         JournalFails, Configure, BeginCleanup
<1>3. \A p \in Processes : p # r => pc'[p] = pc[p]
  BY <1>1 DEF TypeOK
<1>4. \A p \in Recoverers : p \in Processes /\ p # r
  BY ProcessesAssumption DEF Processes
<1>5. \A p \in Recoverers : Busy(p) => target[p] # r
  BY <1>2 DEF Alone, Recovering
<1>6. \A q \in Runs : q \in Processes
  BY DEF Processes
<1> QED
  BY <1>1, <1>3, <1>4, <1>5, <1>6
  DEF Alone, OwnTarget, Recovering, RecoverersApart, RecoverersTyped, Busy, TypeOK

\* A cleanup goes on with its run or ends.
LEMMA CleanAlone ==
    ASSUME TypeOK, Alone, NEW p \in Processes, Clean(p) PROVE Alone'
<1>1. /\ target' = target
      /\ \E step \in CleanupSteps \cup {Ended(p)} : pc' = [pc EXCEPT ![p] = step]
  BY DEF Clean, RemoveVm, CompareLease, DeleteLease, JournalReleased, Abandon, Goto, Fails,
         CleanupSteps
<1>2. pc[p] \in CleanupSteps \cup PreparationSteps
  BY DEF Clean, RemoveVm, CompareLease, DeleteLease, JournalReleased, Abandon, CleanupSteps,
         PreparationSteps
<1>3. \A q \in Processes : q # p => pc'[q] = pc[q]
  BY <1>1 DEF TypeOK
<1>4. \A q \in Recoverers : q \in Processes /\ q \notin Runs /\ target[q] \in Runs
  BY ProcessesAssumption DEF Processes, TypeOK
<1>5. \A r \in Runs : r \in Processes
  BY DEF Processes
<1>6. pc'[p] \in CleanupSteps \cup {Ended(p)}
  BY <1>1 DEF TypeOK
<1>7. \A q \in Recoverers : Busy(q)' => Busy(q)
  <2> SUFFICES ASSUME NEW q \in Recoverers, pc'[q] \in CleanupSteps
               PROVE  pc[q] \in CleanupSteps
    BY DEF Busy
  <2>1. CASE q = p
    BY <1>2, <2>1 DEF Alone, RecoverersTyped, CleanupSteps, PreparationSteps
  <2>2. CASE q # p
    BY <1>3, <1>4, <2>2
  <2> QED
    BY <2>1, <2>2
<1>8. \A r \in Runs : pc[r] = "done" => pc'[r] = "done"
  BY <1>2, <1>3, <1>5 DEF CleanupSteps, PreparationSteps
<1>9. RecoverersTyped'
  BY <1>3, <1>4, <1>6 DEF Alone, RecoverersTyped, Ended
<1> QED
  BY <1>1, <1>4, <1>7, <1>8, <1>9 DEF Alone, OwnTarget, Recovering, RecoverersApart

\* A recovery takes a run whose process has ended and that nobody else recovers.
LEMMA RecoverAlone ==
    ASSUME TypeOK, Alone, NEW p \in Recoverers, NEW r \in Runs, Unattended(r), Recover(p, r)
    PROVE  Alone'
<1>1. p \in Processes /\ p \notin Runs /\ r \in Processes
  BY ProcessesAssumption DEF Processes
<1>2. /\ target' = [target EXCEPT ![p] = r]
      /\ pc' = [pc EXCEPT ![p] = "clean"]
      /\ pc[r] = "done"
  BY DEF Recover, Goto
<1>3. \A q \in Processes : q # p => pc'[q] = pc[q] /\ target'[q] = target[q]
  BY <1>2 DEF TypeOK
<1>4. pc'[p] = "clean" /\ target'[p] = r
  BY <1>1, <1>2 DEF TypeOK
<1>5. \A q \in Recoverers : q \in Processes /\ q \notin Runs /\ target[q] \in Runs
  BY ProcessesAssumption DEF Processes, TypeOK
<1>6. \A s \in Runs : s \in Processes /\ s # p
  BY <1>1 DEF Processes
<1>7. \A q \in Recoverers : (q # p /\ Busy(q)') => Busy(q) /\ target[q] # r
  BY <1>3, <1>5 DEF Busy, Unattended, CleanupSteps
<1>8. OwnTarget'
  BY <1>3, <1>6 DEF Alone, OwnTarget
<1>9. Recovering'
  BY <1>2, <1>3, <1>4, <1>5, <1>6, <1>7 DEF Alone, Recovering
<1>10. RecoverersApart'
  BY <1>3, <1>4, <1>5, <1>7 DEF Alone, RecoverersApart
<1>11. RecoverersTyped'
  BY <1>3, <1>4, <1>5 DEF Alone, RecoverersTyped, CleanupSteps
<1> QED
  BY <1>8, <1>9, <1>10, <1>11 DEF Alone

\* Two processes that reconcile a run are one.
LEMMA OneCleaner ==
    ASSUME TypeOK, Alone, NEW p \in Processes, NEW q \in Processes,
           pc[p] \in CleanupSteps, pc[q] \in CleanupSteps, target[p] = target[q]
    PROVE  p = q
<1>1. CASE p \in Runs /\ q \in Runs
  BY <1>1 DEF Alone, OwnTarget
<1>2. CASE p \in Recoverers /\ q \in Recoverers
  BY <1>2 DEF Alone, RecoverersApart, Busy
<1>3. CASE p \in Runs /\ q \in Recoverers
  BY <1>3 DEF Alone, OwnTarget, Recovering, Busy, CleanupSteps
<1>4. CASE p \in Recoverers /\ q \in Runs
  BY <1>4 DEF Alone, OwnTarget, Recovering, Busy, CleanupSteps
<1> QED
  BY <1>1, <1>2, <1>3, <1>4 DEF Processes

-----------------------------------------------------------------------------
\* Who holds which file.

\* The reservation creates a file that nobody holds.
LEMMA ReserveLeases ==
    ASSUME IInv, NEW r \in Runs, Reserve(r) PROVE Leases'
<1>1. /\ files[addr[r]] = "none" /\ files' = [files EXCEPT ![addr[r]] = "torn"]
      /\ pc' = [pc EXCEPT ![r] = "write"]
      /\ inUse' = inUse /\ addr' = addr /\ target' = target
  BY DEF Reserve, FileBecomes, Goto
<1>2. r \in Processes /\ addr[r] \in Addresses /\ "none" \notin Runs
  BY ProcessesAssumption DEF IInv, TypeOK, Processes
<1>3. /\ pc'[r] = "write" /\ files'[addr[r]] = "torn"
      /\ \A q \in Processes : q # r => pc'[q] = pc[q]
      /\ \A a \in Addresses : a # addr[r] => files'[a] = files[a]
  BY <1>1, <1>2 DEF IInv, TypeOK
<1>4. /\ \A s \in Runs : s \in Processes /\ addr[s] \in Addresses
      /\ \A s \in Runs : inUse[s] # 0 => inUse[s] \in Addresses
      /\ \A q \in Processes : addr[q] \in Addresses /\ target[q] \in Runs
  BY DEF IInv, TypeOK, Processes, Addresses
<1>5. WritersApart'
  BY <1>1, <1>3, <1>4 DEF IInv, Leases, WritersApart
<1>6. LeaseHeld'
  BY <1>1, <1>2, <1>3, <1>4 DEF IInv, Leases, LeaseHeld
<1>7. UseLeased'
  BY <1>1, <1>2, <1>3, <1>4 DEF IInv, Leases, UseLeased
<1>8. DeletesOwn'
  BY <1>1, <1>2, <1>3, <1>4 DEF IInv, Leases, DeletesOwn
<1>9. UnusedBehindVm'
  BY <1>1, <1>3, <1>4 DEF IInv, Leases, UnusedBehindVm
<1> QED
  BY <1>5, <1>6, <1>7, <1>8, <1>9 DEF Leases

\* The record, or what is left of it, replaces an incomplete file that only the
\* writer holds.
LEMMA WriteLeases ==
    ASSUME IInv, NEW r \in Runs, WriteLease(r) \/ WriteFails(r) PROVE Leases'
<1> DEFINE a == addr[r]
<1>1. /\ pc[r] = "write" /\ inUse' = inUse /\ addr' = addr /\ target' = target
      /\ \E content \in {"none", "torn", r} : files' = [files EXCEPT ![a] = content]
      /\ \/ pc' = [pc EXCEPT ![r] = "journal"] /\ files' = [files EXCEPT ![a] = r]
         \/ pc' = [pc EXCEPT ![r] = "done"]
  BY DEF WriteLease, WriteFails, FileBecomes, Goto, Fails, Ended
<1>2. r \in Processes /\ a \in Addresses /\ "torn" \notin Runs /\ files[a] = "torn"
  BY <1>1, ProcessesAssumption DEF IInv, TypeOK, Processes, Leases, WritersApart
<1>3. /\ pc'[r] = "done" \/ (pc'[r] = "journal" /\ files'[a] = r)
      /\ \A q \in Processes : q # r => pc'[q] = pc[q]
      /\ \A b \in Addresses : b # a => files'[b] = files[b]
  BY <1>1, <1>2 DEF IInv, TypeOK
<1>4. /\ \A s \in Runs : s \in Processes /\ addr[s] \in Addresses
      /\ \A s \in Runs : inUse[s] # 0 => inUse[s] \in Addresses
      /\ \A q \in Processes : addr[q] \in Addresses /\ target[q] \in Runs
  BY DEF IInv, TypeOK, Processes, Addresses
<1>5. WritersApart'
  <2>1. \A s \in Runs : pc'[s] = "write" => s # r /\ pc[s] = "write" /\ addr[s] # a
    BY <1>1, <1>3, <1>4 DEF IInv, Leases, WritersApart
  <2> QED
    BY <1>1, <1>3, <1>4, <2>1 DEF IInv, Leases, WritersApart
<1>6. LeaseHeld'
  BY <1>1, <1>2, <1>3, <1>4 DEF IInv, Leases, LeaseHeld
<1>7. UseLeased'
  BY <1>1, <1>2, <1>3, <1>4 DEF IInv, Leases, UseLeased
<1>8. DeletesOwn'
  BY <1>1, <1>2, <1>3, <1>4 DEF IInv, Leases, DeletesOwn
<1>9. UnusedBehindVm'
  BY <1>1, <1>3, <1>4 DEF IInv, Leases, UnusedBehindVm
<1> QED
  BY <1>5, <1>6, <1>7, <1>8, <1>9 DEF Leases

\* What the other steps of a preparation have in common: the files stay, and no step
\* but the scan moves the address.
LEMMA QuietLeases ==
    ASSUME IInv, NEW r \in Runs,
           \/ Activate(r) \/ SkipOccupied(r) \/ JournalLease(r) \/ JournalFails(r)
           \/ BeginCleanup(r)
    PROVE  Leases'
<1>1. files' = files /\ inUse' = inUse /\ target' = target
  BY DEF Activate, SkipOccupied, JournalLease, JournalFails, BeginCleanup
<1>2. r \in Processes /\ pc[r] \notin {"compare", "delete", "forget"}
  BY DEF Activate, SkipOccupied, JournalLease, JournalFails, BeginCleanup, Processes
<1>3. /\ pc'[r] \in {"scan", "exhausted", "configure", "done", "clean"}
      /\ pc'[r] = "configure" => pc[r] = "journal"
      /\ \A q \in Processes : q # r => pc'[q] = pc[q] /\ addr'[q] = addr[q]
      /\ pc'[r] = "configure" => addr'[r] = addr[r]
  <2>1. CASE Activate(r)
    BY <1>2, <2>1 DEF Activate, Goto, IInv, TypeOK
  <2>2. CASE SkipOccupied(r)
    BY <1>2, <2>2 DEF SkipOccupied, Goto, IInv, TypeOK
  <2>3. CASE JournalLease(r)
    BY <1>2, <2>3 DEF JournalLease, Goto, IInv, TypeOK
  <2>4. CASE JournalFails(r)
    BY <1>2, <2>4 DEF JournalFails, Fails, Ended, Goto, IInv, TypeOK
  <2>5. CASE BeginCleanup(r)
    BY <1>2, <2>5 DEF BeginCleanup, Goto, IInv, TypeOK
  <2> QED
    BY <2>1, <2>2, <2>3, <2>4, <2>5
<1>4. \A s \in Runs : s \in Processes
  BY DEF Processes
<1>5. WritersApart'
  BY <1>1, <1>3, <1>4 DEF IInv, Leases, WritersApart
<1>6. LeaseHeld'
  BY <1>1, <1>3, <1>4 DEF IInv, Leases, LeaseHeld
<1>7. UseLeased'
  BY <1>1 DEF IInv, Leases, UseLeased
<1>8. DeletesOwn'
  BY <1>1, <1>3 DEF IInv, Leases, DeletesOwn
<1>9. UnusedBehindVm'
  BY <1>1, <1>3 DEF IInv, Leases, UnusedBehindVm
<1> QED
  BY <1>5, <1>6, <1>7, <1>8, <1>9 DEF Leases

\* An address comes into use while its lease is held, and while nobody reconciles
\* the run.
LEMMA ConfigureLeases ==
    ASSUME IInv, NEW r \in Runs, Configure(r) PROVE Leases'
<1>1. /\ files' = files /\ addr' = addr /\ target' = target
      /\ pc[r] = "configure" /\ pc' = [pc EXCEPT ![r] = "run"]
      /\ inUse' = [inUse EXCEPT ![r] = addr[r]]
  BY DEF Configure, Goto
<1>2. r \in Processes /\ \A s \in Runs : s \in Processes
  BY DEF Processes
<1>3. /\ pc'[r] = "run" /\ \A q \in Processes : q # r => pc'[q] = pc[q]
      /\ inUse'[r] = addr[r] /\ \A s \in Runs : s # r => inUse'[s] = inUse[s]
  BY <1>1, <1>2 DEF IInv, TypeOK
<1>4. files[addr[r]] = r
  BY <1>1 DEF IInv, Leases, LeaseHeld
<1>5. WritersApart'
  BY <1>1, <1>2, <1>3 DEF IInv, Leases, WritersApart
<1>6. LeaseHeld'
  BY <1>1, <1>2, <1>3, <1>4 DEF IInv, Leases, LeaseHeld
<1>7. UseLeased'
  BY <1>1, <1>3, <1>4 DEF IInv, Leases, UseLeased
<1>8. DeletesOwn'
  BY <1>1, <1>3 DEF IInv, Leases, DeletesOwn
<1>9. UnusedBehindVm'
  <2> SUFFICES ASSUME NEW q \in Processes, pc'[q] \in {"compare", "delete", "forget"}
               PROVE  inUse'[target[q]] = 0
    BY <1>1 DEF UnusedBehindVm
  <2>1. q # r /\ pc[q] \in {"compare", "delete", "forget"}
    BY <1>3
  <2>2. inUse[target[q]] = 0 /\ target[q] \in Runs
    BY <2>1 DEF IInv, TypeOK, Leases, UnusedBehindVm
  <2>3. target[q] # r
    BY <1>1, <2>1 DEF IInv, Alone, OwnTarget, Recovering, Busy, CleanupSteps, Processes
  <2> QED
    BY <1>3, <2>2, <2>3
<1> QED
  BY <1>5, <1>6, <1>7, <1>8, <1>9 DEF Leases

\* The VM of the run is removed: only its own address goes out of use.
LEMMA RemoveVmLeases ==
    ASSUME IInv, NEW p \in Processes, RemoveVm(p) PROVE Leases'
<1>1. /\ files' = files /\ addr' = addr /\ target' = target
      /\ pc[p] = "clean" /\ pc' = [pc EXCEPT ![p] = "compare"]
      /\ inUse' = [inUse EXCEPT ![target[p]] = 0]
  BY DEF RemoveVm, Goto
<1>2. target[p] \in Runs /\ \A s \in Runs : s \in Processes
  BY DEF Processes, IInv, TypeOK
<1>3. /\ pc'[p] = "compare" /\ \A q \in Processes : q # p => pc'[q] = pc[q]
      /\ inUse'[target[p]] = 0 /\ \A s \in Runs : s # target[p] => inUse'[s] = inUse[s]
  BY <1>1, <1>2 DEF IInv, TypeOK
<1>4. \A q \in Processes : target[q] \in Runs
  BY DEF IInv, TypeOK
<1>5. WritersApart'
  BY <1>1, <1>2, <1>3 DEF IInv, Leases, WritersApart
<1>6. LeaseHeld'
  BY <1>1, <1>2, <1>3 DEF IInv, Leases, LeaseHeld
<1>7. UseLeased'
  BY <1>1, <1>3 DEF IInv, Leases, UseLeased
<1>8. DeletesOwn'
  BY <1>1, <1>3 DEF IInv, Leases, DeletesOwn
<1>9. UnusedBehindVm'
  BY <1>1, <1>3, <1>4 DEF IInv, Leases, UnusedBehindVm
<1> QED
  BY <1>5, <1>6, <1>7, <1>8, <1>9 DEF Leases

\* The comparison finds the run's own file, or ends the cleanup; a cleanup that
\* journals or gives up changes no file.
LEMMA ReleaseLeases ==
    ASSUME IInv, NEW p \in Processes, CompareLease(p) \/ JournalReleased(p) \/ Abandon(p)
    PROVE  Leases'
<1>1. /\ files' = files /\ addr' = addr /\ target' = target /\ inUse' = inUse
      /\ \A q \in Processes : q # p => pc'[q] = pc[q]
  BY DEF CompareLease, JournalReleased, Abandon, Goto, Fails, IInv, TypeOK
<1>2. \/ pc'[p] = "delete" /\ pc[p] = "compare" /\ files[addr[p]] = target[p]
      \/ pc'[p] \in {"done", "idle"}
  <2>1. CASE CompareLease(p)
    BY <2>1 DEF CompareLease, Goto, Ended, IInv, TypeOK
  <2>2. CASE JournalReleased(p)
    BY <2>2 DEF JournalReleased, Goto, Ended, IInv, TypeOK
  <2>3. CASE Abandon(p)
    BY <2>3 DEF Abandon, Fails, Goto, Ended, IInv, TypeOK
  <2> QED
    BY <2>1, <2>2, <2>3
<1>3. \A s \in Runs : s \in Processes
  BY DEF Processes
<1>4. WritersApart'
  BY <1>1, <1>2, <1>3 DEF IInv, Leases, WritersApart
<1>5. LeaseHeld'
  BY <1>1, <1>2, <1>3 DEF IInv, Leases, LeaseHeld
<1>6. UseLeased'
  BY <1>1 DEF IInv, Leases, UseLeased
<1>7. DeletesOwn'
  BY <1>1, <1>2 DEF IInv, Leases, DeletesOwn
<1>8. UnusedBehindVm'
  BY <1>1, <1>2 DEF IInv, Leases, UnusedBehindVm
<1> QED
  BY <1>4, <1>5, <1>6, <1>7, <1>8 DEF Leases

\* The deletion hits a file that no other process relies on.
LEMMA DeleteLeases ==
    ASSUME IInv, NEW p \in Processes, DeleteLease(p) PROVE Leases'
<1> DEFINE a == addr[p]
<1>1. /\ addr' = addr /\ target' = target /\ inUse' = inUse
      /\ pc[p] = "delete" /\ files' = [files EXCEPT ![a] = "none"]
      /\ pc' = [pc EXCEPT ![p] = IF files[a] = "none" THEN Ended(p) ELSE "forget"]
  BY DEF DeleteLease, Goto, FileBecomes
<1>2. /\ files[a] = target[p] /\ target[p] \in Runs /\ inUse[target[p]] = 0
      /\ {"none", "torn"} \cap Runs = {}
  BY <1>1, ProcessesAssumption DEF IInv, TypeOK, Leases, DeletesOwn, UnusedBehindVm
<1>3. pc'[p] = "forget"
  BY <1>1, <1>2 DEF IInv, TypeOK
<1>4. \A q \in Processes : q # p => pc'[q] = pc[q]
  BY <1>1 DEF IInv, TypeOK
<1>5. a \in Addresses /\ \A b \in Addresses : b # a => files'[b] = files[b]
  BY <1>1 DEF IInv, TypeOK
<1>6. /\ \A s \in Runs : s \in Processes
      /\ \A s \in Runs : inUse[s] # 0 => inUse[s] \in Addresses
      /\ \A q \in Processes : addr[q] \in Addresses /\ target[q] \in Runs
  BY DEF IInv, TypeOK, Processes, Addresses
<1>7. WritersApart'
  <2>1. \A s \in Runs : pc'[s] = "write" => addr[s] # a /\ pc[s] = "write"
    BY <1>2, <1>3, <1>4, <1>6 DEF IInv, Leases, WritersApart
  <2>2. \A s \in Runs : pc'[s] = "write" => files'[addr'[s]] = "torn"
    BY <1>1, <1>5, <1>6, <2>1 DEF IInv, Leases, WritersApart
  <2> QED
    BY <1>1, <2>1, <2>2 DEF IInv, Leases, WritersApart
<1>8. LeaseHeld'
  <2> SUFFICES ASSUME NEW s \in Runs, pc'[s] \in {"journal", "configure", "run"}
               PROVE  files'[addr[s]] = s
    BY <1>1 DEF LeaseHeld
  <2>1. s # p /\ pc[s] \in {"journal", "configure", "run"} /\ files[addr[s]] = s
    BY <1>3, <1>4, <1>6 DEF IInv, Leases, LeaseHeld
  <2>2. target[p] # s
    BY <1>1, <2>1 DEF IInv, Alone, OwnTarget, Recovering, Busy, CleanupSteps, Processes
  <2> QED
    BY <1>2, <1>5, <1>6, <2>1, <2>2
<1>9. UseLeased'
  BY <1>1, <1>2, <1>5, <1>6 DEF IInv, Leases, UseLeased
<1>10. DeletesOwn'
  <2> SUFFICES ASSUME NEW q \in Processes, pc'[q] = "delete" PROVE files'[addr[q]] = target[q]
    BY <1>1 DEF DeletesOwn
  <2>1. q # p /\ pc[q] = "delete" /\ files[addr[q]] = target[q]
    BY <1>3, <1>4 DEF IInv, Leases, DeletesOwn
  <2>2. target[q] # target[p]
    BY <1>1, <2>1, OneCleaner DEF IInv, CleanupSteps
  <2> QED
    BY <1>2, <1>5, <1>6, <2>1, <2>2
<1>11. UnusedBehindVm'
  BY <1>1, <1>2, <1>4 DEF IInv, Leases, UnusedBehindVm
<1> QED
  BY <1>7, <1>8, <1>9, <1>10, <1>11 DEF Leases

\* A recovery starts with nothing but the journal's word for the lease.
LEMMA RecoverLeases ==
    ASSUME IInv, NEW p \in Recoverers, NEW r \in Runs, Recover(p, r) PROVE Leases'
<1>1. /\ files' = files /\ inUse' = inUse
      /\ pc' = [pc EXCEPT ![p] = "clean"]
      /\ target' = [target EXCEPT ![p] = r] /\ addr' = [addr EXCEPT ![p] = recorded[r]]
  BY DEF Recover, Goto
<1>2. p \in Processes /\ \A s \in Runs : s # p /\ s \in Processes
  BY ProcessesAssumption DEF Processes
<1>3. /\ pc'[p] = "clean"
      /\ \A q \in Processes :
            q # p => pc'[q] = pc[q] /\ target'[q] = target[q] /\ addr'[q] = addr[q]
  BY <1>1, <1>2 DEF IInv, TypeOK
<1>4. WritersApart'
  BY <1>1, <1>2, <1>3 DEF IInv, Leases, WritersApart
<1>5. LeaseHeld'
  BY <1>1, <1>2, <1>3 DEF IInv, Leases, LeaseHeld
<1>6. UseLeased'
  BY <1>1 DEF IInv, Leases, UseLeased
<1>7. DeletesOwn'
  BY <1>1, <1>3 DEF IInv, Leases, DeletesOwn
<1>8. UnusedBehindVm'
  BY <1>1, <1>3 DEF IInv, Leases, UnusedBehindVm
<1> QED
  BY <1>4, <1>5, <1>6, <1>7, <1>8 DEF Leases

-----------------------------------------------------------------------------
\* Every step keeps processes apart and files with their runs.
LEMMA PoolStep == IInv /\ [Next]_vars => IInv'
<1> SUFFICES ASSUME IInv, [Next]_vars PROVE IInv'
  OBVIOUS
<1>1. TypeOK'
  BY TypeStep DEF IInv
<1>2. CASE UNCHANGED vars
  BY <1>1, <1>2 DEF vars, IInv, Alone, OwnTarget, Recovering, RecoverersApart, RecoverersTyped,
                    Busy, Leases, WritersApart, LeaseHeld, UseLeased, DeletesOwn, UnusedBehindVm
<1>3. CASE \E r \in Runs : Prepare(r)
  BY <1>1, <1>3, PrepareAlone, ReserveLeases, WriteLeases, QuietLeases, ConfigureLeases
  DEF Prepare, IInv
<1>4. CASE \E p \in Processes : Clean(p)
  BY <1>1, <1>4, CleanAlone, RemoveVmLeases, ReleaseLeases, DeleteLeases DEF Clean, IInv
<1>5. CASE \E p \in Recoverers, r \in Runs : Unattended(r) /\ Recover(p, r)
  BY <1>1, <1>5, RecoverAlone, RecoverLeases DEF IInv
<1> QED
  BY <1>2, <1>3, <1>4, <1>5 DEF Next

\* The inductive invariant of the pool.
THEOREM Inductive == Spec => []IInv
<1>1. Init => IInv
  <2> SUFFICES ASSUME Init PROVE IInv
    OBVIOUS
  <2>1. TypeOK
    BY PoolSizeAssumption, MaxFaultsAssumption DEF Init, TypeOK, Addresses
  <2>2. Alone
    BY DEF Init, Alone, OwnTarget, Recovering, RecoverersApart, RecoverersTyped, Busy,
           CleanupSteps, Processes
  <2>3. Leases
    BY DEF Init, Leases, WritersApart, LeaseHeld, UseLeased, DeletesOwn, UnusedBehindVm,
           Processes
  <2> QED
    BY <2>1, <2>2, <2>3 DEF IInv
<1> QED
  BY <1>1, PoolStep, PTL DEF Spec

\* No two VMs have the same address.
THEOREM Exclusive == Spec => []AddressExclusive
<1>1. IInv => AddressExclusive
  BY DEF IInv, Leases, UseLeased, AddressExclusive
<1> QED
  BY <1>1, Inductive, PTL

\* A lease is only deleted by a cleanup of the run that it records.
THEOREM ReleaseIsOwn == Spec => ReleasesOwnLease
<1>1. IInv => \A p \in Processes : pc[p] = "delete" => files[addr[p]] = target[p]
  BY DEF IInv, Leases, DeletesOwn
<1>2. IInv /\ [Next]_vars =>
        [\A p \in Processes :
            (pc[p] = "delete" /\ pc'[p] = "forget") => files[addr[p]] = target[p]]_vars
  BY <1>1
<1> QED
  BY <1>2, Inductive, PTL DEF Spec, ReleasesOwnLease

-----------------------------------------------------------------------------
\* Behind the scan nothing was free all the time.
ScanComplete ==
    \A r \in Runs :
        /\ pc[r] = "scan" => \A a \in neverTaken[r] : files[a] = "none" /\ a >= addr[r]
        /\ pc[r] = "exhausted" => neverTaken[r] = {}

\* Only the preparation of a run moves it to, through or out of the scan.
LEMMA ScanMoves ==
    ASSUME TypeOK, Next, NEW r \in Runs, pc'[r] \in {"scan", "exhausted"}
    PROVE  \/ pc[r] = "idle" /\ pc'[r] = "scan" /\ addr'[r] = 1
           \/ SkipOccupied(r)
           \/ pc'[r] = pc[r] /\ addr'[r] = addr[r]
<1>1. r \in Processes
  BY DEF Processes
<1>2. ASSUME NEW s \in Runs, Prepare(s)
      PROVE  \/ pc[r] = "idle" /\ pc'[r] = "scan" /\ addr'[r] = 1
             \/ SkipOccupied(r)
             \/ pc'[r] = pc[r] /\ addr'[r] = addr[r]
  <2>1. CASE s = r
    BY <1>1, <1>2, <2>1
    DEF Prepare, Activate, Reserve, WriteLease, WriteFails, JournalLease, JournalFails,
        Configure, BeginCleanup, Goto, Fails, Ended, TypeOK
  <2>2. CASE s # r
    BY <1>1, <1>2, <2>2
    DEF Prepare, Activate, Reserve, SkipOccupied, WriteLease, WriteFails, JournalLease,
        JournalFails, Configure, BeginCleanup, Goto, Fails, TypeOK
  <2> QED
    BY <2>1, <2>2
<1>3. ASSUME NEW p \in Processes, Clean(p) PROVE pc'[r] = pc[r] /\ addr'[r] = addr[r]
  <2>1. addr' = addr /\ \E step \in CleanupSteps \cup {Ended(p)} : pc' = [pc EXCEPT ![p] = step]
    BY <1>3 DEF Clean, RemoveVm, CompareLease, DeleteLease, JournalReleased, Abandon, Goto,
                Fails, CleanupSteps
  <2> QED
    BY <1>1, <2>1 DEF TypeOK, CleanupSteps, Ended
<1>4. ASSUME NEW p \in Recoverers, NEW s \in Runs, Recover(p, s)
      PROVE  pc'[r] = pc[r] /\ addr'[r] = addr[r]
  BY <1>1, <1>4, ProcessesAssumption DEF Recover, Goto, TypeOK, Processes
<1> QED
  BY <1>2, <1>3, <1>4 DEF Next

\* The scan passes an address only when it sees it taken.
LEMMA ScanStep == TypeOK /\ ScanComplete /\ [Next]_vars => ScanComplete'
<1> SUFFICES ASSUME TypeOK, ScanComplete, [Next]_vars, NEW r \in Runs
             PROVE  /\ pc'[r] = "scan" =>
                          \A a \in neverTaken'[r] : files'[a] = "none" /\ a >= addr'[r]
                    /\ pc'[r] = "exhausted" => neverTaken'[r] = {}
  BY DEF ScanComplete
<1>1. CASE UNCHANGED vars
  BY <1>1 DEF vars, ScanComplete
<1>2. CASE Next /\ pc'[r] \in {"scan", "exhausted"}
  <2>1. neverTaken'[r] = {a \in IF pc[r] = "idle" THEN Addresses ELSE neverTaken[r] :
                            files'[a] = "none"}
    BY <1>2 DEF Next, Watched
  <2>2. CASE pc[r] = "idle" /\ pc'[r] = "scan" /\ addr'[r] = 1
    BY <2>1, <2>2 DEF Addresses
  <2>3. CASE SkipOccupied(r)
    <3>1. /\ pc[r] = "scan" /\ files' = files /\ files[addr[r]] # "none"
          /\ r \in Processes /\ addr[r] \in Addresses
      BY <2>3 DEF SkipOccupied, Processes, TypeOK
    <3>2. \A a \in neverTaken'[r] : files'[a] = "none" /\ a > addr[r] /\ a \in Addresses
      BY <2>1, <3>1 DEF ScanComplete, TypeOK, Addresses
    <3>3. CASE addr[r] < PoolSize
      <4>1. pc'[r] = "scan" /\ addr'[r] = addr[r] + 1
        BY <2>3, <3>1, <3>3 DEF SkipOccupied, TypeOK
      <4> QED
        BY <3>1, <3>2, <4>1 DEF Addresses
    <3>4. CASE ~(addr[r] < PoolSize)
      <4>1. pc'[r] = "exhausted" /\ addr[r] = PoolSize
        BY <2>3, <3>1, <3>4, PoolSizeAssumption DEF SkipOccupied, Goto, TypeOK, Addresses
      <4> QED
        BY <3>2, <4>1, PoolSizeAssumption DEF Addresses
    <3> QED
      BY <3>3, <3>4
  <2>4. CASE pc'[r] = pc[r] /\ addr'[r] = addr[r]
    BY <1>2, <2>1, <2>4 DEF ScanComplete
  <2> QED
    BY <1>2, <2>2, <2>3, <2>4, ScanMoves
<1>3. CASE pc'[r] \notin {"scan", "exhausted"}
  BY <1>3
<1> QED
  BY <1>1, <1>2, <1>3

\* A run that is told that the pool is exhausted found every address taken.
THEOREM Exhaustion == Spec => []ExhaustionIsReal
<1>1. Init => ScanComplete
  BY DEF Init, ScanComplete, Processes
<1>2. TypeOK /\ ScanComplete /\ [Next]_vars => ScanComplete'
  BY ScanStep
<1>3. IInv => TypeOK
  BY DEF IInv
<1>4. ScanComplete => ExhaustionIsReal
  BY DEF ScanComplete, ExhaustionIsReal
<1> QED
  BY <1>1, <1>2, <1>3, <1>4, Inductive, PTL DEF Spec
=============================================================================
