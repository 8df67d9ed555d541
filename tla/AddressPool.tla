---------------------------- MODULE AddressPool ----------------------------
(***************************************************************************)
(* The pool of guest addresses (src/sandbox/hyperv/network.rs): runs of    *)
(* separate Foxhole processes reserve addresses by creating lease files in *)
(* one directory, and cleanups and recoveries release them by deleting the *)
(* files.  No lock is involved: a reservation is an exclusive creation, a  *)
(* release compares the record in the file with the lease in the journal   *)
(* before it deletes.  Any process can die between two steps.              *)
(***************************************************************************)
EXTENDS Naturals

CONSTANTS Runs,        \* runs, each with the process that prepares it
          Recoverers,  \* processes that recover stale runs
          PoolSize,    \* addresses guest_address_start..guest_address_end
          MaxFaults    \* failed file operations and scripts, and deaths

ASSUME PoolSizeAssumption == PoolSize \in Nat \ {0}

ASSUME ProcessesAssumption == Runs \cap Recoverers = {} /\ {"none", "torn"} \cap Runs = {}

ASSUME MaxFaultsAssumption == MaxFaults \in Nat

VARIABLES
    files,      \* content of each lease file: absent, incomplete or a run's record
    recorded,   \* the lease that the latest journal of a run names, 0 for none
    inUse,      \* the address the VM of a run is configured with, 0 for none
    pc,         \* next step of each process
    target,     \* the run a process works on
    addr,       \* the lease it has at hand
    faults,
    neverTaken  \* history: free without interruption since a run began its scan

vars == <<files, recorded, inUse, pc, target, addr, faults, neverTaken>>

Processes == Runs \cup Recoverers

Addresses == 1..PoolSize

CleanupSteps == {"clean", "compare", "delete", "forget"}

PreparationSteps == {"scan", "write", "journal", "configure", "run"}

Free == {a \in Addresses : files[a] = "none"}

-----------------------------------------------------------------------------
Init ==
    /\ files = [a \in Addresses |-> "none"]
    /\ recorded = [r \in Runs |-> 0]
    /\ inUse = [r \in Runs |-> 0]
    /\ pc = [p \in Processes |-> "idle"]
    /\ target \in [Processes -> Runs]
    /\ \A r \in Runs : target[r] = r
    /\ addr = [p \in Processes |-> 1]
    /\ faults = 0
    /\ neverTaken = [r \in Runs |-> {}]

Fault == faults < MaxFaults /\ faults' = faults + 1

NoFault == UNCHANGED faults

\* A run has one preparation; a recovery can be followed by another one.
Ended(p) == IF p \in Runs THEN "done" ELSE "idle"

Goto(p, step) == pc' = [pc EXCEPT ![p] = step]

Fails(p) == Fault /\ Goto(p, Ended(p))

FileBecomes(a, content) == files' = [files EXCEPT ![a] = content]

-----------------------------------------------------------------------------
\* activate and allocate_guest_address.

Activate(r) ==
    /\ pc[r] = "idle" /\ Goto(r, "scan")
    /\ addr' = [addr EXCEPT ![r] = 1]
    /\ NoFault /\ UNCHANGED <<files, recorded, inUse, target>>

\* Mutant: an incomplete lease counts as free.
Reserve_Reclaiming(r) ==
    /\ pc[r] = "scan" /\ files[addr[r]] \in {"none", "torn"}
    /\ FileBecomes(addr[r], "torn") /\ Goto(r, "write")
    /\ NoFault /\ UNCHANGED <<recorded, inUse, target, addr>>

\* open with create_new; the record follows.
Reserve(r) ==
    /\ pc[r] = "scan" /\ files[addr[r]] = "none"
    /\ FileBecomes(addr[r], "torn") /\ Goto(r, "write")
    /\ NoFault /\ UNCHANGED <<recorded, inUse, target, addr>>

\* Mutant: the end of the range is excluded.
SkipOccupied_ShortRange(r) ==
    /\ pc[r] = "scan" /\ files[addr[r]] # "none"
    /\ IF addr[r] + 1 < PoolSize
       THEN addr' = [addr EXCEPT ![r] = @ + 1] /\ UNCHANGED pc
       ELSE Goto(r, "exhausted") /\ UNCHANGED addr
    /\ NoFault /\ UNCHANGED <<files, recorded, inUse, target>>

\* Any existing file is occupied, also an incomplete or a stale one.
SkipOccupied(r) ==
    /\ pc[r] = "scan" /\ files[addr[r]] # "none"
    /\ IF addr[r] < PoolSize
       THEN addr' = [addr EXCEPT ![r] = @ + 1] /\ UNCHANGED pc
       ELSE Goto(r, "exhausted") /\ UNCHANGED addr
    /\ NoFault /\ UNCHANGED <<files, recorded, inUse, target>>

WriteLease(r) ==
    /\ pc[r] = "write"
    /\ FileBecomes(addr[r], r) /\ Goto(r, "journal")
    /\ NoFault /\ UNCHANGED <<recorded, inUse, target, addr>>

\* The file is removed again, its removal unchecked; the record can be complete.
WriteFails(r) ==
    /\ pc[r] = "write" /\ Fails(r)
    /\ \E content \in {"none", "torn", r} : FileBecomes(addr[r], content)
    /\ UNCHANGED <<recorded, inUse, target, addr>>

\* HyperVBackend::prepare_inner: the generation that names the lease ...
JournalLease(r) ==
    /\ pc[r] = "journal" /\ Goto(r, "configure")
    /\ recorded' = [recorded EXCEPT ![r] = addr[r]]
    /\ NoFault /\ UNCHANGED <<files, inUse, target, addr>>

\* ... of which a failed persist can leave a complete file.  The cleanup that
\* follows works on the journal without the lease.
JournalFails(r) ==
    /\ pc[r] = "journal" /\ Fails(r)
    /\ recorded' \in {recorded, [recorded EXCEPT ![r] = addr[r]]}
    /\ UNCHANGED <<files, inUse, target, addr>>

\* The address is given to the guest, the VM boots ...
Configure(r) ==
    /\ pc[r] = "configure" /\ Goto(r, "run")
    /\ inUse' = [inUse EXCEPT ![r] = addr[r]]
    /\ NoFault /\ UNCHANGED <<files, recorded, target, addr>>

\* ... unless the preparation is abandoned or the run over.
BeginCleanup(r) ==
    /\ pc[r] \in {"configure", "run"} /\ Goto(r, "clean")
    /\ NoFault /\ UNCHANGED <<files, recorded, inUse, target, addr>>

-----------------------------------------------------------------------------
\* The network part of cleanup_resources, by the run's process or a recovery.

\* recover_stale_run of a run whose process has ended.
Recover(p, r) ==
    /\ pc[p] = "idle" /\ pc[r] = "done" /\ recorded[r] # 0
    /\ target' = [target EXCEPT ![p] = r]
    /\ addr' = [addr EXCEPT ![p] = recorded[r]]
    /\ Goto(p, "clean")
    /\ NoFault /\ UNCHANGED <<files, recorded, inUse>>

\* Nobody else recovers the run.
Unattended(r) == \A q \in Recoverers : pc[q] = "idle" \/ target[q] # r

\* The VM is removed, then the controls; a failure retains the lease.
RemoveVm(p) ==
    /\ pc[p] = "clean" /\ Goto(p, "compare")
    /\ inUse' = [inUse EXCEPT ![target[p]] = 0]
    /\ NoFault /\ UNCHANGED <<files, recorded, target, addr>>

\* Mutant: any complete record is taken for the run's own.
CompareLease_Any(p) ==
    /\ pc[p] = "compare"
    /\ Goto(p, IF files[addr[p]] \in Runs THEN "delete" ELSE Ended(p))
    /\ NoFault /\ UNCHANGED <<files, recorded, inUse, target, addr>>

\* release_guest_address: the record in the file is the lease of the journal ...
CompareLease(p) ==
    /\ pc[p] = "compare"
    /\ Goto(p, IF files[addr[p]] = target[p] THEN "delete" ELSE Ended(p))
    /\ NoFault /\ UNCHANGED <<files, recorded, inUse, target, addr>>

\* ... and the file of that name is deleted.
DeleteLease(p) ==
    /\ pc[p] = "delete"
    /\ FileBecomes(addr[p], "none")
    /\ Goto(p, IF files[addr[p]] = "none" THEN Ended(p) ELSE "forget")
    /\ NoFault /\ UNCHANGED <<recorded, inUse, target, addr>>

JournalReleased(p) ==
    /\ pc[p] = "forget" /\ Goto(p, Ended(p))
    /\ recorded' = [recorded EXCEPT ![target[p]] = 0]
    /\ NoFault /\ UNCHANGED <<files, inUse, target, addr>>

\* A failed creation, removal, read, deletion or persist, or the death of the
\* process at any step.
Abandon(p) ==
    /\ pc[p] \in CleanupSteps \cup PreparationSteps /\ Fails(p)
    /\ UNCHANGED <<files, recorded, inUse, target, addr>>

-----------------------------------------------------------------------------
Prepare(r) ==
    \/ Activate(r) \/ Reserve(r) \/ SkipOccupied(r)
    \/ WriteLease(r) \/ WriteFails(r) \/ JournalLease(r) \/ JournalFails(r)
    \/ Configure(r) \/ BeginCleanup(r)

Clean(p) ==
    \/ RemoveVm(p) \/ CompareLease(p) \/ DeleteLease(p) \/ JournalReleased(p)
    \/ Abandon(p)

Watched ==
    neverTaken' = [r \in Runs |->
        IF pc'[r] \notin {"scan", "exhausted"} THEN {}
        ELSE {a \in IF pc[r] = "idle" THEN Addresses ELSE neverTaken[r] :
                 files'[a] = "none"}]

Next ==
    /\ \/ \E r \in Runs : Prepare(r)
       \/ \E p \in Processes : Clean(p)
       \/ \E p \in Recoverers, r \in Runs : Unattended(r) /\ Recover(p, r)
    /\ Watched

Spec == Init /\ [][Next]_vars

\* Nothing in the code keeps two recoveries of one run apart.
OverlappingNext ==
    \/ Next
    \/ (\E p \in Recoverers, r \in Runs : Recover(p, r)) /\ Watched

OverlappingSpec == Init /\ [][OverlappingNext]_vars

-----------------------------------------------------------------------------
TypeOK ==
    /\ files \in [Addresses -> {"none", "torn"} \cup Runs]
    /\ recorded \in [Runs -> 0..PoolSize]
    /\ inUse \in [Runs -> 0..PoolSize]
    /\ pc \in [Processes -> {"idle", "exhausted", "done"} \cup CleanupSteps
                              \cup PreparationSteps]
    /\ target \in [Processes -> Runs]
    /\ addr \in [Processes -> Addresses]
    /\ faults \in 0..MaxFaults
    /\ neverTaken \in [Runs -> SUBSET Addresses]

\* No two VMs have the same address, whatever became of the processes that started
\* them and however often their runs were recovered.
AddressExclusive ==
    \A r, s \in Runs : (r # s /\ inUse[r] # 0) => inUse[r] # inUse[s]

\* "Deletes a lease only when its on-disk ownership record still exactly matches
\* the caller's lease."
ReleasesOwnLease ==
    [][\A p \in Processes :
          (pc[p] = "delete" /\ pc'[p] = "forget") => files[addr[p]] = target[p]]_vars

\* "no unallocated guest IPv4 address remains": while the run looked, no address was
\* free all the time.
ExhaustionIsReal == \A r \in Runs : pc[r] = "exhausted" => neverTaken[r] = {}
=============================================================================
