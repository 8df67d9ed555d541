----------------------------- MODULE HyperVRun -----------------------------
(***************************************************************************)
(* One Hyper-V run: preparation, execution, evidence collection, cleanup   *)
(* and recovery (src/sandbox/hyperv/backend.rs, cleanup.rs), as a sequence *)
(* of steps each of which changes the host, writes a journal generation or *)
(* neither.  Any step can be followed by a Ctrl+C, by the death of the     *)
(* Foxhole process or by a reboot of the host, and any script or write can *)
(* fail; MaxDisturbances bounds how many of these a behaviour has.         *)
(***************************************************************************)
EXTENDS CleanupJournal, HostResources

CONSTANTS MaxDisturbances,
          MayDrift     \* may somebody else take the network controls away?

ASSUME MaxDisturbancesAssumption == MaxDisturbances \in Nat

ASSUME MayDriftAssumption == MayDrift \in BOOLEAN

VARIABLES
    mode,          \* network plan of the run
    host,          \* what exists on the host
    store,         \* journal generations on disk
    journal,       \* the journal in memory
    tracked,       \* PreparedRun::Preparing: what a failed preparation cleans up
    pc,            \* next step of the process, "down" when there is none
    interrupted,   \* interrupt::INTERRUPTED
    completion,    \* VmCompletion of the execution
    accepted,      \* execute returned a run result, not an error
    report,        \* CleanupOutcome of the last cleanup
    disturbances,  \* disturbances so far
    exposed        \* history: the guest ran outside its containment

vars == <<mode, host, store, journal, tracked, pc, interrupted, completion,
          accepted, report, disturbances, exposed>>

PrepareSteps ==
    {"create_journal", "reserve_address", "journal_lease", "plan_os_disk",
     "create_os_disk", "journal_os_identity", "plan_data_disk", "create_data_disk",
     "journal_data_mounted", "stage_and_dismount", "journal_data_detached",
     "create_vm", "journal_vm", "attach_disks", "prepare_adapter",
     "journal_network", "configure_network", "verify_prepared", "journal_ready"}

ExecuteSteps ==
    {"verify_before_start", "start_vm", "journal_running", "observe",
     "stop_after_error", "force_stop", "collect_mount", "journal_collect_mount",
     "collect_dismount", "journal_collect_dismount", "verify_after"}

\* The cleanup steps up to the removal of the VM, and those behind it.
StoppingSteps == {"begin_cleanup", "start_cleanup", "stop_vm", "detach_disks", "remove_vm"}

ReclaimSteps == {"finish_capture", "remove_controls", "release_lease",
                 "journal_released", "dismount_data", "delete_data", "delete_os"}

Steps == PrepareSteps \cup ExecuteSteps \cup StoppingSteps \cup ReclaimSteps
         \cup {"finish", "down"}

Completions == {"none", "powered_off", "timed_out", "quota"}

Leftovers == {"vm", "network", "data_disk", "os_disk", "cleanup_journal", "run_root"}

Report == [status : {"none", "open", "success", "failure"}, warned : BOOLEAN,
           left : SUBSET Leftovers]

NoReport   == [status |-> "none", warned |-> FALSE, left |-> {}]
OpenReport == [status |-> "open", warned |-> FALSE, left |-> {}]

TypeOK ==
    /\ mode \in Modes
    /\ host \in Host
    /\ store \in Store
    /\ journal \in Journal
    /\ tracked \in Journal
    /\ pc \in Steps
    /\ interrupted \in BOOLEAN
    /\ completion \in Completions
    /\ accepted \in BOOLEAN
    /\ report \in Report
    /\ disturbances \in 0..MaxDisturbances
    /\ exposed \in BOOLEAN

Init ==
    /\ mode \in Modes
    /\ host = CleanHost
    /\ store = EmptyStore
    /\ journal = NewJournal
    /\ tracked = NewJournal
    /\ pc = "create_journal"
    /\ interrupted = FALSE
    /\ completion = "none"
    /\ accepted = FALSE
    /\ report = NoReport
    /\ disturbances = 0
    /\ exposed = FALSE

-----------------------------------------------------------------------------
Spend(cost) ==
    /\ disturbances + cost <= MaxDisturbances
    /\ disturbances' = disturbances + cost

\* execute_native polls the interrupt flag while its child runs: with the flag
\* set no script succeeds, and the killed child costs nothing more.  A step that
\* cannot fail runs no script.
ScriptOutcome(outcomes, o) ==
    /\ interrupted /\ (\E x \in outcomes : ~x.ok) => ~o.ok
    /\ Spend(IF interrupted THEN 0 ELSE o.cost)
    /\ host' = o.host

\* Plain file operations do not look at the flag.
FileOutcome(o) == Spend(o.cost) /\ host' = o.host

PersistOutcome(o) == Spend(o.cost) /\ store' = o.store

\* prepare_inner returns early with "?": cleanup then uses the tracked journal.
AbandonPreparation == pc' = "begin_cleanup" /\ journal' = tracked

\* A preparation step that runs a script, from step "here" to step "next".
Provision(here, outcomes, next) ==
    /\ pc = here
    /\ \E o \in outcomes :
          /\ ScriptOutcome(outcomes, o)
          /\ IF o.ok THEN pc' = next /\ UNCHANGED journal ELSE AbandonPreparation
    /\ UNCHANGED <<mode, store, tracked, interrupted, completion, accepted, report>>

\* journal.persist()?; self.track_preparation(&journal), for the journal j.
Track(here, j, next) ==
    /\ pc = here
    /\ \E o \in PersistOutcomes(j, store) :
          /\ PersistOutcome(o)
          /\ IF o.ok
             THEN pc' = next /\ journal' = o.journal /\ tracked' = o.journal
             ELSE AbandonPreparation /\ UNCHANGED tracked
    /\ UNCHANGED <<mode, host, interrupted, completion, accepted, report>>

-----------------------------------------------------------------------------
\* HyperVBackend::prepare_inner, up to PreparedRun::Live.

CreateJournal ==
    Track("create_journal", journal,
          IF mode = "deny_all" THEN "plan_os_disk" ELSE "reserve_address")

ReserveAddress ==
    /\ pc = "reserve_address"
    /\ \E o \in AllocateLease(host) :
          /\ FileOutcome(o)
          /\ IF o.ok THEN pc' = "journal_lease" /\ UNCHANGED journal ELSE AbandonPreparation
    /\ UNCHANGED <<mode, store, tracked, interrupted, completion, accepted, report>>

JournalLease ==
    Track("journal_lease", [journal EXCEPT !.network = "lease"], "plan_os_disk")

PlanOsDisk ==
    Track("plan_os_disk", [journal EXCEPT !.osDisk = TRUE], "create_os_disk")

ProvisionOsDisk == Provision("create_os_disk", CreateOsDisk(host), "journal_os_identity")

JournalOsIdentity ==
    Track("journal_os_identity", [journal EXCEPT !.osId = (host.osDisk = "identified")],
          "plan_data_disk")

PlanDataDisk ==
    Track("plan_data_disk", [journal EXCEPT !.data = "planned"], "create_data_disk")

ProvisionDataDisk == Provision("create_data_disk", CreateDataDisk(host), "journal_data_mounted")

JournalDataMounted ==
    Track("journal_data_mounted", [journal EXCEPT !.data = "mounted"], "stage_and_dismount")

\* Mutant: the error of the dismount before the VM boots is dropped.
StageAndDismount_Unchecked ==
    /\ pc = "stage_and_dismount" /\ pc' = "journal_data_detached"
    /\ \E o \in DismountDataDisk(host) : ScriptOutcome(DismountDataDisk(host), o)
    /\ UNCHANGED <<mode, store, journal, tracked, interrupted, completion, accepted, report>>

StageAndDismount ==
    Provision("stage_and_dismount", DismountDataDisk(host), "journal_data_detached")

JournalDataDetached ==
    Track("journal_data_detached", [journal EXCEPT !.data = "detached"], "create_vm")

ProvisionVm == Provision("create_vm", CreateVm(host), "journal_vm")

JournalVm ==
    Track("journal_vm", [journal EXCEPT !.vm = TRUE, !.phase = "vm_created"], "attach_disks")

AttachRunDisks ==
    Provision("attach_disks", AttachDisks(host),
              IF mode = "deny_all" THEN "configure_network" ELSE "prepare_adapter")

PrepareControlledAdapter ==
    Provision("prepare_adapter", PrepareAdapter(host), "journal_network")

\* Mutant: firewall rule and capture are not journaled before they are created.
JournalNetwork_Unnamed == Track("journal_network", journal, "configure_network")

JournalNetwork ==
    Track("journal_network", [journal EXCEPT !.network = "owned"], "configure_network")

Configure == Provision("configure_network", ConfigureNetwork(mode, host), "verify_prepared")

VerifyPrepared == Provision("verify_prepared", VerifyNetwork(mode, host), "journal_ready")

JournalReady == Track("journal_ready", journal, "verify_before_start")

Prepare ==
    \/ CreateJournal \/ ReserveAddress \/ JournalLease
    \/ PlanOsDisk \/ ProvisionOsDisk \/ JournalOsIdentity
    \/ PlanDataDisk \/ ProvisionDataDisk \/ JournalDataMounted
    \/ StageAndDismount \/ JournalDataDetached
    \/ ProvisionVm \/ JournalVm \/ AttachRunDisks
    \/ PrepareControlledAdapter \/ JournalNetwork
    \/ Configure \/ VerifyPrepared \/ JournalReady

-----------------------------------------------------------------------------
\* HyperVBackend::execute_inner.  Every error ends in cleanup of the journal in memory.

RunScript(here, outcomes, ok, failed) ==
    /\ pc = here
    /\ \E o \in outcomes : ScriptOutcome(outcomes, o) /\ pc' = IF o.ok THEN ok ELSE failed
    /\ UNCHANGED <<mode, store, journal, tracked, interrupted, completion, accepted, report>>

Record(here, j, ok, failed) ==
    /\ pc = here
    /\ \E o \in PersistOutcomes(j, store) :
          /\ PersistOutcome(o)
          /\ journal' = o.journal
          /\ pc' = IF o.ok THEN ok ELSE failed
    /\ UNCHANGED <<mode, host, tracked, interrupted, completion, accepted, report>>

VerifyBeforeStart ==
    RunScript("verify_before_start", VerifyNetwork(mode, host), "start_vm", "begin_cleanup")

Start == RunScript("start_vm", StartVm(host), "journal_running", "begin_cleanup")

JournalRunning ==
    Record("journal_running", [journal EXCEPT !.phase = "running"], "observe", "begin_cleanup")

\* The watcher thread of wait_for_vm_completion turns the VM off before it reports.
WatcherStopped == IF interrupted THEN {host} ELSE {host, PoweredOff(host)}

ObservePoweredOff ==
    /\ ~interrupted /\ host.vm = "off"
    /\ completion' = "powered_off" /\ pc' = "verify_after"
    /\ UNCHANGED host /\ Spend(0)

ObserveTimedOut ==
    /\ ~interrupted /\ host.vm = "running"
    /\ completion' = "timed_out" /\ pc' = "force_stop"
    /\ UNCHANGED host /\ Spend(0)

ObserveQuota ==
    /\ host' \in WatcherStopped
    /\ completion' = "quota" /\ pc' = "force_stop"
    /\ Spend(0)

\* A failed query, a policy violation, a failed quota check or the interrupt.
ObserveError ==
    /\ host' \in WatcherStopped
    /\ pc' = "stop_after_error"
    /\ Spend(IF interrupted THEN 0 ELSE 1)
    /\ UNCHANGED completion

WaitForCompletion ==
    /\ pc = "observe"
    /\ ObservePoweredOff \/ ObserveTimedOut \/ ObserveQuota \/ ObserveError
    /\ UNCHANGED <<mode, store, journal, tracked, interrupted, accepted, report>>

\* The attestation that follows only selects the error that is returned.
StopAfterError == RunScript("stop_after_error", StopVm(host), "begin_cleanup", "begin_cleanup")

ForceStop == RunScript("force_stop", StopVm(host), "collect_mount", "collect_mount")

\* Partial preservation swallows its errors and is followed by the attestation;
\* after an ordinary completion the attestation came first.
CollectionEnd == IF completion = "powered_off" THEN "begin_cleanup" ELSE "verify_after"

\* Mutant: the attestation after the run only warns.
VerifyAfter_Lenient ==
    /\ pc = "verify_after"
    /\ \E o \in VerifyNetwork(mode, host) : ScriptOutcome(VerifyNetwork(mode, host), o)
    /\ pc' = IF completion = "powered_off" THEN "collect_mount" ELSE "begin_cleanup"
    /\ accepted' = (completion = "timed_out")
    /\ UNCHANGED <<mode, store, journal, tracked, interrupted, completion, report>>

\* A guest that outlived its deadline still yields a (synthetic) result.
VerifyAfter ==
    /\ pc = "verify_after"
    /\ \E o \in VerifyNetwork(mode, host) :
          /\ ScriptOutcome(VerifyNetwork(mode, host), o)
          /\ pc' = IF o.ok /\ completion = "powered_off" THEN "collect_mount" ELSE "begin_cleanup"
          /\ accepted' = (o.ok /\ completion = "timed_out")
    /\ UNCHANGED <<mode, store, journal, tracked, interrupted, completion, report>>

CollectMount ==
    RunScript("collect_mount", MountDataDisk(host), "journal_collect_mount", CollectionEnd)

JournalCollectMount ==
    Record("journal_collect_mount", [journal EXCEPT !.data = "mounted"],
           "collect_dismount", CollectionEnd)

\* The disk is journaled after the dismount whether or not the dismount worked.
CollectDismount ==
    /\ pc = "collect_dismount"
    /\ \E o \in DismountDataDisk(host) :
          /\ ScriptOutcome(DismountDataDisk(host), o)
          /\ journal' = IF o.ok THEN [journal EXCEPT !.data = "detached"] ELSE journal
    /\ pc' = "journal_collect_dismount"
    /\ UNCHANGED <<mode, store, tracked, interrupted, completion, accepted, report>>

\* The collected envelope can still be rejected.
JournalCollectDismount ==
    /\ pc = "journal_collect_dismount"
    /\ \E o \in PersistOutcomes(journal, store) :
          /\ PersistOutcome(o)
          /\ journal' = o.journal
          /\ accepted' \in {FALSE, completion = "powered_off" /\ o.ok /\ journal.data = "detached"}
    /\ pc' = CollectionEnd
    /\ UNCHANGED <<mode, host, tracked, interrupted, completion, report>>

Execute ==
    \/ VerifyBeforeStart \/ Start \/ JournalRunning \/ WaitForCompletion
    \/ StopAfterError \/ ForceStop \/ VerifyAfter
    \/ CollectMount \/ JournalCollectMount \/ CollectDismount \/ JournalCollectDismount

-----------------------------------------------------------------------------
\* HyperVBackend::cleanup and cleanup::cleanup_resources.

Exit ==
    /\ pc' = "down"
    /\ journal' = NewJournal /\ tracked' = NewJournal
    /\ interrupted' = FALSE /\ completion' = "none" /\ accepted' = FALSE

\* interrupt::begin_cleanup.  Without a tracked journal there is nothing to clean.
BeginCleanup ==
    /\ pc = "begin_cleanup"
    /\ IF journal.seq = 0
       THEN Exit /\ report' = [OpenReport EXCEPT !.status = "success"]
       ELSE /\ pc' = "start_cleanup" /\ report' = OpenReport
            /\ interrupted' = FALSE /\ completion' = "none"
            /\ tracked' = NewJournal /\ UNCHANGED <<journal, accepted>>
    /\ UNCHANGED <<mode, host, store, disturbances>>

Retaining(kinds) == [report EXCEPT !.warned = TRUE, !.left = @ \cup kinds]
Warning == Retaining({})

\* record_persist_error
RecordedPersist(o) == IF o.ok THEN report ELSE Retaining({"cleanup_journal"})

\* The run directory cannot be pinned.
RefuseCleanup ==
    /\ pc = "start_cleanup"
    /\ Spend(1)
    /\ report' = [Retaining({"run_root"}) EXCEPT !.status = "failure"]
    /\ Exit
    /\ UNCHANGED <<mode, host, store>>

\* Mutant: the network resources are cleaned up before the VM.
StartCleanup_NetworkFirst ==
    /\ pc = "start_cleanup"
    /\ \E o \in PersistOutcomes([journal EXCEPT !.phase = "cleaning"], store) :
          PersistOutcome(o) /\ journal' = o.journal /\ report' = RecordedPersist(o)
    /\ pc' = IF journal.network = "owned" THEN "remove_controls" ELSE "remove_vm"
    /\ UNCHANGED <<mode, host, tracked, interrupted, completion, accepted>>

StartCleanup ==
    /\ pc = "start_cleanup"
    /\ \E o \in PersistOutcomes([journal EXCEPT !.phase = "cleaning"], store) :
          /\ PersistOutcome(o)
          /\ journal' = o.journal
          /\ report' = RecordedPersist(o)
    /\ pc' = IF journal.vm THEN "stop_vm" ELSE "remove_vm"
    /\ UNCHANGED <<mode, host, tracked, interrupted, completion, accepted>>

\* A cleanup step whose failure is reported but never stops the cleanup: "done"
\* is the journal after success, "failed" the report after failure.
Reconcile(here, outcomes, done, failed, next) ==
    /\ pc = here
    /\ \E o \in outcomes :
          /\ ScriptOutcome(outcomes, o)
          /\ journal' = IF o.ok THEN done ELSE journal
          /\ report' = IF o.ok THEN report ELSE failed
    /\ pc' = next
    /\ UNCHANGED <<mode, store, tracked, interrupted, completion, accepted>>

\* Query, graceful stop, forced stop, wait, forced stop again.
StopVmForCleanup == Reconcile("stop_vm", StopVm(host), journal, Warning, "detach_disks")

DetachForCleanup == Reconcile("detach_disks", DetachDisks(host), journal, Warning, "remove_vm")

\* Mutant: only the VM is reported.
RetainedWithVm_VmOnly == {"vm"}

\* What is recorded and kept when the VM may still be there.
RetainedWithVm ==
    {"vm"} \cup (IF journal.network # "none" THEN {"network"} ELSE {})
           \cup (IF journal.data # "none" THEN {"data_disk"} ELSE {})
           \cup (IF journal.osDisk THEN {"os_disk"} ELSE {})

\* Mutant: the removal is not checked before containment and disks are removed.
RemoveTheVm_Unchecked ==
    /\ pc = "remove_vm"
    /\ \E o \in RemoveVm(host) : ScriptOutcome(RemoveVm(host), o)
    /\ journal' = [journal EXCEPT !.vm = FALSE]
    /\ pc' = IF journal.network = "owned" THEN "finish_capture" ELSE "dismount_data"
    /\ UNCHANGED <<mode, store, tracked, interrupted, completion, accepted, report>>

\* vm::remove of the recorded VM, or vm::remove_planned by the name of the run.
RemoveTheVm ==
    /\ pc = "remove_vm"
    /\ \E o \in RemoveVm(host) :
          /\ ScriptOutcome(RemoveVm(host), o)
          /\ IF o.ok
             THEN /\ journal' = [journal EXCEPT !.vm = FALSE]
                  /\ report' = report
                  /\ pc' = CASE journal.network = "owned" -> "finish_capture"
                             [] journal.network = "lease" -> "release_lease"
                             [] journal.network = "none"  -> "dismount_data"
             ELSE /\ journal' = journal
                  /\ report' = Retaining(RetainedWithVm)
                  /\ pc' = "finish"
    /\ UNCHANGED <<mode, store, tracked, interrupted, completion, accepted>>

\* capture::finish only reports capture health.
FinishCapture ==
    Reconcile("finish_capture", StopCapture(host), journal, report, "remove_controls")

\* network::cleanup_owned_resources, the script ...
RemoveControls ==
    /\ pc = "remove_controls"
    /\ \E o \in RemoveHostControls(mode, host) :
          /\ ScriptOutcome(RemoveHostControls(mode, host), o)
          /\ IF o.ok THEN pc' = "release_lease" /\ UNCHANGED report
             ELSE pc' = "dismount_data" /\ report' = Retaining({"network"})
    /\ UNCHANGED <<mode, store, journal, tracked, interrupted, completion, accepted>>

\* ... and release_guest_address.
ReleaseAddress ==
    /\ pc = "release_lease"
    /\ \E o \in ReleaseLease(host) :
          /\ FileOutcome(o)
          /\ IF o.ok
             THEN /\ pc' = "journal_released" /\ UNCHANGED report
                  /\ journal' = [journal EXCEPT !.network = "none"]
             ELSE /\ pc' = "dismount_data" /\ UNCHANGED journal
                  /\ report' = Retaining({"network"})
    /\ UNCHANGED <<mode, store, tracked, interrupted, completion, accepted>>

JournalReleased ==
    /\ pc = "journal_released"
    /\ \E o \in PersistOutcomes(journal, store) :
          /\ PersistOutcome(o)
          /\ journal' = o.journal
          /\ report' = RecordedPersist(o)
    /\ pc' = "dismount_data"
    /\ UNCHANGED <<mode, host, tracked, interrupted, completion, accepted>>

\* data_disk::dismount trusts a recorded "detached" and needs recorded identities.
ReconcileMount(j, h) ==
    CASE j.data \in {"none", "detached"} -> {Done(h)}
      [] j.data = "planned"              -> {Refused(h)}
      [] j.data = "mounted"              -> DismountDataDisk(h)

DismountData ==
    Reconcile("dismount_data", ReconcileMount(journal, host),
              IF journal.data = "mounted" THEN [journal EXCEPT !.data = "detached"] ELSE journal,
              Warning, "delete_data")

DeleteData ==
    Reconcile("delete_data",
              IF journal.data = "none" THEN {Done(host)}
              ELSE DeleteDataDisk(host, DataIdentified(journal)),
              [journal EXCEPT !.data = "none"], Retaining({"data_disk"}), "delete_os")

DeleteOs ==
    Reconcile("delete_os",
              IF ~journal.osDisk THEN {Done(host)} ELSE DeleteOsDisk(host, journal.osId),
              [journal EXCEPT !.osDisk = FALSE, !.osId = FALSE],
              Retaining({"os_disk"}), "finish")

NothingReported(r) == ~r.warned /\ r.left = {}

FinishedPhase(r) == IF NothingReported(r) THEN "finished" ELSE "failed"

FinishCleanup ==
    /\ pc = "finish"
    /\ \E o \in PersistOutcomes([journal EXCEPT !.phase = FinishedPhase(report)], store) :
          /\ PersistOutcome(o)
          /\ report' = [RecordedPersist(o) EXCEPT
                          !.status = IF NothingReported(RecordedPersist(o))
                                     THEN "success" ELSE "failure"]
    /\ Exit
    /\ UNCHANGED <<mode, host>>

Clean ==
    \/ BeginCleanup \/ RefuseCleanup \/ StartCleanup
    \/ StopVmForCleanup \/ DetachForCleanup \/ RemoveTheVm
    \/ FinishCapture \/ RemoveControls \/ ReleaseAddress \/ JournalReleased
    \/ DismountData \/ DeleteData \/ DeleteOs \/ FinishCleanup

-----------------------------------------------------------------------------
\* Mutant: a failed cleanup is not taken up again.
Settled_AnyOutcome(j) == j.seq = 0 \/ j.phase \in {"finished", "failed"}

\* recover_stale_run: a finished journal that names nothing is left alone.
Settled(j) == j.seq = 0 \/ (j.phase = "finished" /\ NamesNothing(j))

Recover ==
    /\ pc = "down"
    /\ ~Settled(store.latest)
    /\ journal' = store.latest
    /\ report' = OpenReport
    /\ pc' = "start_cleanup"
    /\ UNCHANGED <<mode, host, store, tracked, interrupted,
                   completion, accepted, disturbances>>

\* Such a journal is reported as settled, and no journal at all as an error;
\* either way nothing is touched.
RecoverNothing == pc = "down" /\ Settled(store.latest) /\ UNCHANGED vars

-----------------------------------------------------------------------------
\* The environment.

\* The guest agent shuts the VM down, or the guest crashes.
GuestPowersOff ==
    /\ host.vm = "running"
    /\ host' = PoweredOff(host)
    /\ UNCHANGED <<mode, store, journal, tracked, pc, interrupted, completion,
                   accepted, report, disturbances>>

Interrupt ==
    /\ pc # "down" /\ ~interrupted
    /\ Spend(1)
    /\ interrupted' = TRUE
    /\ UNCHANGED <<mode, host, store, journal, tracked, pc, completion, accepted, report>>

ProcessCrash ==
    /\ pc # "down"
    /\ Spend(1)
    /\ Exit
    /\ report' = NoReport
    /\ UNCHANGED <<mode, host, store>>

\* The VM has no automatic start action, host mounts of a VHD do not survive,
\* and the capture session may or may not.
AfterReboot(h) ==
    {[PoweredOff(h) EXCEPT
        !.dataDisk = IF @ = "mounted" THEN "detached" ELSE @,
        !.capture = c] : c \in IF h.capture = "absent" THEN {"absent"}
                               ELSE {"absent", "stopped"}}

HostReboot ==
    /\ host # CleanHost
    /\ Spend(1)
    /\ host' \in AfterReboot(host)
    /\ Exit
    /\ report' = NoReport
    /\ UNCHANGED <<mode, store>>

\* Somebody stops the capture session or removes the host firewall rule.
ControlsDrift ==
    /\ MayDrift
    /\ \/ host.capture = "running" /\ host' = [host EXCEPT !.capture = "stopped"]
       \/ host.rule /\ host' = [host EXCEPT !.rule = FALSE]
    /\ Spend(1)
    /\ UNCHANGED <<mode, store, journal, tracked, pc, interrupted, completion,
                   accepted, report>>

Environment == ControlsDrift \/ GuestPowersOff \/ Interrupt \/ ProcessCrash \/ HostReboot

-----------------------------------------------------------------------------
Exposed(h) == h.vm = "running" /\ ~Contained(mode, h)

TrackExposure == exposed' = (exposed \/ Exposed(host'))

Process == (Prepare \/ Execute \/ Clean) /\ TrackExposure

Recovery == Recover /\ TrackExposure

Next ==
    \/ Process
    \/ Recovery
    \/ RecoverNothing
    \/ Environment /\ TrackExposure

Spec == Init /\ [][Next]_vars

-----------------------------------------------------------------------------
\* Safety.

\* The guest never runs without the containment its plan asks for: no adapter in
\* deny-all mode; otherwise the controlled adapter with its ACLs, an active
\* capture and, in host-server mode, the host firewall rule.  Foxhole itself never
\* takes it away; drift by others is what AcceptedMeansContained is about.
ContainedWhileRunning == ~MayDrift => ~Exposed(host)

\* The exchange disk is never mounted by the host while the guest can write it,
\* although staging and collection both mount it, and although any of the mounts
\* and dismounts can fail half-way.
NoSharedDataDisk == host.vm = "running" => host.dataDisk # "mounted"

\* Whatever crash, failed write or failed script happened: a resource other than
\* the address lease exists only if the journal recovery would read names it (the
\* VM is found by the name of the run, so any unfinished journal will do).
OwnershipJournaled ==
    /\ host.vm # "absent" => store.latest.seq > 0 /\ store.latest.phase # "finished"
    /\ host.osDisk # "absent" => store.latest.osDisk
    /\ host.dataDisk # "absent" => store.latest.data # "none"
    /\ host.rule \/ host.capture # "absent" => store.latest.network = "owned"

NothingButLease(h) == [h EXCEPT !.lease = FALSE] = CleanHost

\* Cleanup that reports success, and a journal that says so, leave no VM, disk,
\* firewall rule or capture session behind.
SuccessIsHonest ==
    report.status = "success" \/ store.latest.phase = "finished" => NothingButLease(host)

\* A cleanup that fails names every kind of resource that is still there, or
\* refused to look at the run directory at all.
FailureIsComplete ==
    report.status = "failure" /\ "run_root" \notin report.left =>
        /\ host.vm # "absent" => "vm" \in report.left
        /\ host.osDisk # "absent" => "os_disk" \in report.left
        /\ host.dataDisk # "absent" => "data_disk" \in report.left
        /\ host.rule \/ host.capture # "absent" => "network" \in report.left

-----------------------------------------------------------------------------
\* Action properties.

Removed(field) == host[field] # "absent" /\ host'[field] = "absent"

\* Disks, the lease and the firewall rule go only once the VM is gone (somebody
\* else's hand on the rule aside).
TeardownBehindVm ==
    [][(Removed("osDisk") \/ Removed("dataDisk") \/ (host.lease /\ ~host'.lease)
        \/ (~MayDrift /\ host.rule /\ ~host'.rule)) => host.vm = "absent"]_vars

\* Controls that drift while the guest runs are missed by no accepted result:
\* when execute returns a result, the guest has not run exposed at any time since
\* it was started, also when the drift came between attestation and start.
AcceptedMeansContained == [][~accepted /\ accepted' => ~exposed']_vars

\* No number of failed, torn or repeated writes makes recovery read an older
\* generation, or rewrites the one it reads.
JournalAdvances ==
    [][store'.latest # store.latest => store'.latest.seq > store.latest.seq]_vars

-----------------------------------------------------------------------------
\* Liveness.

\* A running process takes its next step, and the operator reruns recovery as
\* long as it reports retained resources.
FairSpec == Spec /\ WF_vars(Process) /\ WF_vars(Recovery)

\* However preparation, execution or cleanup were cut short, in the end the VM,
\* the firewall rule and the capture session of the run are gone for good.
EventuallyReleased ==
    <>[](host.vm = "absent" /\ ~host.rule /\ host.capture = "absent")

\* The run implements a disposable VM.  The capture session is not among the
\* backing resources: a host reboot may end it while the VM still exists.
Held(h) == {r \in {"osDisk", "dataDisk"} : h[r] # "absent"}
           \cup {r \in {"rule", "lease"} : h[r]}

Abstract == INSTANCE DisposableVm
                WITH vm <- host.vm, contained <- Contained(mode, host), held <- Held(host)

\* Boot, power-off and teardown happen in the order DisposableVm allows, under
\* every interleaving of failures, crashes and reboots, and the VM ends removed.
RefinesDisposableVm == Abstract!ASpec

-----------------------------------------------------------------------------
\* What comments and documentation say of recovery, and the code does not do.

\* cleanup.rs: "Reconcile actual VHD state even if a crash left the recorded
\* state one generation behind": behind the reconciling dismount, a disk whose
\* identity is recorded is not mounted by the host any more, unless the dismount
\* reported a warning.
ReconciledVhd ==
    pc = "delete_data" /\ DataIdentified(journal) /\ ~report.warned
        => host.dataDisk # "mounted"

\* backend.rs: "Persist exact firewall, capture, and lease ownership before those
\* host resources are created, so interruption at any later instruction remains
\* recoverable": a lease left behind is named by the journal recovery reads.
LeaseRecoverable == pc = "down" /\ host.lease => store.latest.network # "none"

\* cleanup.rs: resources are reported "so recovery can be retried after correcting
\* host conditions": once everything is gone from the host, repeating recovery
\* ends with a finished journal.
CleanHostFinishes == (pc = "down" /\ host = CleanHost) ~> (pc = "down" /\ Settled(store.latest))
=============================================================================
