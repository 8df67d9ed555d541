# A verification project for Foxhole

Foxhole runs a suspicious program in a disposable Hyper-V virtual machine (or, without one, in a
restricted Windows process), collects what it did and analyses it. This directory holds TLA+
models of the parts of Foxhole whose correctness is hard to test, the TLC configurations that
check them on small instances, and proofs, checked by TLAPS, that hold for every instance.

Paths below are relative to the repository.

## The system

| Part | Keeps | Does | Hard about it |
|---|---|---|---|
| Hyper-V run lifecycle (`src/sandbox/hyperv/backend.rs`) | the prepared run, the journal in memory, the completion of the VM | prepare, execute, collect, clean up | some forty steps that change the host or write a file; each can fail, be interrupted or be the last one before a crash |
| Cleanup and recovery (`src/sandbox/hyperv/cleanup.rs`) | numbered journal generations on disk, the outcome it reports | `cleanup_resources` after a run, `recover_stale_run` after a crash | must free what is owned, never what is not, from whatever a crash left, and say truthfully what it could not free |
| Host resources (`vm.rs`, `disk.rs`, `data_disk.rs`, `network.rs`, `capture.rs`, `powershell.rs`) | VM, adapter, ACLs, firewall rule, capture session, address lease, two disks | PowerShell scripts and file operations | a script that reports an error may have done all, part or none of its work |
| Guest protocol (`src/sandbox/hyperv/guest_protocol.rs`) | status records on the run's data disk | validates their order, publishes files exclusively | records written by two sides, writes that fail after the name is taken |
| Guest agent (`guest-agent/src/runner.rs`, `artifacts.rs`, `result.rs`) | its protocol state, the claim of the run, the result | configures the network, launches the target, writes evidence and result, shuts the guest down | restarted by crashes and by reboots the target causes; a failure on any path must still be reported |
| Result collection (`src/sandbox/hyperv/result_collector.rs`) | the archive | accepts or rejects the volume of a stopped guest | must accept every complete answer and none that is not one |
| Guest execution (`guest-agent/src/process.rs`, `native_process.rs`, `telemetry.rs`) | the suspended process, its job, a temporary account, the packet capture | starts the target, waits for its end or the deadline, joins the readers of its output | an error at any step must undo the steps before; descendants outlive the root and hold the output open |
| Guest service (`guest-agent/src/service.rs`) | the status reported to the service manager | runs the agent in a worker thread | the control handler and the worker report concurrently |
| Restricted process backend (`src/sandbox/windows/`) | a mutex per session, AppContainer profiles and their marker files, filters, job, token, worker threads | runs a target without a VM | profiles and markers outlive processes and are shared by all sessions; teardown on every error path; the deadline against the exit of the target |
| Backend contract and dispatcher (`src/sandbox/backend.rs`, `dispatcher.rs`) | none of their own | choice of the backend, prepare, execute, cleanup on every path | a weaker backend only where it was allowed |
| Artifacts and reports (`src/artifact.rs`, `src/report.rs`, `src/host_file.rs`) | files of the artifact root | usage ceiling, exclusive creation, atomic publication, clean-up | several processes count, publish and delete at the same time |
| Report analysis (`src/report_analysis/`) | none | loading, attribution, correlation, verdict, indicators, outputs | untrusted and damaged input; reused process numbers; what may be called harmless |
| VirusTotal (`src/virustotal_api.rs`, `report_analysis/virustotal.rs`) | what was asked and answered | one lookup per digest within a limit | refusals and wrong answers in the middle |
| Command line (`src/cli.rs`, `src/bin/`) | none | options to request, backend and report | combinations of options |
| Doctor and base image checks | none | inspect the host | nothing changes |

How they interact: the CLI hands a request to the dispatcher, which calls `prepare`, `execute` and
`cleanup` of a backend. The Hyper-V backend creates the host resources by running PowerShell and
records every one of them in the journal. It stages request and status records on a data disk,
dismounts the disk, attaches it to the VM and boots. Inside, the service starts the agent, which
works on that disk alone. The agent shuts the guest down; the backend attests the network a last
time, mounts the disk again, collects, and cleans up. After a crash `foxhole hyperv recovery`
reads the newest journal generation and cleans up from it. Ctrl+C sets a flag that kills the
running script; cleanup clears it first.

What makes each part correct:

* lifecycle: the guest never runs outside the containment of its plan; the data disk is never in
  the hands of host and guest at once; a result is accepted only from a guest that was contained
  throughout;
* cleanup and recovery: whatever exists is named by the journal recovery would read; teardown
  happens behind the VM; success means nothing is left, failure names what is left; repeated
  recovery ends with the VM gone;
* journal: the generation that is read never goes back;
* guest agent and collection: one launch per run; what is accepted is what happened; an ordinary
  end of the agent is an answer the host accepts; nothing of the target runs once the executor has
  answered;
* restricted backend: a target runs only in its job, with its token, its network and its profile;
  nothing is left that no later run can find; what is reported is true; every run ends;
* artifact root: ceilings hold for all writers together, and no report is lost or half written;
* analysis: an event belongs to the process that was there, a behaviour is scored once, and only
  what was completely seen is called harmless.

## Modules

`CleanupJournal` — one journal generation as a record, `ValidJournal` as `validate_journal`,
and `PersistOutcomes`: the set of results of one `persist`. A directory of generations is
abstracted to the newest valid one (`latest`) and the numbers already taken (`names`), because
recovery reads nothing else and files are never replaced. Identifiers and paths are abstracted
to whether they are recorded, which is what cleanup asks.

`HostResources` — the host as a record (`Host`) and each script or file operation as the set
of its outcomes `[ok, host, cost]`. A script that fails may have changed nothing, all or part
(`Script`); `cost` 1 marks what needs something to go wrong.

`HyperVRun` — extends both. One action per step of `prepare_inner`, `execute_inner` and
`cleanup_resources` that changes the host, writes a generation or decides; `pc` names the next
one. `journal` is the journal in memory, `tracked` the one a failed preparation is cleaned up
with, `report` the `CleanupOutcome`. The environment can power the guest off, press Ctrl+C, kill
the process, reboot the host and, with `MayDrift`, take network controls away. `exposed` is a
history variable.

| Action group | Code |
|---|---|
| `Prepare` | `HyperVBackend::prepare_inner` |
| `Execute` | `execute_inner`, `wait_for_vm_completion` |
| `Clean` | `cleanup`, `cleanup_resources` |
| `Recover`, `RecoverNothing` | `recover_stale_run_from_root` |
| `GuestPowersOff`, `Interrupt`, `ProcessCrash`, `HostReboot`, `ControlsDrift` | the environment |

`DisposableVm` — the abstract specification: a VM that boots only contained, stays contained,
is provided for before it boots and stripped after it is gone, and is gone in the end.
`HyperVRun` implements it under the mapping `Contained(mode, host)` and `Held(host)`.

`GuestProtocol` — the nine protocol states, `Prerequisites` as `validate_prerequisites`, the
exclusive write (`WriteNew`) with the ways it can fail, and `Acceptable`: what `collect` demands
of a volume. A record is its sequence number and the result it names; result.json is identified
with its outcome, since it is written once.

`GuestExecution` — what an agent does to run the target, one action per step of
`NativeGuestProcess` from the capture and the temporary account over the suspended process and the
job to the joined readers, with an error at every step (`Fails`, which unwinds as the `Drop`s do),
and the target and its descendants as actors of their own (`Target`). A descendant is in the job
or, of a target that was not yet assigned, outside. A pipe is abstracted to who can hold it.

`GuestRun` — several agents working on one volume around `GuestExecution`, one action per step of
`runner::run`. `Publish` is `StatusPublisher::publish` with the agent's state machine in `seen` and
`last`. The host's records are staged as `data_disk.rs` stages them, or (`shared`) approved and
cancelled while the guest runs, which the agent handles although the Hyper-V host does not do it.
The agent can be restarted and the guest can go down at any step; a new agent of a guest that was
not rebooted finds the processes of the old one gone with their job.

`VmObservation` — the abstract specification of waiting for the VM: one answer, a power-off only
together with an answer that says the run did not complete, none after it. This is the step
`WaitForCompletion` of `HyperVRun`.

`VmCompletion` — `wait_for_vm_completion` as it runs: the watcher thread (`Watch`) and the
observer (`ObserveAndJoin`), one action per read of the shared flag, per measurement and per
script. It implements `VmObservation`; the mapping hides who turned the VM off until the return.
`vm` tells a shutdown from a forced power-off, which the observer cannot. The sizes of the two
disks are abstracted to whether they exceed the quota; a VM outside the run policy is `unhealthy`.

`AddressPool` — the leases of many runs in one directory, one action per file operation of
`allocate_guest_address` and `release_guest_address` and per journal generation that concerns the
lease. A file is absent, `torn` (created, not or not completely written) or the record of a run.
Processes are the runs themselves and `Recoverers`; any of them can die at any step (`Abandon`).
`Spec` recovers a run in one process at a time, `OverlappingSpec` in several.

`RestrictedHost` — what the restricted backend decides: which requests are valid and launchable,
the token of a profile, the filters of a network policy and what they admit (`Admits`), the quota
with its two thresholds. An address has two bits and a network a prefix of them, for both families.

`RestrictedRun` — brokers of `start_with_request`, each a process of its own, in one or several
sessions of one user. `Prepare` takes the session's mutex, scavenges what dead brokers left, makes
marker, profile, workspace and filters; `Execute` creates the suspended target, assigns the job,
verifies the token, resumes, waits in slices, measures the storage and closes the job; `Cleanup`
removes the rest. Every call that can fail has its error path, which leads through the same
teardown as in the code. A broker can die at any step; `CloseHandles` then does what Windows does
with the handles it had, one at a time. `MCRestrictedRun` gives the requests.

`ArtifactStore` — writers and cleaners below the artifact root, one action per file operation of
`secure_write_new`, `secure_replace_in`, `enforce_artifact_ceiling` and
`clean_artifacts_and_logs_at`. A directory is listed at one instant and its entries are measured
one by one. A file is its writer, its size and whether it was completely written.

`ProcessIndex`, `RunLoader`, `Correlation`, `Verdict`, `Indicators` — the analysis of one archived
run as operators: whose an event is; what is read of an archive, within which budget, and which
warning stands for what is not; the rules of two related activities; scanner results, score and
verdict; the indicators. Texts are members of small sets, chosen so that every distinction the
rules make (an executable, a script, a place of persistence, a store of credentials, ...) has one.
Events of the same time are taken in the order of their ids, where the code has texts to compare; no property depends on which.

`Invocation` — from options to backend, request and network policy, or a refusal. `WeakerIsolationAllowed`
and `NetworkAsked` say independently what options permit.

`Reputation` — the lookups at VirusTotal, one action per request with every reply of the service.

`Foxhole` — composes the last eight: sandbox commands that choose a backend and publish a report,
an analysis that loads, judges, asks VirusTotal and replaces its outputs, and a clean-up, all on one
artifact root. What happens inside an execution is left to `HyperVRun` and `RestrictedRun`.
`MCFoxhole` gives its scenarios.

`HyperVRun_proofs`, `HyperVOwnership_proofs`, `VmCompletion_proofs`, `AddressPool_proofs`,
`RestrictedRun_proofs`, `GuestRun_proofs`, `ArtifactStore_proofs`, `Foxhole_proofs` — see Proofs.

## Runs

| Run | Asks | Instance |
|---|---|---|
| `hyperv_run` | containment, the data disk, ownership, teardown, the truth of reports, the journal, in all three network modes; does repeated recovery end with everything gone; does the run implement `DisposableVm` | 3 disturbances, `MaxSequence` 24, fairness |
| `hyperv_drift` | the same when others take controls away: is an accepted result still that of a contained run (what else holds under drift is proved) | 3 disturbances |
| `hyperv_mounted` | a comment's claim that cleanup reconciles the actual state of the data disk: **refuted** | 1 disturbance |
| `hyperv_lease` | a comment's claim that a lease is journaled before it is created: **refuted** | 1 disturbance |
| `hyperv_retry` | a comment's claim that recovery can be retried until it finishes: **refuted** | 1 disturbance, fairness |
| `guest_run` | one launch, an execution that is over when it is reported, truthful acceptance, backed completion, an executor that always answers, conclusive shutdown | 2 agents, 2 faults, fairness |
| `guest_silent` | a comment's claim that only content the agent did not generate blocks the report of a failure: **refuted** | 1 agent, 1 fault, fairness |
| `vm_completion` | whose verdict is returned, does the wait always end, is the contract used by `HyperVRun` kept | 3 faults, fairness |
| `restricted_run` | containment of a target without a VM, profiles that can be found and are not taken from a live run, one run per session, truthful report and verdict, every run ends | 2 brokers, 2 sessions, 2 faults, 1 move of the target, fairness |
| `analysis` | ceiling and reports of the artifact root; choice of backend and network; attribution, one life per link, one score per behaviour, honest verdict, traced evidence, honest reputation | 2 commands, an analysis and a clean-up; families of scenarios |
| `address_pool` | exclusive addresses, release of one's own lease only, honest exhaustion | 3 runs, 2 addresses, 2 recoverers, 3 faults |
| `address_overlap` | a comment's claim that a lease is deleted only while its record matches: **refuted** when two recoveries of a run overlap | the same, 1 fault |

Every refuted claim is a finding in `PROJECT.json`, with the quotation.

### Bounds

* `MaxDisturbances` bounds failed scripts, failed writes, Ctrl+C, crashes, reboots and drift
  together. The hazards need one (a crash at the wrong step) or two (a failed script and then a
  failed write, a crash of the recovery from a crash); three adds every pair followed by a failed
  recovery. What happens inside one disturbance is not bounded: the guest may power off and
  recovery may be repeated without limit.
* `MaxSequence` stands for `MAX_JOURNAL_SEQUENCE` (10000). A run uses at most sixteen
  generations, a recovery at most three, so with 24 the limit is reached by repeated recovery and
  not by an ordinary run.
* `MaxFaults` bounds failed writes, failed cleanups and restarts in `GuestRun`. Two allow a failure
  and a second one on its failure path, or a restart into a failed run. Errors of the execution
  itself are not bounded. Two agents suffice for the question who claims the run; a third would lose
  the claim like the second. Sequence numbers need no bound: there are nine records, each written
  once (the theorem `AgentTypes`).
* In `RestrictedRun` a fault is a failed call, an interrupt or a death: two give a death and a failed
  reclaim of what it left, or a failed step and a failed cleanup behind it. `MaxMoves` bounds what
  the target does besides running (descendants, growth of its storage, an end of its own): one, as
  the broker tells them apart by one at a time. Of the requests that run, `MCScenarios` takes one
  beside a broker of another session and two (all the wait can meet with) beside one of the same.
  An address has two bits: a network can be empty of others, a half, or everything.
* `Foxhole` is checked on families of scenarios, each of which varies one thing and keeps the rest
  at a plain run: writers, their sizes, an old file, faults and a clean-up (`MaxFiles` 2, `MaxBytes` 3:
  two writers fit only in part); every set of options with every answer of the probe; up to three
  sightings of two processes around an event at each of six times; up to three sightings of one
  number with images and GUIDs; up to five of ten acts several rules see; capabilities of a packed
  target with and without the behaviour; every pair of 55 kinds of damage to an archive; as many
  requests and changed files as one finding may cite, and one more; the files
  VirusTotal is asked about with every sequence of replies. The limits `MaxPairs`, `MaxEvidence`,
  `MaxInputFiles`, `MaxInputBytes`, `MaxAssociations`, `MaxCorrelations`, `MaxChecks`, `MaxMatches`,
  `MaxResultBytes`, `MaxScannerBytes`, `MaxReferences`, `MassFiles` and `MaxLookups` stand for those of the code at a size that some
  scenarios stay within and others pass.
* In `VmCompletion` a poll can fail at most `MaxFaults` times; each failure ends one of the two
  threads, so three cover a failure in both and a failed power-off between them.
* In `AddressPool` two addresses are taken by two runs, so the third finds the pool full or takes
  what a recovery has just released. Three faults allow a death, a death of its recovery and a
  failure in another run.

Deadlock is checked in the Hyper-V runs (`RecoverNothing` is the operator who asks again). In
`GuestRun`, `VmCompletion`, `AddressPool`, `RestrictedRun` and `Foxhole` it is not: after `Collect`,
the return, or the last run or command, everything has stopped.

### Fairness

`HyperVRun!FairSpec` asks that a live process takes its next step (every script has a timeout,
`powershell.rs:240`) and that the operator reruns recovery while it reports retained resources,
which is what the outcome tells them to do. Nothing is assumed of the environment.
`GuestRun!FairSpec` asks that agents take their next step: their waits are bounded, by 60 seconds
for the host's approval and by the deadline for the target. Nothing is assumed of the target or
its descendants.
`RestrictedRun!FairSpec` asks that brokers and their worker threads are scheduled, where a reader
of output can end only when nobody holds the other end, and that the deadline of a wait passes.
Nothing is assumed of the target, of interrupts or of deaths.
`VmCompletion!FairSpec` asks that both threads are scheduled, scripts end (they have timeouts) and
the clock reaches the deadline.

## Proofs

`HyperVRun_proofs` and `HyperVOwnership_proofs` prove, for every `MaxSequence`, `MaxDisturbances` and both values of `MayDrift`:

* `TypeCorrect`: `Spec => []TypeOK`. One lemma per kind of step (provision, track, run a script,
  record, reconcile), one per group of operations, one per group of actions.
* `JournalMonotone`: `Spec => JournalAdvances`. The inductive part is `LatestNamed`: the number of
  the newest generation is among the numbers taken. A write of a number that is not taken is then
  later than, or different from, the newest; `Later` decides.
* `GuestContained`, `ExchangeDiskExclusive`, `TeardownOrdered`:
  `Spec => []ContainedWhileRunning`, `Spec => []NoSharedDataDisk`, `Spec => TeardownBehindVm`.
* `AcceptanceContained`: `Spec => AcceptedMeansContained`.
* `OwnershipKept`, `SuccessTrue`, `FailureTrue`: `Spec => []OwnershipJournaled`,
  `Spec => []SuccessIsHonest`, `Spec => []FailureIsComplete`.
* `ImplementsDisposableVm`, without drift: the initial states of `HyperVRun` are initial states of
  `DisposableVm` and every step is a step of it or a stutter.

None of containment, the exchange disk and the order of teardown is inductive: a boot is contained because the attestation in the step
before it was, and a disk is deleted behind the VM because the removal was confirmed several
steps earlier. The inductive invariant `Secured` says what is known at which step: no VM runs
before the boot; at the boot the attestation holds; in the reclaiming steps the VM is absent; from
the checked dismount to the boot the data disk is not mounted; and the two invariants themselves.
`Undisturbed` and `Keeps` say what a step may do to the host, and each group of actions has a
lemma that it does no more (`PrepareEffect`, `ExecuteEffect`, `CleanEffect`). `TypeOK /\ Secured`
was also checked with TLC.

An accepted result needs more than containment, which drift may end: `Watched` says that what another
took away from a running guest is not put back between the boot and the attestation behind the execution
(`verify_after`), so a guest that passes it was contained from the boot on; a guest seen off before has
been contained to its end, or the result is not accepted. The refinement
needs only `Secured`: a boot of `DisposableVm` is contained, and its teardown leaves nothing without
the VM being gone first.

`OwnershipJournaled` is about a crash at any step, and every step knows something else. The invariant
`Owned` of `HyperVOwnership_proofs` is indexed by the step: the journal in memory is the one on disk
while the run is prepared; the disks and the network controls are named by it one generation
before they may exist, and the VM by the run itself; and while resources are taken away, each one whose step has been passed is gone or is
named by what will be reported. The truth of both kinds of outcome follows from the latter.

`VmCompletion_proofs` proves, for every `MaxFaults`, `VerdictIsFinal`
(`Spec => []QuotaIsAuthoritative`) and `ImplementsContract` (`Spec => Contract`). The inductive
invariant says that the watcher's reason to turn the VM off is the verdict it publishes
(`WatcherInv`), and that what the observer saw does not go stale and nothing is returned before
the join (`ObserverInv`). Every step of the watcher is then a stutter of the contract.

`AddressPool_proofs` proves, for any sets of runs and recoverers and pools of any size,
`Exclusive`, `ReleaseIsOwn` and `Exhaustion`. `AddressExclusive` is not inductive: it needs that
the address of a VM is named by a lease of its run (`UseLeased`), which a deletion could break.
`DeletesOwn` says that the file about to be deleted still is the run's, `UnusedBehindVm` that the
run's VM is gone by then, and `Alone` that nobody else reconciles the run (`OneCleaner`). `Alone`
is where `Spec` differs from `OverlappingSpec`, and where the code has no counterpart: the theorems
hold as long as the operator does not recover one run twice at a time. `Exhaustion` has its own
invariant, `ScanComplete`: what was free all the time lies ahead of the scan.

`GuestRun_proofs` proves, for any finite set of agents and any `MaxFaults`, `LaunchedOnce`,
`ExecutionOver`, `CompletionBacked`, `AcceptanceTrue`, `AgentTypes` and `ShutdownAccepted`. `ExecutedOnce` says nothing of
the claim that makes it true. The invariant `AgentInv` adds it: at most one agent is ever behind the
claim, none before it has been linked, and without a claim nothing has been executed or written
(`HoldInv`); what has been done at each step behind the claim, and what not yet (`PhaseInv`); that a
result on the volume is that of the execution, even where the agent that wrote it takes the write for
failed (`VolumeInv`); that nothing lives in a guest that is off (`OverInv`); and, per execution, that
only a process in a job the executor still holds is alive (`LifeInv`). `AgentTypes` needs a second
invariant, `Counted`: no sequence number exceeds the number of published records.
`ShutdownAccepted` (`Spec => ShutdownIsConclusive`) needs a third, `CalmInv`, about runs without a
fault: the holder of the claim knows every record there is (`Abreast`), so each record it adds
continues a chain the host can follow (`ChainGrows`); `Progress` says how far that chain is at each
step. `CalmInv` was checked with TLC first.

`RestrictedRun_proofs` proves, for any brokers, sessions, scenarios and numbers of faults and moves,
`TypeCorrect`, and `ProfilesFindable` (`ProfilesMarked`) and `ProfilesKept` (`LiveProfileKept`). The
types are inductive by themselves; those of filters and tokens come from the requests (`SetsOfRun`).
The invariant `ProfileInv` says what a run has before its profile exists and behind its deletion, and that a
scavenger holds open the marker whose profile it deletes, of a run that can no longer create it.

It proves `TargetContained` and `SessionExclusive` from `ContainInv`: a
conjunction per broker of who has the mutex at which step (`LeaseInv`), how far the token
(`TokenInv`), the filters (`FilterInv`) and the processes (`ProcessInv`) have come. A step of a broker
disturbs its own conjuncts only: the lemma `ElsewhereKeeps` says so once for the others. That the
filters that are installed admit exactly what the policy permits is shown for every set of networks.

It proves `ReportHonest` and `VerdictProved` from `ContainInv` and `AnswerInv`:
threads that use the pipes run only up to the join (`ThreadInv`), a profile that is left behind a
result is known to be left (`LeftoverInv`), and what has been decided of the verdict at each step and
what became of the target until then (`VerdictInv`).

`ArtifactStore_proofs` holds what writers and cleaners keep, for any finite set of writers, any
directories and any ceilings, with as many failures and deaths as the composition permits;
`Foxhole_proofs` makes theorems of it:

* `KeptReports` (`ReportsKept`). `StoreInv` adds what makes it inductive: a temporary file is its
  writer's alone, a name is given only to a whole file, and what a writer has been told about is
  there or a clean-up has started since.
* `CeilingKept` (`CeilingHolds`). No step knows of the others, so the argument is about when each
  listed the directories. `CeilingInv` says: of the publications that may still succeed or have
  succeeded, one has counted all the others (`Covers`), the one that listed last. What it counted is within the
  ceilings when it is accepted, and what the others add is in its count. The sums are over finite sets;
  the lemmas about them go through a least element of a finite set (`MinimalSubset`), as there is no
  induction.

`Foxhole_proofs` proves, for any set of scenarios that meets `Possible` (any options, any archive,
any replies), every other invariant of the `analysis` run:

* `ChosenBackend` (`BackendChosen`): `ChosenInv` keeps a decided command to what its options and
  the probe lead to.
* `HonestReputation` (`ReputationHonest`): `AskedInv` says of a digest that was asked about that it is
  a candidate and was asked once, which reply it had, and that nothing follows a refusal.
* `OnceScored`, `Attributed`, `HonestVerdict`, `TracedEvidence`, `OneLifeLinked` are about what is
  computed. Inductive is only `AnalysisInv`: the run is that of the archive, and all that is said
  of it is computed from it. The rest is about the operators, for every archive:
  * `ScoredOnce`: each rule has at most one finding, so their order is total and the greedy choice
    of those that score exists (by the least rule for which it would not) and is unique. What the
    fold over the rules collects is stated by recursion over finite sets.
  * `Attribution`: the interval of a process stands for sightings of it while it lived, and
    the nearest of those alive, a lexicographic minimum, exists and is one.
  * `VerdictHonest`: without a warning every row was used and every file verified; a result that
    covers the target was accepted, and only what is conclusive is accepted. A scanner that is absent from the
    configuration has its defaults; the property says what that means. It says nothing of telemetry
    without a time or of a process the run does not know: `telemetry.rs` passes over it silently.
  * `EvidenceTraced`: every activity is placed at evidence of the run and findings, stages,
    packets and indicators only cite activities; a digest counts if it was verified against the
    stored file, or is of a row. Besides, no two findings share an identifier (`FindingsApart`): a rule finds once,
    the names of the rules of `verdict.rs`, `correlation.rs` and the scanners differ, and the capabilities, of
    which one rule finds several, are told apart by their ids, because only one result of capa counts for the target.
    What is left for the last gate to refuse, and it does, is an id of an event or artifact that repeats and
    a thing that cites more than `MaxReferences`: the findings of `verdict.rs` have no limit of their own, so
    a run with 1025 DNS requests has no report.
  * `LinksOneLife`: ids tell apart what they stand for (`RowsApart`, `RecordsApart`,
    `SeenOnce`), so the observations of a number are finitely many in a total order
    (`ObservedOrdered`), and the function `History` that recurs over them exists
    (`HistoryExists`). While the process it gives stays the same there was no end, one image and
    one name (`InstanceStays`), and two activities that a rule links have the same process
    (`LinkedPairs`, `PairOneLife`).

Induction over data is possible here only where the data are sets: a smallest counterexample in a
finite set does what an induction theorem would. The model is written for that: `History` recurs over observations
with the latest before each, the pairs a rule may compare and the packets that find an owner are sets
cut at their limit in the order of the code, instead of folds of sorted sequences.

The assumptions are those on the constants. Numbers: `MaxSequence`, `PoolSize`, `MaxEvidence`, `MaxReferences` and the
ceilings of the artifact root are positive, `MaxDisturbances`, `MaxFaults`, `MaxMoves`, `MaxPairs` and `MaxLookups` natural numbers,
`MayDrift` a boolean. Sets: `Agents`, `Runs` of brokers and `Writers` are finite; runs, recoverers and
the marks of a lease file, mutex or marker without an owner are different, and so are writers and
the marks of files; the analysis is one of the writers. Data: the scenarios of `RestrictedRun` are
requests and sessions of its brokers, those of `Foxhole` are `Possible`: the places the commands
write to, numbers of the types that hold them, the two states of a process the guest's rows can
have and the three of telemetry, and ids that tell apart what they stand for, rows and entries of the manifest (`IdsTell`; the code
makes them of SHA-256 digests, so this is the absence of collisions), and a result for the file of each
intact entry of a scanner (`Recordable`: some content, be it none that parses).
`MCFoxhole` meets all of them, with files of telemetry that are listed twice, damaged rows and reused numbers.

Only model-checked is what is out of the prover's reach: the liveness of `DisposableVm` in
`RefinesDisposableVm`, and `EventuallyReleased`, `ExecutionEnds`, `Returns` and `Finishes`.

## Not modelled

* Hyper-V: the dry run, which changes nothing; command lines, JSON, paths and identifiers of host
  resources (the checks that a resource is the recorded one are abstracted to whether its identity is
  recorded); the computation of address ranges and extended ACLs; the recorded host observations;
  the texts of warnings and the bound of 512 on their number.
* Guest: the service around the agent, the launch modes, the parsing of the request, the
  normalisation of what telemetry observes; processes the target starts through services or
  scheduled tasks, which no job holds. Closing a job ends its members at once in the model.
* Collector: size bounds, link checks and the archive.
* Restricted backend: security descriptors and ACLs, the desktop, the content of the workspace and of
  observations; the removal of profiles of older versions and the scavenger's limit of 1024
  markers. Closing the job is one step.
* Artifact root: only what is published as new counts towards the ceilings, as in the code; the outputs
  of an analysis replace their predecessors uncounted. Not modelled are access
  control lists, flushing of volumes and link checks. A process of the model publishes one file at a time.
* Analysis: what is cited is a set. No producer leaves an id in it twice, except a scanner's result as it
  was written, where `Parses` refuses it. The findings and packets of a result have the evidence
  of the result, as those of the scanners do; the code would let each name its own. Of two captures the one with the lesser digest comes first, not the one
  with the lesser name. The web page, the timeline and the text reports; the parsing of texts, which the small sets
  of texts stand for; the scanners themselves.
* Doctor, base image checks, the Linux stub, installation scripts, rule data and the web viewer: see
  `PROJECT.json` for each.

## Plan

Done, in the order of what matters most to the system: the Hyper-V run with its journal, host and
abstract specification; the guest agent, the execution of the target and the collector; the
address pool; the watcher; the restricted backend; the artifact root, the command line, the
analysis and their composition; the theorems above.

What is left:

1. The guest service: its control handler and worker report to the service manager concurrently.
2. Address ranges and extended ACLs of a network plan as operators against a reference definition.
3. Theorems about operators no invariant is about, such as the rules of `Correlation` one by one
   and the merging of `Indicators`.
