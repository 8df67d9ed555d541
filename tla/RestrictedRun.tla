---------------------------- MODULE RestrictedRun ----------------------------
(***************************************************************************)
(* Runs of the restricted-process backend, each by a broker process of its *)
(* own, in one or several logon sessions of one user                       *)
(* (src/sandbox/windows/restricted_process.rs, network.rs, workspace.rs).  *)
(* Brokers of a session take turns through a mutex; AppContainer profiles  *)
(* and their marker files outlive processes and are shared by all of them. *)
(* A broker can die at any step; Windows then closes its handles one by    *)
(* one, in any order.                                                      *)
(***************************************************************************)
EXTENDS RestrictedHost

CONSTANTS Runs, Sessions,
          Scenarios,      \* what each broker is asked to run, and in which session
          MaxFaults,      \* failed calls, interrupts and deaths in a behaviour
          MaxMoves        \* descendants, growth of storage and early ends

ASSUME RunsAssumption == IsFiniteSet(Runs)

ASSUME NamesAssumption == Runs \cap {"none", "loose", "free", "abandoned"} = {}

ASSUME ScenariosAssumption ==
    \A c \in Scenarios : c.request \in [Runs -> Requests] /\ c.session \in [Runs -> Sessions]

ASSUME FaultsAssumption == MaxFaults \in Nat /\ MaxMoves \in Nat

VARIABLES
    request,     \* what each broker is asked to run
    session,     \* session of each broker
    pc,          \* next step of each broker
    lease,       \* holder of the execution mutex of each session
    markers,     \* marker file of each run's profile: absent, loose, or open by a broker
    profiles,    \* AppContainer profiles that exist
    todo,        \* markers a scavenging broker has yet to visit
    stale,       \* the run whose marker it has open (itself: none)
    filters,     \* WFP filters of each run
    job,         \* job object of each run
    token,       \* token of the target, once created
    root,        \* the target process
    inJob,       \* it was assigned to the job
    kids,        \* descendants of the target are alive
    volume,      \* storage of the profile
    expired,     \* the timeout of the run has passed
    interrupted, \* interrupt::INTERRUPTED of each broker
    threads,     \* worker threads of each broker
    outcome,     \* WaitOutcome, or why there is none
    prepared,    \* RestrictedProcessBackend::prepared is a live run
    report,      \* what start_with_request returns
    faults, moves

store == <<lease, markers, profiles>>
child == <<filters, job, token, root, inJob, kids, volume>>
clock == <<expired, interrupted, threads>>
books == <<todo, stale, outcome, prepared, report>>

vars == <<request, session, pc, store, child, clock, books, faults, moves>>

HoldingSteps == {"stage", "filters", "launch", "assign", "verify", "resume", "check",
                 "block", "measure", "judge", "kill", "join_monitor", "close_job",
                 "join_threads", "observe", "remove_filters"}

DeletingSteps == {"delete_profile", "retry_delete"}

Steps == {"pin", "lease", "list", "scavenge", "reclaim", "unmark_stale", "mark", "create",
          "begin_cleanup", "unmark", "finish", "done", "dead"}
         \cup HoldingSteps \cup DeletingSteps

Outcomes == {"none", "dry_run", "error", "interrupted", "timed_out", "exited",
             "exited_over", "quota"}

NoReport == [status |-> "none", clean |-> FALSE, leftover |-> FALSE]

Init ==
    /\ \E c \in Scenarios : request = c.request /\ session = c.session
    /\ pc = [r \in Runs |-> "pin"]
    /\ lease = [s \in Sessions |-> "free"]
    /\ markers = [r \in Runs |-> "none"]
    /\ profiles = {}
    /\ todo = [r \in Runs |-> {}]
    /\ stale = [r \in Runs |-> r]
    /\ filters = [r \in Runs |-> {}]
    /\ job = [r \in Runs |-> "none"]
    /\ token = [r \in Runs |-> {}]
    /\ root = [r \in Runs |-> "none"]
    /\ inJob = [r \in Runs |-> FALSE]
    /\ kids = [r \in Runs |-> FALSE]
    /\ volume = [r \in Runs |-> "small"]
    /\ expired = [r \in Runs |-> FALSE]
    /\ interrupted = [r \in Runs |-> FALSE]
    /\ threads = [r \in Runs |-> {}]
    /\ outcome = [r \in Runs |-> "none"]
    /\ prepared = [r \in Runs |-> FALSE]
    /\ report = [r \in Runs |-> NoReport]
    /\ faults = 0
    /\ moves = 0

-----------------------------------------------------------------------------
Step(r, from, to) == pc[r] = from /\ pc' = [pc EXCEPT ![r] = to]

Fault == faults < MaxFaults /\ faults' = faults + 1

Move == moves < MaxMoves /\ moves' = moves + 1

Outcome(r, o) == outcome' = [outcome EXCEPT ![r] = o]

\* The run is given up before there is anything to execute.
GiveUp(r) == Outcome(r, "error") /\ pc' = [pc EXCEPT ![r] = "begin_cleanup"]

-----------------------------------------------------------------------------
\* prepare.

\* The target is pinned and hashed; a dry run stops behind the launch plan.
PinTarget(r) ==
    /\ pc[r] = "pin"
    /\ \/ /\ ValidRequest(request[r]) /\ Pinnable(request[r]) /\ ~request[r].dryRun
          /\ Step(r, "pin", "lease") /\ UNCHANGED <<outcome, faults>>
       \/ /\ ValidRequest(request[r]) /\ Pinnable(request[r]) /\ request[r].dryRun /\ Launchable(request[r])
          /\ Step(r, "pin", "begin_cleanup") /\ Outcome(r, "dry_run") /\ UNCHANGED faults
       \/ /\ ~(ValidRequest(request[r]) /\ Pinnable(request[r])
               /\ (request[r].dryRun => Launchable(request[r])))
          /\ GiveUp(r) /\ UNCHANGED faults
       \/ GiveUp(r) /\ Fault
    /\ UNCHANGED <<request, session, store, child, clock, todo, stale, prepared, report, moves>>

\* Mutant: after the bounded wait the broker goes on without the mutex.
AcquireLease_Impatient(r) ==
    /\ Step(r, "lease", "list")
    /\ lease' = [lease EXCEPT ![session[r]] = r]
    /\ UNCHANGED <<request, session, markers, profiles, child, clock, todo, stale, outcome,
                   prepared, report, faults, moves>>

\* The mutex is free, or its holder died with it; a live holder is not waited for
\* beyond the bounded wait.
AcquireLease(r) ==
    /\ pc[r] = "lease"
    /\ \/ /\ lease[session[r]] \in {"free", "abandoned"}
          /\ lease' = [lease EXCEPT ![session[r]] = r]
          /\ Step(r, "lease", "list") /\ UNCHANGED outcome
       \/ lease[session[r]] \notin {"free", "abandoned"} /\ GiveUp(r) /\ UNCHANGED lease
    /\ UNCHANGED <<request, session, markers, profiles, child, clock, todo, stale, prepared,
                   report, faults, moves>>

ListMarkers(r) ==
    /\ Step(r, "list", "scavenge")
    /\ todo' = [todo EXCEPT ![r] = {m \in Runs : markers[m] # "none"}]
    /\ UNCHANGED <<request, session, store, child, clock, stale, outcome, prepared, report,
                   faults, moves>>

\* Mutant: markers are opened for sharing.
OpenMarker_Shared(r, m) ==
    /\ pc[r] = "scavenge" /\ m \in todo[r]
    /\ todo' = [todo EXCEPT ![r] = @ \ {m}]
    /\ markers' = [markers EXCEPT ![m] = r]
    /\ stale' = [stale EXCEPT ![r] = m]
    /\ pc' = [pc EXCEPT ![r] = "reclaim"]
    /\ UNCHANGED <<request, session, lease, profiles, child, clock, outcome, prepared, report,
                   faults, moves>>

\* Mutant: a marker that is in use is tried again.
OpenMarker_Retrying(r, m) ==
    /\ pc[r] = "scavenge" /\ m \in todo[r]
    /\ IF markers[m] = "loose"
       THEN /\ todo' = [todo EXCEPT ![r] = @ \ {m}]
            /\ markers' = [markers EXCEPT ![m] = r]
            /\ stale' = [stale EXCEPT ![r] = m]
            /\ pc' = [pc EXCEPT ![r] = "reclaim"]
       ELSE UNCHANGED <<todo, markers, stale, pc>>
    /\ UNCHANGED <<request, session, lease, profiles, child, clock, outcome, prepared, report,
                   faults, moves>>

\* A marker opens only if nobody has it open; others are left to a later run.
OpenMarker(r, m) ==
    /\ pc[r] = "scavenge" /\ m \in todo[r]
    /\ todo' = [todo EXCEPT ![r] = @ \ {m}]
    /\ IF markers[m] = "loose"
       THEN /\ markers' = [markers EXCEPT ![m] = r]
            /\ stale' = [stale EXCEPT ![r] = m]
            /\ pc' = [pc EXCEPT ![r] = "reclaim"]
       ELSE UNCHANGED <<markers, stale, pc>>
    /\ UNCHANGED <<request, session, lease, profiles, child, clock, outcome, prepared, report,
                   faults, moves>>

DeleteStaleProfile(r) ==
    /\ pc[r] = "reclaim"
    /\ markers' = [markers EXCEPT ![stale[r]] = "loose"]
    /\ \/ /\ profiles' = profiles \ {stale[r]}
          /\ Step(r, "reclaim", "unmark_stale") /\ UNCHANGED <<stale, faults>>
       \/ /\ Step(r, "reclaim", "scavenge") /\ Fault
          /\ stale' = [stale EXCEPT ![r] = r]
          /\ UNCHANGED profiles
    /\ UNCHANGED <<request, session, lease, child, clock, todo, outcome, prepared, report, moves>>

\* Another broker may have opened the marker in between and keeps it.
RemoveMarkerFile(m) ==
    markers' = IF markers[m] = "loose" THEN [markers EXCEPT ![m] = "none"] ELSE markers

RemoveStaleMarker(r) ==
    /\ Step(r, "unmark_stale", "scavenge")
    /\ RemoveMarkerFile(stale[r])
    /\ stale' = [stale EXCEPT ![r] = r]
    /\ UNCHANGED <<request, session, lease, profiles, child, clock, todo, outcome, prepared,
                   report, faults, moves>>

CreateMarker(r) ==
    /\ pc[r] = "scavenge" /\ todo[r] = {}
    /\ \/ /\ markers' = [markers EXCEPT ![r] = r]
          /\ Step(r, "scavenge", "create") /\ UNCHANGED <<outcome, faults>>
       \/ GiveUp(r) /\ Fault /\ UNCHANGED markers
    /\ UNCHANGED <<request, session, lease, profiles, child, clock, todo, stale, prepared, report, moves>>

CreateProfile(r) ==
    /\ pc[r] = "create"
    /\ \/ /\ profiles' = profiles \cup {r}
          /\ Step(r, "create", "stage") /\ UNCHANGED <<markers, outcome, faults>>
       \/ /\ markers' = [markers EXCEPT ![r] = "none"]
          /\ GiveUp(r) /\ Fault /\ UNCHANGED profiles
    /\ UNCHANGED <<request, session, lease, child, clock, todo, stale, prepared, report, moves>>

\* Loopback check, workspace, launch plan, token and desktop: nothing of them
\* outlives the broker.
StageRun(r) ==
    /\ pc[r] = "stage"
    /\ \/ /\ Stageable(request[r]) /\ Launchable(request[r])
          /\ Step(r, "stage", "filters") /\ UNCHANGED <<outcome, faults>>
       \/ /\ Step(r, "stage", "delete_profile") /\ Outcome(r, "error")
          /\ IF Stageable(request[r]) /\ Launchable(request[r]) THEN Fault ELSE UNCHANGED faults
    /\ UNCHANGED <<request, session, store, child, clock, todo, stale, prepared, report, moves>>

\* Mutant: the permits are added to the accept layer, too.
InstallFilters_Accepting(r) ==
    /\ filters' = [filters EXCEPT ![r] = Filters(request[r])
                       \cup {[f EXCEPT !.direction = "accept"] : f \in Filters(request[r])}]
    /\ prepared' = [prepared EXCEPT ![r] = TRUE]
    /\ Step(r, "filters", "launch")
    /\ UNCHANGED <<request, session, store, job, token, root, inJob, kids, volume, clock, todo,
                   stale, outcome, report, faults, moves>>

\* One transaction of a dynamic session: all filters or none.
InstallFilters(r) ==
    /\ pc[r] = "filters"
    /\ \/ /\ filters' = [filters EXCEPT ![r] = Filters(request[r])]
          /\ prepared' = [prepared EXCEPT ![r] = TRUE]
          /\ Step(r, "filters", "launch") /\ UNCHANGED <<outcome, faults>>
       \/ /\ Filtered(request[r]) /\ Fault
          /\ Step(r, "filters", "delete_profile") /\ Outcome(r, "error")
          /\ UNCHANGED <<filters, prepared>>
    /\ UNCHANGED <<request, session, store, job, token, root, inJob, kids, volume, clock, todo,
                   stale, report, moves>>

-----------------------------------------------------------------------------
\* execute and run_app_container_process.

CreateSuspended(r) ==
    /\ pc[r] = "launch"
    /\ \/ /\ job' = [job EXCEPT ![r] = "open"]
          /\ root' = [root EXCEPT ![r] = "suspended"]
          /\ \E t \in TokensMade(request[r]) : token' = [token EXCEPT ![r] = {t}]
          /\ Step(r, "launch", "assign") /\ UNCHANGED <<outcome, faults>>
       \/ GiveUp(r) /\ Fault /\ UNCHANGED <<job, root, token>>
    /\ UNCHANGED <<request, session, store, filters, inJob, kids, volume, clock, todo, stale,
                   prepared, report, moves>>

\* Until the child is in the job, a guard of its own terminates it.
AssignJob(r) ==
    /\ pc[r] = "assign"
    /\ \/ /\ inJob' = [inJob EXCEPT ![r] = TRUE]
          /\ Step(r, "assign", "verify") /\ UNCHANGED <<job, root, outcome, faults>>
       \/ /\ root' = [root EXCEPT ![r] = "killed"]
          /\ job' = [job EXCEPT ![r] = "closed"]
          /\ GiveUp(r) /\ Fault /\ UNCHANGED inJob
    /\ UNCHANGED <<request, session, store, filters, token, kids, volume, clock, todo, stale,
                   prepared, report, moves>>

\* The job kills whoever is in it when its last handle goes.
CloseJobHandle(r) ==
    /\ job' = [job EXCEPT ![r] = "closed"]
    /\ kids' = [kids EXCEPT ![r] = FALSE]
    /\ root' = [root EXCEPT ![r] =
                    IF inJob[r] /\ @ \in {"suspended", "running"} THEN "killed" ELSE @]

VerifyToken(r) ==
    /\ pc[r] = "verify"
    /\ \/ /\ \A t \in token[r] : VerifiedToken(t, request[r])
          /\ Step(r, "verify", "resume") /\ UNCHANGED <<job, root, kids, outcome, faults>>
       \/ /\ CloseJobHandle(r) /\ GiveUp(r)
          /\ IF \A t \in token[r] : VerifiedToken(t, request[r]) THEN Fault ELSE UNCHANGED faults
    /\ UNCHANGED <<request, session, store, filters, token, inJob, volume, clock, todo, stale,
                   prepared, report, moves>>

\* Readers, the batch writer and the monitor work before the target does.
Resume(r) ==
    /\ pc[r] = "resume"
    /\ threads' = [threads EXCEPT ![r] =
           {"monitor", "output"} \cup IF request[r].target = "batch" THEN {"input"} ELSE {}]
    /\ \/ /\ root' = [root EXCEPT ![r] = "running"]
          /\ Step(r, "resume", "check") /\ UNCHANGED <<outcome, faults>>
       \/ /\ Step(r, "resume", "join_monitor") /\ Outcome(r, "error") /\ Fault
          /\ UNCHANGED root
    /\ UNCHANGED <<request, session, store, filters, job, token, inJob, kids, volume, expired,
                   interrupted, todo, stale, prepared, report, moves>>

Ended(r) == root[r] \in {"exited", "limited", "killed"}

Busy(r) == root[r] = "running" \/ kids[r]

Measured(r) == StorageViolations(volume[r], Busy(r))

\* One turn of wait_for_process: interrupt and deadline, a bounded wait, the
\* deadline again, the storage, the deadline once more, the verdict on the storage.
CheckRequests(r) ==
    /\ pc[r] = "check"
    /\ \/ interrupted[r] /\ Outcome(r, "interrupted") /\ Step(r, "check", "kill")
       \/ ~interrupted[r] /\ expired[r] /\ Outcome(r, "timed_out") /\ Step(r, "check", "kill")
       \/ ~interrupted[r] /\ ~expired[r] /\ Step(r, "check", "block") /\ UNCHANGED outcome
    /\ UNCHANGED <<request, session, store, child, clock, todo, stale, prepared, report, faults, moves>>

WaitSlice(r) ==
    /\ pc[r] = "block"
    /\ \/ /\ Ended(r) /\ Step(r, "block", "join_monitor") /\ UNCHANGED faults
          /\ \E over \in Measured(r) : Outcome(r, IF over THEN "exited_over" ELSE "exited")
       \/ ~Ended(r) /\ Step(r, "block", "measure") /\ UNCHANGED <<outcome, faults>>
       \/ Step(r, "block", "join_monitor") /\ Outcome(r, "error") /\ Fault
    /\ UNCHANGED <<request, session, store, child, clock, todo, stale, prepared, report, moves>>

MeasureStorage(r) ==
    /\ pc[r] = "measure"
    /\ \/ expired[r] /\ Outcome(r, "timed_out") /\ Step(r, "measure", "kill")
       \/ /\ ~expired[r] /\ Step(r, "measure", "judge")
          /\ \E over \in Measured(r) : Outcome(r, IF over THEN "quota" ELSE "none")
    /\ UNCHANGED <<request, session, store, child, clock, todo, stale, prepared, report, faults, moves>>

\* Mutant: a target killed for its storage is reported like one that exited.
JudgeStorage_Exited(r) ==
    /\ pc[r] = "judge"
    /\ \/ expired[r] /\ Outcome(r, "timed_out") /\ Step(r, "judge", "kill")
       \/ ~expired[r] /\ outcome[r] = "quota" /\ Outcome(r, "exited_over") /\ Step(r, "judge", "kill")
       \/ ~expired[r] /\ outcome[r] = "none" /\ Step(r, "judge", "check") /\ UNCHANGED outcome
    /\ UNCHANGED <<request, session, store, child, clock, todo, stale, prepared, report, faults, moves>>

JudgeStorage(r) ==
    /\ pc[r] = "judge"
    /\ \/ expired[r] /\ Outcome(r, "timed_out") /\ Step(r, "judge", "kill")
       \/ ~expired[r] /\ outcome[r] = "quota" /\ Step(r, "judge", "kill") /\ UNCHANGED outcome
       \/ ~expired[r] /\ outcome[r] = "none" /\ Step(r, "judge", "check") /\ UNCHANGED outcome
    /\ UNCHANGED <<request, session, store, child, clock, todo, stale, prepared, report, faults, moves>>

\* terminate_job_and_wait.
KillTree(r) ==
    /\ pc[r] = "kill"
    /\ Step(r, "kill", "join_monitor")
    /\ \/ /\ root' = [root EXCEPT ![r] = IF Ended(r) THEN @ ELSE "killed"]
          /\ kids' = [kids EXCEPT ![r] = FALSE]
          /\ UNCHANGED <<outcome, faults>>
       \/ Outcome(r, "error") /\ Fault /\ UNCHANGED <<root, kids>>
    /\ UNCHANGED <<request, session, store, filters, job, token, inJob, volume, clock, todo,
                   stale, prepared, report, moves>>

StopMonitor(r) ==
    /\ Step(r, "join_monitor", "close_job")
    /\ threads' = [threads EXCEPT ![r] = @ \ {"monitor"}]
    /\ UNCHANGED <<request, session, store, child, expired, interrupted, books, faults, moves>>

CloseJob(r) ==
    /\ Step(r, "close_job", "join_threads")
    /\ CloseJobHandle(r)
    /\ UNCHANGED <<request, session, store, filters, token, inJob, volume, clock, books, faults, moves>>

\* A pipe thread ends once nobody holds the other end.
ThreadEnds(r) ==
    /\ ~Busy(r) /\ root[r] # "suspended"
    /\ \E t \in threads[r] \ {"monitor"} : threads' = [threads EXCEPT ![r] = @ \ {t}]
    /\ UNCHANGED <<request, session, pc, store, child, expired, interrupted, books, faults, moves>>

JoinThreads(r) ==
    /\ threads[r] = {}
    /\ pc[r] = "join_threads"
    /\ pc' = [pc EXCEPT ![r] =
                 IF outcome[r] \in {"error", "interrupted"} THEN "begin_cleanup" ELSE "observe"]
    /\ UNCHANGED <<request, session, store, child, clock, books, faults, moves>>

\* The workspace is compared with what was staged.
ObserveFiles(r) ==
    /\ Step(r, "observe", "begin_cleanup")
    /\ UNCHANGED <<request, session, store, child, clock, books, faults, moves>>

-----------------------------------------------------------------------------
\* cleanup, and what start_with_request makes of it.

BeginCleanup(r) ==
    /\ pc[r] = "begin_cleanup"
    /\ pc' = [pc EXCEPT ![r] = IF prepared[r] THEN "remove_filters" ELSE "finish"]
    /\ interrupted' = [interrupted EXCEPT ![r] = FALSE]
    /\ report' = [report EXCEPT ![r].clean = TRUE]
    /\ UNCHANGED <<request, session, store, child, expired, threads, todo, stale, outcome,
                   prepared, faults, moves>>

\* The filters go with the dynamic session even when deleting them fails.
RemoveFilters(r) ==
    /\ Step(r, "remove_filters", "delete_profile")
    /\ filters' = [filters EXCEPT ![r] = {}]
    /\ \/ UNCHANGED <<report, faults>>
       \/ Filtered(request[r]) /\ Fault /\ report' = [report EXCEPT ![r].clean = FALSE]
    /\ UNCHANGED <<request, session, store, job, token, root, inJob, kids, volume, clock, todo,
                   stale, outcome, prepared, moves>>

\* A failed preparation deletes its profile before cleanup begins.
BehindProfile(r) == IF prepared[r] THEN "finish" ELSE "begin_cleanup"

\* Mutant: the marker is removed whether or not the profile could be deleted.
DeleteProfile_Unmarking(r) ==
    /\ pc[r] \in DeletingSteps
    /\ \/ profiles' = profiles \ {r} /\ UNCHANGED faults
       \/ Fault /\ UNCHANGED profiles
    /\ volume' = [volume EXCEPT ![r] = "small"]
    /\ markers' = [markers EXCEPT ![r] = "loose"]
    /\ pc' = [pc EXCEPT ![r] = "unmark"]
    /\ UNCHANGED <<request, session, lease, filters, job, token, root, inJob, kids, clock, todo,
                   stale, outcome, prepared, report, moves>>

\* Mutant: a profile that could not be deleted is not among the leftovers.
DeleteProfile_Silent(r) ==
    /\ pc[r] \in DeletingSteps
    /\ markers' = [markers EXCEPT ![r] = "loose"]
    /\ \/ /\ profiles' = profiles \ {r}
          /\ pc' = [pc EXCEPT ![r] = "unmark"] /\ UNCHANGED faults
       \/ pc' = [pc EXCEPT ![r] = BehindProfile(r)] /\ Fault /\ UNCHANGED profiles
    /\ UNCHANGED <<request, session, lease, filters, job, token, root, inJob, kids, volume, clock,
                   todo, stale, outcome, prepared, report, moves>>

\* The deletion, which takes the storage along, and the second one when the profile
\* is dropped; whatever comes of them, the marker is not held any longer.
DeleteProfile(r) ==
    /\ pc[r] \in DeletingSteps
    /\ \/ /\ profiles' = profiles \ {r}
          /\ volume' = [volume EXCEPT ![r] = "small"]
          /\ markers' = [markers EXCEPT ![r] = "loose"]
          /\ pc' = [pc EXCEPT ![r] = "unmark"]
          /\ UNCHANGED <<report, faults>>
       \/ /\ Step(r, "delete_profile", "retry_delete") /\ Fault
          /\ report' = IF prepared[r]
                       THEN [report EXCEPT ![r].clean = FALSE, ![r].leftover = TRUE]
                       ELSE report
          /\ UNCHANGED <<profiles, markers, volume>>
       \/ /\ Step(r, "retry_delete", BehindProfile(r)) /\ Fault
          /\ markers' = [markers EXCEPT ![r] = "loose"]
          /\ UNCHANGED <<profiles, volume, report>>
    /\ UNCHANGED <<request, session, lease, filters, job, token, root, inJob, kids, clock, todo, stale, outcome, prepared, moves>>

RemoveMarker(r) ==
    /\ Step(r, "unmark", BehindProfile(r))
    /\ RemoveMarkerFile(r)
    /\ UNCHANGED <<request, session, lease, profiles, child, clock, books, faults, moves>>

ReleaseLease(r) ==
    lease' = IF lease[session[r]] = r THEN [lease EXCEPT ![session[r]] = "free"] ELSE lease

Finish(r) ==
    /\ Step(r, "finish", "done")
    /\ ReleaseLease(r)
    /\ report' = [report EXCEPT ![r].status =
                     IF outcome[r] \in {"error", "interrupted"} THEN "error" ELSE "result"]
    /\ UNCHANGED <<request, session, markers, profiles, child, clock, todo, stale, outcome,
                   prepared, faults, moves>>

-----------------------------------------------------------------------------
\* The target, the clock, the user.

RootEnds(r) ==
    /\ root[r] = "running" /\ Move
    /\ \/ root' = [root EXCEPT ![r] = "exited"] /\ UNCHANGED kids
       \* The job's user-time limit kills the whole tree.
       \/ inJob[r] /\ root' = [root EXCEPT ![r] = "limited"] /\ kids' = [kids EXCEPT ![r] = FALSE]
    /\ UNCHANGED <<request, session, pc, store, filters, job, token, inJob, volume, clock, books,
                   faults>>

Descend(r) ==
    /\ Busy(r) /\ Move
    /\ kids' = [kids EXCEPT ![r] = ~@]
    /\ UNCHANGED <<request, session, pc, store, filters, job, token, root, inJob, volume, clock,
                   books, faults>>

Fill(r) ==
    /\ Busy(r) /\ Move
    /\ \E v \in Volumes \ {volume[r]} : volume' = [volume EXCEPT ![r] = v]
    /\ UNCHANGED <<request, session, pc, store, filters, job, token, root, inJob, kids, clock,
                   books, faults>>

Expire(r) ==
    /\ pc[r] \in {"check", "block", "measure", "judge"} /\ ~expired[r]
    /\ expired' = [expired EXCEPT ![r] = TRUE]
    /\ UNCHANGED <<request, session, pc, store, child, interrupted, threads, books, faults, moves>>

Interrupt(r) ==
    /\ pc[r] \notin {"done", "dead"} /\ ~interrupted[r] /\ Fault
    /\ interrupted' = [interrupted EXCEPT ![r] = TRUE]
    /\ UNCHANGED <<request, session, pc, store, child, expired, threads, books, moves>>

Die(r) ==
    /\ pc[r] \notin {"done", "dead"} /\ Fault
    /\ pc' = [pc EXCEPT ![r] = "dead"]
    /\ threads' = [threads EXCEPT ![r] = {}]
    /\ UNCHANGED <<request, session, store, child, expired, interrupted, books, moves>>

\* Windows closes what a dead broker had open.
CloseHandles(r) ==
    /\ pc[r] = "dead"
    /\ \/ /\ lease[session[r]] = r
          /\ lease' = [lease EXCEPT ![session[r]] = "abandoned"]
          /\ UNCHANGED <<markers, filters, job, root, kids>>
       \/ \E m \in Runs :
             /\ markers[m] = r
             /\ markers' = [markers EXCEPT ![m] = "loose"]
             /\ UNCHANGED <<lease, filters, job, root, kids>>
       \/ /\ filters[r] # {}
          /\ filters' = [filters EXCEPT ![r] = {}]
          /\ UNCHANGED <<lease, markers, job, root, kids>>
       \/ job[r] = "open" /\ CloseJobHandle(r) /\ UNCHANGED <<lease, markers, filters>>
    /\ UNCHANGED <<request, session, pc, profiles, token, inJob, volume, clock, books, faults, moves>>

-----------------------------------------------------------------------------
Prepare(r) ==
    \/ PinTarget(r) \/ AcquireLease(r) \/ ListMarkers(r)
    \/ (\E m \in Runs : OpenMarker(r, m))
    \/ DeleteStaleProfile(r) \/ RemoveStaleMarker(r)
    \/ CreateMarker(r) \/ CreateProfile(r) \/ StageRun(r) \/ InstallFilters(r)

Execute(r) ==
    \/ CreateSuspended(r) \/ AssignJob(r) \/ VerifyToken(r) \/ Resume(r)
    \/ CheckRequests(r) \/ WaitSlice(r) \/ MeasureStorage(r) \/ JudgeStorage(r) \/ KillTree(r)
    \/ StopMonitor(r) \/ CloseJob(r) \/ JoinThreads(r) \/ ObserveFiles(r)

Cleanup(r) ==
    BeginCleanup(r) \/ RemoveFilters(r) \/ DeleteProfile(r) \/ RemoveMarker(r) \/ Finish(r)

Broker(r) == Prepare(r) \/ Execute(r) \/ Cleanup(r)

Target(r) == RootEnds(r) \/ Descend(r) \/ Fill(r)

Next ==
    \E r \in Runs :
        \/ Broker(r) \/ ThreadEnds(r) \/ Target(r)
        \/ Expire(r) \/ Interrupt(r) \/ Die(r) \/ CloseHandles(r)

Spec == Init /\ [][Next]_vars

\* Brokers and their threads are scheduled, and time passes.
FairSpec ==
    Spec /\ \A r \in Runs : WF_vars(Broker(r)) /\ WF_vars(ThreadEnds(r)) /\ WF_vars(Expire(r))

-----------------------------------------------------------------------------
\* Properties.

TypeOK ==
    /\ request \in [Runs -> Requests]
    /\ session \in [Runs -> Sessions]
    /\ pc \in [Runs -> Steps]
    /\ lease \in [Sessions -> Runs \cup {"free", "abandoned"}]
    /\ markers \in [Runs -> Runs \cup {"none", "loose"}]
    /\ profiles \subseteq Runs
    /\ todo \in [Runs -> SUBSET Runs]
    /\ stale \in [Runs -> Runs]
    /\ filters \in [Runs -> UNION {SUBSET Filters(request[r]) : r \in Runs}]
    /\ job \in [Runs -> {"none", "open", "closed"}]
    /\ token \in [Runs -> UNION {SUBSET TokensMade(request[r]) : r \in Runs}]
    /\ root \in [Runs -> {"none", "suspended", "running", "exited", "limited", "killed"}]
    /\ inJob \in [Runs -> BOOLEAN]
    /\ kids \in [Runs -> BOOLEAN]
    /\ volume \in [Runs -> Volumes]
    /\ expired \in [Runs -> BOOLEAN]
    /\ interrupted \in [Runs -> BOOLEAN]
    /\ threads \in [Runs -> SUBSET {"monitor", "output", "input"}]
    /\ outcome \in [Runs -> Outcomes]
    /\ prepared \in [Runs -> BOOLEAN]
    /\ report \in [Runs -> [status : {"none", "result", "error"}, clean : BOOLEAN,
                            leftover : BOOLEAN]]
    /\ faults \in 0..MaxFaults
    /\ moves \in 0..MaxMoves

\* create_disposable_app_container, delete, scavenge_stale_app_container_profiles:
\* whoever fails or dies wherever, a profile that exists has a marker file, so a
\* later run can find and reclaim it.
ProfilesMarked == \A r \in profiles : markers[r] # "none"

OwnsProfile(r) ==
    \/ pc[r] \in HoldingSteps \cup DeletingSteps
    \/ pc[r] = "begin_cleanup" /\ prepared[r]

\* "Live runs hold unshareable markers": no scavenger of another session takes the
\* profile of a run that is still using it.
LiveProfileKept == \A r \in Runs : OwnsProfile(r) => r \in profiles /\ markers[r] = r

\* What the requested network policy lets through.
Permitted(q, flow) ==
    \/ ~Filtered(q)
    \/ /\ q.mode = "allow_list" /\ flow.direction = "connect"
       /\ \E n \in q.allowed : n.family = flow.family
                               /\ SameNetwork(n.address, flow.address, n.prefix)

PolicyEnforced(r) ==
    \A flow \in Flows : Admits(filters[r], flow) <=> Permitted(request[r], flow)

\* As long as its broker lives, a target runs only inside an open job, with the token
\* the request asks for, with exactly the network the policy permits, in a profile
\* that exists, and while its broker has the session to itself.
Contained ==
    \A r \in Runs : (root[r] = "running" \/ kids[r]) /\ pc[r] # "dead" =>
        /\ inJob[r] /\ job[r] = "open"
        /\ \A t \in token[r] : t = Token(request[r])
        /\ PolicyEnforced(r)
        /\ r \in profiles
        /\ lease[session[r]] = r

\* A broker that gets the mutex of its session finds nothing of an earlier run of
\* the session at work, unless the earlier broker died.
SessionToItself ==
    \A r, q \in Runs :
        r # q /\ session[r] = session[q] /\ lease[session[q]] = q /\ pc[r] # "dead" =>
            ~Busy(r) /\ root[r] # "suspended" /\ filters[r] = {} /\ ~OwnsProfile(r)

\* What start_with_request returns is true: nothing of the target is alive; cleanup
\* that reports success left neither profile nor filters, and a profile that is left
\* behind a result is among its leftovers.
HonestReport ==
    \A r \in Runs : pc[r] = "done" =>
        /\ ~Busy(r) /\ root[r] # "suspended" /\ threads[r] = {}
        /\ filters[r] = {}
        /\ report[r].status = "result" /\ r \in profiles =>
               report[r].leftover /\ ~report[r].clean

\* The verdict is true: a target counts as timed out only past its deadline, as
\* exited only if it ended without the broker's doing, and one the broker killed
\* is reported as timed out or over its storage.
VerdictTrue ==
    \A r \in Runs : pc[r] = "done" /\ report[r].status = "result" =>
        /\ outcome[r] = "timed_out" => expired[r]
        /\ outcome[r] \in {"exited", "exited_over"} => root[r] \in {"exited", "limited"}
        /\ root[r] = "killed" => outcome[r] \in {"timed_out", "quota"}
        /\ outcome[r] = "dry_run" <=> root[r] = "none"

\* No run waits for ever: not for its target, not for a thread that waits for the
\* target's descendants, not for another broker.
Finishes == \A r \in Runs : pc[r] = "pin" ~> pc[r] \in {"done", "dead"}
=============================================================================
