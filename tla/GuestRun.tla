----------------------------- MODULE GuestRun -----------------------------
(***************************************************************************)
(* The guest agent of one Hyper-V run, from the data disk the host staged  *)
(* to the result the host collects (guest-agent/src/runner.rs,             *)
(* artifacts.rs, result.rs), around the execution of the target, which is  *)
(* GuestExecution.  Several agents may find the same disk: the   *)
(* service comes back after a guest reboot or a crash, and an operator may *)
(* start another one with --console.  Every write can fail before or after *)
(* its file has got its name, and an agent can die at any step; MaxFaults  *)
(* bounds how many of these a behaviour has.                               *)
(***************************************************************************)
EXTENDS GuestProtocol, GuestExecution

VARIABLES
    shared,     \* a host writes status records while the guest runs
    vm,         \* is the guest up?
    volume,     \* the run's files on the data disk
    pc,         \* each agent's next step
    seen,       \* each agent's ProtocolStateMachine: states seen ...
    last,       \* ... and last sequence
    answer,     \* the result each agent is about to write, or has written
    workspace,  \* the guest-local directory of the run exists
    verdict     \* what the host makes of the volume

agentVars == <<pc, seen, last, answer>>
execVars == <<exec, launches, workspace>>
vars == <<shared, vm, volume, agentVars, execVars, faults, verdict>>

\* Steps behind the claim, in the order of runner::run.
ClaimedSteps ==
    {"configure_nic", "publish_ready", "await_start", "stage", "publish_running",
     "scan_primary", "executing", "cleanup", "write_evidence", "write_result", "publish_completed",
     "prepare_failed", "write_failed", "publish_failed", "write_cancelled",
     "publish_shutdown", "shutdown"}

AgentSteps == {"open", "claim", "exited"} \cup ClaimedSteps

TypeOK ==
    /\ shared \in BOOLEAN
    /\ vm \in {"running", "off"}
    /\ volume \in Volume
    /\ pc \in [Agents -> AgentSteps]
    /\ seen \in [Agents -> SUBSET ProtocolStates]
    /\ last \in [Agents -> 0..Cardinality(ProtocolStates)]
    /\ answer \in [Agents -> Results]
    /\ exec \in [Agents -> Execution]
    /\ launches \in 0..Cardinality(Agents) + MaxFaults
    /\ workspace \in BOOLEAN
    /\ faults \in 0..MaxFaults
    /\ verdict \in Results \cup {"rejected"}

\* The Hyper-V host stages its three records before the guest boots.  The protocol
\* also lets a host that shares the volume approve the start, or cancel, later.
Staged(approved) ==
    [s \in ProtocolStates |->
       CASE s = "HostReady"                 -> [seq |-> 1, result |-> NoResult]
         [] s = "RequestWritten"            -> [seq |-> 2, result |-> NoResult]
         [] s = "StartAllowed" /\ approved  -> [seq |-> 3, result |-> NoResult]
         [] OTHER                           -> NoRecord]

Init ==
    /\ shared \in BOOLEAN
    /\ vm = "running"
    /\ volume = [status |-> Staged(~shared), claim |-> FALSE, result |-> NoResult,
                 evidence |-> "none", extracted |-> FALSE, stray |-> FALSE]
    /\ pc = [a \in Agents |-> "open"]
    /\ seen = [a \in Agents |-> {}]
    /\ last = [a \in Agents |-> 0]
    /\ answer = [a \in Agents |-> NoResult]
    /\ exec = [a \in Agents |-> NoExecution]
    /\ launches = 0
    /\ workspace = FALSE
    /\ faults = 0
    /\ verdict = NoResult

-----------------------------------------------------------------------------
At(a, here) == vm = "running" /\ pc[a] = here

Goto(a, step) == pc' = [pc EXCEPT ![a] = step]

\* The memory of an agent that starts over.
Forget(a) ==
    /\ seen' = [seen EXCEPT ![a] = {}]
    /\ last' = [last EXCEPT ![a] = 0]
    /\ answer' = [answer EXCEPT ![a] = NoResult]

\* Observing host records: all of them in order, or an error.
Observes(a, records, ok, failed) ==
    IF ObservableInOrder(volume, records, seen[a], last[a])
    THEN /\ seen' = [seen EXCEPT ![a] = @ \cup records]
         /\ last' = [last EXCEPT ![a] =
                       IF records = {} THEN @
                       ELSE CHOOSE n \in {volume.status[s].seq : s \in records} :
                              \A s \in records : volume.status[s].seq <= n]
         /\ ok
    ELSE UNCHANGED <<seen, last>> /\ failed

\* RunLayout::open, load_request and StatusPublisher::open.
Open(a) ==
    LET found == Published(volume) \cap HostStates
    IN  /\ At(a, "open")
        /\ IF Published(volume) \cap GuestStates # {} \/ volume.result # NoResult
              \/ volume.evidence # "none"
           THEN Goto(a, "exited") /\ UNCHANGED <<seen, last>>
           ELSE Observes(a, found, Goto(a, "claim"), Goto(a, "exited"))
        /\ UNCHANGED <<shared, vm, volume, answer, execVars, faults, verdict>>

\* RunClaim::acquire.  A record of cancellation on the disk is honoured at once.
Claim(a) ==
    /\ At(a, "claim")
    /\ \E w \in WriteNew(volume.claim) :
          /\ Spend(w.cost)
          /\ volume' = [volume EXCEPT !.claim = @ \/ w.linked, !.stray = @ \/ w.stray]
          /\ Goto(a, IF ~w.ok THEN "exited"
                     ELSE IF "CancelRequested" \in seen[a] THEN "write_cancelled"
                     ELSE "configure_nic")
    /\ UNCHANGED <<shared, vm, seen, last, answer, execVars, verdict>>

\* The agent configures and attests the guest's network, or cannot.
ConfigureNic(a) ==
    /\ At(a, "configure_nic")
    /\ \E next \in {"publish_ready", "prepare_failed"} : Goto(a, next)
    /\ UNCHANGED <<shared, vm, volume, seen, last, answer, execVars, faults, verdict>>

(***************************************************************************)
(* StatusPublisher::publish: the next sequence, checked against the own    *)
(* state machine, which moves on only after the record has been written.   *)
(***************************************************************************)
Publish(a, here, state, result, ok, failed) ==
    LET record == [seq |-> last[a] + 1, result |-> result]
    IN  /\ At(a, here)
        /\ IF ~Observable(state, record.seq, seen[a], last[a])
           THEN Goto(a, failed) /\ UNCHANGED <<volume, seen, last, faults>>
           ELSE \E w \in WriteNew(state \in Published(volume)) :
                  /\ Spend(w.cost)
                  /\ volume' = WithRecord(volume, state, record, w)
                  /\ IF w.ok
                     THEN /\ seen' = [seen EXCEPT ![a] = @ \cup {state}]
                          /\ last' = [last EXCEPT ![a] = record.seq]
                          /\ Goto(a, ok)
                     ELSE UNCHANGED <<seen, last>> /\ Goto(a, failed)
        /\ UNCHANGED <<shared, vm, answer, execVars, verdict>>

\* An error here is returned as it is: the run ends without a terminal record.
PublishReady(a) ==
    Publish(a, "publish_ready", "GuestReady", NoResult, "await_start", "exited")

Decision(states) ==
    IF "CancelRequested" \in states THEN "write_cancelled"
    ELSE IF "StartAllowed" \in states THEN "stage" ELSE "await_start"

(***************************************************************************)
(* wait_for_start_or_cancel.  What was seen at the start is acted on       *)
(* without another look at the disk.  A poll looks for the approval before *)
(* the cancellation, so it can miss an approval that comes with it.  After *)
(* 60 seconds, or on a bad record, the run ends without a terminal record. *)
(***************************************************************************)
AwaitStart(a) ==
    LET asked == {"StartAllowed", "CancelRequested"}
        new   == (Published(volume) \cap asked) \ seen[a]
    IN  /\ At(a, "await_start")
        /\ IF seen[a] \cap asked # {}
           THEN Goto(a, Decision(seen[a])) /\ UNCHANGED <<seen, last>>
           ELSE \/ \E found \in {new, new \ {"StartAllowed"}} :
                     Observes(a, found, Goto(a, Decision(seen[a] \cup found)), Goto(a, "exited"))
                \/ Goto(a, "exited") /\ UNCHANGED <<seen, last>>
        /\ UNCHANGED <<shared, vm, volume, answer, execVars, faults, verdict>>

-----------------------------------------------------------------------------
\* execute_claimed_run; any error leads to finish_failed.

(***************************************************************************)
(* GuestWorkspace::stage: the directory is the run's own and new.  What a  *)
(* failure leaves of it is removed, unless that fails as well.             *)
(***************************************************************************)
Stage(a) ==
    /\ At(a, "stage")
    /\ \/ ~workspace /\ workspace' = TRUE /\ Goto(a, "publish_running") /\ UNCHANGED faults
       \/ \E left \in {workspace, TRUE} :
            /\ Spend(IF left # workspace THEN 1 ELSE 0)
            /\ workspace' = left /\ Goto(a, "prepare_failed")
    /\ UNCHANGED <<shared, vm, volume, seen, last, answer, exec, launches, verdict>>

\* An error drops the workspace.
PublishRunning(a) ==
    Publish(a, "publish_running", "Running", NoResult, "scan_primary", "cleanup")

\* Session::scan of the target before it runs: its results, or a warning only.
ScanPrimary(a) ==
    /\ At(a, "scan_primary")
    /\ \E evidence \in {volume.evidence, "partial"} :
          volume' = [volume EXCEPT !.evidence = evidence]
    /\ exec' = [exec EXCEPT ![a].step = "observe"]
    /\ Goto(a, "executing")
    /\ UNCHANGED <<shared, vm, seen, last, answer, launches, workspace,
                   faults, verdict>>

\* SystemGuestExecutor::execute
Execute(a) ==
    /\ At(a, "executing") /\ Executor(a)
    /\ UNCHANGED <<shared, vm, volume, agentVars, workspace, verdict>>

\* Session::collect_files copies and scans what the target created, but only after a
\* successful execution; telemetry and scans leave artifacts in the output.
CollectFiles(a) ==
    /\ At(a, "executing") /\ exec[a].step = "answered"
    /\ IF exec[a].outcome \in Executed
       THEN \E extracted \in BOOLEAN :
              volume' = [volume EXCEPT !.evidence = "partial", !.extracted = extracted]
       ELSE \E evidence \in {volume.evidence, "partial"} :
              volume' = [volume EXCEPT !.evidence = evidence]
    /\ Goto(a, "cleanup")
    /\ UNCHANGED <<shared, vm, seen, last, answer, execVars, faults, verdict>>

\* GuestWorkspace::cleanup.  A failure becomes a warning of the result, if there is
\* one, and the removal is tried once more when the workspace is dropped.
CleanupWorkspace(a) ==
    /\ At(a, "cleanup")
    /\ \/ workspace' = FALSE /\ UNCHANGED <<exec, faults>>
       \/ /\ Spend(1) /\ workspace' \in BOOLEAN
          /\ exec' = [exec EXCEPT ![a].reported = @ \cup {"workspace"}]
    /\ IF exec[a].outcome \in Executed
       THEN answer' = [answer EXCEPT ![a] = exec[a].outcome] /\ Goto(a, "write_evidence")
       ELSE UNCHANGED answer /\ Goto(a, "prepare_failed")
    /\ UNCHANGED <<shared, vm, volume, seen, last, launches, verdict>>

\* result::write: the manifest is checked, streams and event files are written ...
WriteEvidence(a) ==
    /\ At(a, "write_evidence")
    /\ \/ /\ volume' = [volume EXCEPT !.evidence = "complete"]
          /\ Goto(a, "write_result") /\ UNCHANGED faults
       \/ Spend(1) /\ Goto(a, "prepare_failed") /\ UNCHANGED volume
    /\ UNCHANGED <<shared, vm, seen, last, answer, execVars, verdict>>

\* ... and result.json comes last.
PublishResult(a, here, outcome, ok, failed) ==
    /\ At(a, here)
    /\ \E w \in WriteNew(volume.result # NoResult) :
          /\ Spend(w.cost)
          /\ volume' = [volume EXCEPT !.result = IF w.linked THEN outcome ELSE @]
          /\ answer' = [answer EXCEPT ![a] = IF w.ok THEN outcome ELSE NoResult]
          /\ Goto(a, IF w.ok THEN ok ELSE failed)
    /\ UNCHANGED <<shared, vm, seen, last, execVars, verdict>>

\* Mutant: the completion is announced after a result that could not be written.
WriteResult_Announced(a) ==
    PublishResult(a, "write_result", answer[a], "publish_completed", "publish_completed")

WriteResult(a) ==
    PublishResult(a, "write_result", answer[a], "publish_completed", "prepare_failed")

PublishCompleted(a) ==
    Publish(a, "publish_completed", "Completed", answer[a], "publish_shutdown", "exited")

-----------------------------------------------------------------------------
\* finish_failed and finish_cancelled.

\* Mutant: what the failed execution left is published with the failure.
PrepareFailed_Keeping(a) ==
    /\ At(a, "prepare_failed")
    /\ Goto(a, "write_failed")
    /\ UNCHANGED <<shared, vm, volume, seen, last, answer, execVars, faults, verdict>>

\* prepare_failed_publication discards what a failed result must not carry.  It
\* knows the names of the telemetry and scanner artifacts, not those of extracted
\* files: with one of these there it gives up and nothing is published at all.
PrepareFailed(a) ==
    /\ At(a, "prepare_failed")
    /\ \/ /\ ~volume.extracted
          /\ volume' = [volume EXCEPT !.evidence = "none"]
          /\ Goto(a, "write_failed") /\ UNCHANGED faults
       \/ /\ Spend(IF volume.extracted THEN 0 ELSE 1)
          /\ volume' = [volume EXCEPT !.evidence = IF @ = "none" THEN @ ELSE "partial"]
          /\ Goto(a, "exited")
    /\ UNCHANGED <<shared, vm, seen, last, answer, execVars, verdict>>

\* A result that cannot be written does not keep the failure from being published.
WriteFailed(a) == PublishResult(a, "write_failed", "agent_failed", "publish_failed", "publish_failed")

\* Mutant: the failure does not name its result.
PublishFailed_Unbound(a) ==
    Publish(a, "publish_failed", "Failed", NoResult, "publish_shutdown", "exited")

PublishFailed(a) ==
    Publish(a, "publish_failed", "Failed", answer[a], "publish_shutdown", "exited")

WriteCancelled(a) ==
    PublishResult(a, "write_cancelled", "cancelled", "publish_shutdown", "exited")

PublishShutdown(a) ==
    Publish(a, "publish_shutdown", "ShutdownReady", answer[a], "shutdown", "exited")

\* Nothing of the agents is left in a guest that is off.
GuestGoesDown ==
    /\ vm' = "off"
    /\ pc' = [a \in Agents |-> "exited"]
    /\ seen' = [a \in Agents |-> {}]
    /\ last' = [a \in Agents |-> 0]
    /\ answer' = [a \in Agents |-> NoResult]
    /\ exec' = [a \in Agents |-> Abandoned(exec[a], TRUE)]
    /\ UNCHANGED <<launches, workspace, faults>>

\* The request has shutdown_when_complete set.
Shutdown(a) ==
    /\ At(a, "shutdown")
    /\ GuestGoesDown
    /\ UNCHANGED <<shared, volume, verdict>>

Agent(a) ==
    \/ Open(a) \/ Claim(a) \/ ConfigureNic(a) \/ PublishReady(a) \/ AwaitStart(a)
    \/ Stage(a) \/ PublishRunning(a) \/ ScanPrimary(a) \/ Execute(a)
    \/ CollectFiles(a) \/ CleanupWorkspace(a) \/ WriteEvidence(a) \/ WriteResult(a) \/ PublishCompleted(a)
    \/ PrepareFailed(a) \/ WriteFailed(a) \/ PublishFailed(a) \/ WriteCancelled(a)
    \/ PublishShutdown(a) \/ Shutdown(a)

-----------------------------------------------------------------------------
\* The environment and the host.

\* The agent or the whole guest goes down and comes back.
AgentRestarts(a) ==
    /\ vm = "running" /\ pc[a] # "open"
    /\ Spend(1)
    /\ Goto(a, "open") /\ Forget(a)
    /\ \E reboot \in BOOLEAN : exec' = [exec EXCEPT ![a] = Abandoned(@, reboot)]
    /\ UNCHANGED <<shared, vm, volume, launches, workspace, verdict>>

TargetActs(a) ==
    /\ vm = "running" /\ Target(a)
    /\ UNCHANGED <<shared, vm, volume, agentVars, workspace, verdict>>

\* The target, the host's deadline or its quota turns the guest off.
GuestStops ==
    /\ vm = "running" /\ GuestGoesDown
    /\ UNCHANGED <<shared, volume, verdict>>

HostPublishes(state) ==
    /\ shared /\ vm = "running"
    /\ state \notin Published(volume) /\ Prerequisites(state, Published(volume))
    /\ volume' = [volume EXCEPT !.status[state] =
                     [seq |-> Last(volume) + 1, result |-> NoResult]]
    /\ UNCHANGED <<shared, vm, pc, seen, last, answer, execVars, faults, verdict>>

\* result_collector::collect, or partial preservation of what it rejects.
Collect ==
    /\ vm = "off" /\ verdict = NoResult
    /\ verdict' = IF Acceptable(volume) THEN volume.result ELSE "rejected"
    /\ UNCHANGED <<shared, vm, volume, pc, seen, last, answer, execVars, faults>>

Next ==
    \/ \E a \in Agents : Agent(a) \/ TargetActs(a) \/ AgentRestarts(a)
    \/ \E state \in {"StartAllowed", "CancelRequested"} : HostPublishes(state)
    \/ GuestStops
    \/ Collect

Spec == Init /\ [][Next]_vars

\* Agents take their next step: every wait of theirs is bounded.
FairSpec == Spec /\ \A a \in Agents : WF_vars(Agent(a))

-----------------------------------------------------------------------------
\* Properties.

\* The target is launched at most once per run disk, however often the agent is
\* restarted and whether or not a second agent works on the same disk.
ExecutedOnce == launches <= 1

\* A result is built from an execution that is over: once the executor has answered,
\* also with an error at any step, nothing of the target can run while its files are
\* collected and the result is written.  What the agent could not take back from the
\* guest, the account it made, the capture or its directory, the result says.
ExecutionSettled ==
    \A a \in Agents : exec[a].step = "answered" =>
        /\ ~Alive(exec[a])
        /\ exec[a].outcome \in Executed =>
              /\ exec[a].account => "account" \in exec[a].reported
              /\ exec[a].capture => "capture" \in exec[a].reported
              /\ workspace /\ pc[a] = "write_evidence" => "workspace" \in exec[a].reported

\* The executor answers, whatever the target and its descendants do: a target that
\* never ends meets the deadline, a descendant that outlives it does not keep the
\* readers of the output waiting.
ExecutionEnds ==
    (\E a \in Agents : exec[a].step = "observe")
        ~> (vm = "off" \/ \A a \in Agents : exec[a].step \in {"answered", "idle"})

\* What the host accepts is what happened: the one execution ended as the result
\* says; a cancelled target never ran; a failed run carries no evidence of one.
AcceptedIsTrue ==
    /\ verdict \in Executed => launches = 1
    /\ verdict = "completed" => \E a \in Agents : exec[a].root = "exited"
    /\ verdict = "timed_out" => \A a \in Agents : ~Alive(exec[a])
    /\ verdict = "cancelled" => launches = 0
    /\ verdict = "agent_failed" => volume.evidence = "none"

\* result.rs: "a completed marker can never refer to an envelope whose supporting
\* files were not flushed", also when a write fails after its file got its name.
CompletedBacked ==
    "Completed" \in Published(volume) =>
        /\ volume.evidence = "complete"
        /\ volume.result = volume.status["Completed"].result

\* An agent shuts the guest down only when the host will accept what it left,
\* unless something failed on the way: no outcome of the run, from a refused NIC
\* to a timeout, ends in a chain of records the host has to reject.
ShutdownIsConclusive ==
    [][\A a \in Agents : Shutdown(a) /\ faults = 0 /\ ~shared => Acceptable(volume)]_vars

\* runner.rs publishes a failure after every error behind the claim, and result.rs
\* discards "only broker-generated names" on the way: with no fault to come, a
\* failing run is reported as failed unless the guest goes down first.
FailureIsPublished ==
    \A a \in Agents :
       (pc[a] = "prepare_failed" /\ faults = MaxFaults)
           ~> ("Failed" \in Published(volume) \/ vm = "off")
=============================================================================
