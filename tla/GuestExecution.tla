-------------------------- MODULE GuestExecution --------------------------
(***************************************************************************)
(* The execution of the target inside the guest                            *)
(* (guest-agent/src/process.rs, native_process.rs, telemetry.rs): the      *)
(* packet capture around it, the account it runs under, the suspended      *)
(* process and the job that holds its tree, the wait for its end or for    *)
(* the deadline, and the readers of its output, which return only when     *)
(* every process that can write to it is gone.  An error at any step       *)
(* unwinds what the steps before have set up.                              *)
(***************************************************************************)
EXTENDS Naturals, FiniteSets

CONSTANTS Agents, MaxFaults

ASSUME AgentsAssumption == IsFiniteSet(Agents)

ASSUME MaxFaultsAssumption == MaxFaults \in Nat

VARIABLES
    exec,       \* each agent's execution: the executor and what it left in the guest
    launches,   \* history: processes of the target that were let run
    faults      \* failed writes and cleanups and restarts so far

ExecutorSteps == {"idle", "observe", "identify", "create", "assign", "resume", "wait", "close",
                  "join", "finish", "restricted", "restricted_wait", "answered"}

(***************************************************************************)
(* job: the executor's handle of the job; member: the root process is in   *)
(* it; child: any descendant, in the job like its parent or outside;       *)
(* reported: what the result says could not be observed or undone.         *)
(***************************************************************************)
Execution ==
    [step : ExecutorSteps, job : BOOLEAN, member : BOOLEAN,
     root : {"none", "suspended", "running", "exited", "killed"},
     child : {"none", "inside", "outside"}, account : BOOLEAN, capture : BOOLEAN,
     outcome : {"none", "completed", "timed_out", "error"},
     reported : SUBSET {"account", "capture", "workspace"}]

NoExecution ==
    [step |-> "idle", job |-> FALSE, member |-> FALSE, root |-> "none", child |-> "none",
     account |-> FALSE, capture |-> FALSE, outcome |-> "none", reported |-> {}]

Alive(e) == e.root = "running" \/ e.child # "none"

\* TerminateJobObject: every process in the job ends.
Terminated(e) ==
    [e EXCEPT !.root  = IF e.member /\ @ \in {"suspended", "running"} THEN "killed" ELSE @,
              !.child = IF @ = "inside" THEN "none" ELSE @]

\* The job kills what is in it when its last handle is closed.
JobClosed(e) == IF e.job THEN [Terminated(e) EXCEPT !.job = FALSE] ELSE e

\* TelemetrySession: only a capture whose start was confirmed is stopped again.
Capturing(e) == "capture" \notin e.reported

\* A result of a step, and the faults it takes.
Free(e) == [to |-> e, cost |-> 0]
Fault(e) == [to |-> e, cost |-> 1]

(***************************************************************************)
(* What an error leaves after the executor's values are dropped: the job   *)
(* is closed, the temporary account deleted and the capture stopped, but a *)
(* failure of the last two goes unnoticed.  A process that is not in the   *)
(* job stays as it is.                                                     *)
(***************************************************************************)
Unwound(e) ==
    LET over == [JobClosed(e) EXCEPT !.step = "answered", !.outcome = "error",
                                     !.account = FALSE, !.capture = @ /\ ~Capturing(e)]
    IN  {Free(over)} \cup
        {Fault([over EXCEPT !.account = left]) : left \in {e.account}} \cup
        {Fault([over EXCEPT !.capture = left]) : left \in {e.capture}}

Spend(cost) == faults + cost <= MaxFaults /\ faults' = faults + cost

\* One step of an executor, with one of the results it can have.
Yields(a, here, results) ==
    /\ exec[a].step = here
    /\ \E result \in results :
          Spend(result.cost) /\ exec' = [exec EXCEPT ![a] = result.to]

-----------------------------------------------------------------------------
\* TelemetrySession::start, then the request's profile decides.  A start that was not
\* confirmed in time can still have taken place.
Observe(a) ==
    /\ \E profile \in {"restricted", "identify"} :
          LET next == [exec[a] EXCEPT !.step = profile]
              unconfirmed == [next EXCEPT !.reported = @ \cup {"capture"}]
          IN  Yields(a, "observe",
                 {Free([next EXCEPT !.capture = TRUE]), Free(unconfirmed),
                  Fault([unconfirmed EXCEPT !.capture = TRUE])})
    /\ UNCHANGED launches

\* launch_identity: an account that is there, the agent's own (admin) or a configured
\* one, or a temporary account, which exists before it is known to be usable.
Identify(a) ==
    /\ \E temporary \in BOOLEAN :
          LET ready == [exec[a] EXCEPT !.account = temporary]
          IN  Yields(a, "identify",
                 {Free([ready EXCEPT !.step = "create"])} \cup Unwound(ready))
    /\ UNCHANGED launches

\* The workspace is opened to the account; the process is created suspended.
CreateTarget(a) ==
    /\ Yields(a, "create",
          {Free([exec[a] EXCEPT !.root = "suspended", !.step = "assign"])} \cup Unwound(exec[a]))
    /\ UNCHANGED launches

\* Mutant: a process that cannot be put into the job runs without one.
Assign_Ignored(a) ==
    /\ \E member \in BOOLEAN :
          Yields(a, "assign",
              {Free([exec[a] EXCEPT !.job = TRUE, !.member = member, !.step = "resume"])})
    /\ UNCHANGED launches

\* create_job and AssignProcessToJobObject; without a job the process stays suspended.
Assign(a) ==
    /\ Yields(a, "assign",
          {Free([exec[a] EXCEPT !.job = TRUE, !.member = TRUE, !.step = "resume"])}
          \cup Unwound(exec[a]))
    /\ UNCHANGED launches

Resume(a) ==
    \/ /\ Yields(a, "resume", {Free([exec[a] EXCEPT !.root = "running", !.step = "wait"])})
       /\ launches' = launches + 1
    \/ /\ Yields(a, "resume", Unwound(Terminated(exec[a])))
       /\ UNCHANGED launches

\* wait_bounded looks at the deadline before it looks at the process; after the
\* deadline it waits without a limit for the end of the process it terminated.
Wait(a) ==
    LET stopped == Terminated(exec[a])
    IN  /\ \/ /\ exec[a].root = "exited"
              /\ Yields(a, "wait", {Free([exec[a] EXCEPT !.outcome = "completed", !.step = "close"])})
           \/ /\ stopped.root # "running"
              /\ Yields(a, "wait", {Free([stopped EXCEPT !.outcome = "timed_out", !.step = "close"])})
           \/ Yields(a, "wait", Unwound(exec[a]))
        /\ UNCHANGED launches

\* Mutant: the job is kept until the executor returns.
Close_Late(a) ==
    /\ Yields(a, "close", {Free([exec[a] EXCEPT !.step = "join"])})
    /\ UNCHANGED launches

\* "Kill-on-close terminates any descendants that survived the root process."
Close(a) ==
    /\ Yields(a, "close", {Free([JobClosed(exec[a]) EXCEPT !.step = "join"])})
    /\ UNCHANGED launches

(***************************************************************************)
(* finish_reader joins the readers, which read until no process holds the  *)
(* pipes; cleanup_temporary_account deletes the account, or says that it   *)
(* could not and has it tried once more when the value is dropped.         *)
(***************************************************************************)
Join(a) ==
    LET joined == [JobClosed(exec[a]) EXCEPT !.step = "finish"]
    IN  /\ ~Alive(exec[a])
        /\ Yields(a, "join",
              {Free([joined EXCEPT !.account = FALSE])} \cup
              (IF exec[a].account
               THEN {Fault([joined EXCEPT !.account = left, !.reported = @ \cup {"account"}]) :
                        left \in BOOLEAN}
               ELSE {}))
        /\ UNCHANGED launches

(***************************************************************************)
(* The restricted profile runs through the restricted process backend (see *)
(* RestrictedRun): it returns when nothing of the target is left, and what *)
(* it attests is verified before it is believed.                           *)
(***************************************************************************)
StartRestricted(a) ==
    \/ /\ Yields(a, "restricted",
             {Free([exec[a] EXCEPT !.job = TRUE, !.member = TRUE, !.root = "running",
                              !.step = "restricted_wait"])})
       /\ launches' = launches + 1
    \/ /\ Yields(a, "restricted", Unwound(exec[a]))
       /\ UNCHANGED launches

FinishRestricted(a) ==
    LET closed == JobClosed(exec[a])
    IN  /\ \/ /\ exec[a].root = "exited"
              /\ Yields(a, "restricted_wait", {Free([closed EXCEPT !.outcome = "completed", !.step = "finish"])})
           \/ Yields(a, "restricted_wait",
                 {Free([closed EXCEPT !.outcome = "timed_out", !.step = "finish"])} \cup Unwound(closed))
        /\ UNCHANGED launches

\* TelemetrySession::finish tries to stop a capture once.
FinishObserving(a) ==
    LET done == [exec[a] EXCEPT !.step = "answered"]
    IN  /\ Yields(a, "finish",
              IF Capturing(exec[a])
              THEN {Free([done EXCEPT !.capture = FALSE])} \cup
                   {Fault([done EXCEPT !.capture = left, !.reported = @ \cup {"capture"}]) :
                       left \in BOOLEAN}
              ELSE {Free(done)})
        /\ UNCHANGED launches

Executor(a) ==
    \/ Observe(a) \/ Identify(a) \/ CreateTarget(a) \/ Assign(a) \/ Resume(a) \/ Wait(a)
    \/ Close(a) \/ Join(a) \/ StartRestricted(a) \/ FinishRestricted(a) \/ FinishObserving(a)

-----------------------------------------------------------------------------
\* The target, in any order and at any time while it runs.
TargetSpawns(a) ==
    /\ exec[a].root = "running" /\ exec[a].child = "none"
    /\ exec' = [exec EXCEPT ![a].child = IF exec[a].member THEN "inside" ELSE "outside"]
    /\ UNCHANGED <<launches, faults>>

TargetExits(a) ==
    /\ exec[a].root = "running"
    /\ exec' = [exec EXCEPT ![a].root = "exited"]
    /\ UNCHANGED <<launches, faults>>

ChildExits(a) ==
    /\ exec[a].child # "none"
    /\ exec' = [exec EXCEPT ![a].child = "none"]
    /\ UNCHANGED <<launches, faults>>

Target(a) == TargetSpawns(a) \/ TargetExits(a) \/ ChildExits(a)

\* An agent that dies closes its job; a guest that goes down ends everything but the
\* account.  A process the agent had not put into the job survives the agent.
Abandoned(e, reboot) ==
    LET closed == JobClosed(e)
    IN  [closed EXCEPT !.step = "idle", !.outcome = "none", !.reported = {},
                       !.root = IF reboot /\ @ \in {"suspended", "running"} THEN "killed" ELSE @,
                       !.child = IF reboot THEN "none" ELSE @,
                       !.capture = @ /\ ~reboot]
=============================================================================
