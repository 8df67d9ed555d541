--------------------------- MODULE GuestRun_proofs ---------------------------
(***************************************************************************)
(* Proofs about the guest agent, for any number of agents and faults: the  *)
(* target is launched once, a result is built from an execution that is    *)
(* over, a completion is backed by its files, and what the host accepts is *)
(* what happened; an undisturbed run ends in an answer it accepts.         *)
(***************************************************************************)
EXTENDS GuestRun, FiniteSetTheorems, TLAPS

Unlaunched == {"idle", "observe", "identify", "create", "assign", "resume", "restricted"}
Launched == {"wait", "close", "join", "finish", "restricted_wait"}

\* Steps at which nothing has been executed yet.
Preparing == {"configure_nic", "publish_ready", "await_start", "stage", "publish_running",
              "scan_primary", "write_cancelled"}

\* Steps at which no completion has been announced, and the first of them, at which
\* there is no result either.
Unanswered == Preparing \cup {"executing", "cleanup", "write_evidence", "write_result"}
Failing == {"prepare_failed", "write_failed", "publish_failed"}

USE AgentsAssumption, MaxFaultsAssumption
USE DEF Executed, Outcomes, NoResult, Results

-----------------------------------------------------------------------------
\* The inductive invariant.

VolumeShape ==
    [status : [ProtocolStates -> [seq : Nat, result : Results]], claim : BOOLEAN,
     result : Results, evidence : {"none", "partial", "complete"}, extracted : BOOLEAN,
     stray : BOOLEAN]

Shape ==
    /\ shared \in BOOLEAN
    /\ vm \in {"running", "off"}
    /\ volume \in VolumeShape
    /\ pc \in [Agents -> AgentSteps]
    /\ seen \in [Agents -> SUBSET ProtocolStates]
    /\ last \in [Agents -> Nat]
    /\ answer \in [Agents -> Results]
    /\ exec \in [Agents -> Execution]
    /\ launches \in Nat
    /\ workspace \in BOOLEAN
    /\ faults \in 0..MaxFaults
    /\ verdict \in Results \cup {"rejected"}

\* One execution: only a process in a job that the executor still holds is alive, and
\* what stays in the guest is reported.
LifeInv(e) ==
    /\ Alive(e) => /\ e.job /\ e.member /\ e.child # "outside"
                   /\ e.step \in {"wait", "close", "restricted_wait"}
    /\ e.step \in {"resume", "wait", "close", "restricted_wait"} => e.job /\ e.member
    /\ e.outcome \in Executed => e.step \in {"close", "join", "finish", "answered"}
    /\ e.outcome = "completed" => e.root = "exited"
    /\ e.step \in {"observe", "restricted", "restricted_wait"} => ~e.account
    /\ e.step = "finish" => (e.account => "account" \in e.reported)
    /\ e.step = "answered" /\ e.outcome \in Executed =>
          /\ e.account => "account" \in e.reported
          /\ e.capture => "capture" \in e.reported

Unannounced == volume.status["Completed"].seq = 0

Fresh ==
    /\ launches = 0
    /\ volume.result = NoResult /\ Unannounced
    /\ \A b \in Agents : exec[b] = NoExecution

\* The claim is held by one agent at most, for ever, and nothing happens without it.
HoldInv ==
    /\ \A a \in Agents : pc[a] \in ClaimedSteps => volume.claim
    /\ \A a, b \in Agents : pc[a] \in ClaimedSteps /\ pc[b] \in ClaimedSteps => a = b
    /\ ~volume.claim => Fresh

\* What the holder of the claim has done, step by step.
PhaseInv(a) ==
    /\ pc[a] \in Preparing => Fresh
    /\ pc[a] \in Unanswered => volume.result = NoResult /\ Unannounced
    /\ pc[a] \in Failing => Unannounced
    /\ pc[a] \in {"write_failed", "publish_failed"} => volume.evidence = "none"
    /\ pc[a] = "executing" =>
          /\ exec[a].step \in Unlaunched => launches = 0
          /\ exec[a].step \in Launched => launches = 1
    /\ pc[a] \in {"executing", "cleanup"} /\ exec[a].outcome \in Executed => launches = 1
    /\ pc[a] \in {"write_evidence", "write_result"} =>
          /\ answer[a] \in Executed /\ launches = 1
          /\ answer[a] = "completed" => exec[a].root = "exited"
    /\ pc[a] = "write_evidence" => (workspace => "workspace" \in exec[a].reported)
    /\ pc[a] \in {"write_result", "publish_completed"} => volume.evidence = "complete"
    /\ pc[a] = "publish_completed" => volume.result = answer[a]

\* What the volume says is what happened.
VolumeInv ==
    /\ launches <= 1
    /\ volume.result \in Executed => launches = 1
    /\ volume.result = "completed" => \E a \in Agents : exec[a].root = "exited"
    /\ volume.result = "cancelled" => launches = 0
    /\ volume.result = "agent_failed" => volume.evidence = "none"
    /\ CompletedBacked

OverInv ==
    /\ vm = "off" => \A a \in Agents : pc[a] = "exited" /\ ~Alive(exec[a])
    /\ verdict # NoResult => vm = "off"
    /\ AcceptedIsTrue

AgentInv ==
    /\ Shape /\ HoldInv /\ VolumeInv /\ OverInv
    /\ \A a \in Agents : LifeInv(exec[a]) /\ PhaseInv(a)

-----------------------------------------------------------------------------
\* Executions.

Roots == {"none", "suspended", "running", "exited", "killed"}
Children == {"none", "inside", "outside"}
Ends == {"none", "completed", "timed_out", "error"}
Reportable == SUBSET {"account", "capture", "workspace"}

\* An execution stays one when a field is changed.
LEMMA Fields ==
  ASSUME NEW e \in Execution
  PROVE  /\ \A x \in ExecutorSteps : [e EXCEPT !.step = x] \in Execution
         /\ \A x \in BOOLEAN : /\ [e EXCEPT !.job = x] \in Execution
                               /\ [e EXCEPT !.member = x] \in Execution
                               /\ [e EXCEPT !.account = x] \in Execution
                               /\ [e EXCEPT !.capture = x] \in Execution
         /\ \A x \in Roots : [e EXCEPT !.root = x] \in Execution
         /\ \A x \in Children : [e EXCEPT !.child = x] \in Execution
         /\ \A x \in Ends : [e EXCEPT !.outcome = x] \in Execution
         /\ \A x \in Reportable : [e EXCEPT !.reported = x] \in Execution
PROOF
  <1> DEFINE Bits == BOOLEAN
             Steps == ExecutorSteps
             All == [step : Steps, job : Bits, member : Bits, root : Roots, child : Children,
                     account : Bits, capture : Bits, outcome : Ends, reported : Reportable]
  <1>1. Execution = All
    BY DEF Execution, Roots, Children, Ends, Reportable
  <1> HIDE DEF Bits, Steps
  <1>2. e \in All
    BY <1>1
  <1>3. \A x \in Steps : [e EXCEPT !.step = x] \in All
    BY <1>2
  <1>4. \A x \in Bits : [e EXCEPT !.job = x] \in All /\ [e EXCEPT !.member = x] \in All
    BY <1>2
  <1>5. \A x \in Bits : [e EXCEPT !.account = x] \in All /\ [e EXCEPT !.capture = x] \in All
    BY <1>2
  <1>6. \A x \in Roots : [e EXCEPT !.root = x] \in All
    BY <1>2
  <1>7. \A x \in Children : [e EXCEPT !.child = x] \in All
    BY <1>2
  <1>8. \A x \in Ends : [e EXCEPT !.outcome = x] \in All
    BY <1>2
  <1>9. \A x \in Reportable : [e EXCEPT !.reported = x] \in All
    BY <1>2
  <1> HIDE DEF All
  <1> QED
    BY <1>1, <1>3, <1>4, <1>5, <1>6, <1>7, <1>8, <1>9 DEF Bits, Steps

LEMMA TerminatedKeeps ==
  ASSUME NEW e \in Execution, LifeInv(e)
  PROVE  /\ Terminated(e) \in Execution /\ LifeInv(Terminated(e))
         /\ Terminated(e).step = e.step /\ Terminated(e).outcome = e.outcome
         /\ e.member => Terminated(e).root # "running"
PROOF
  <1> DEFINE root == IF e.member /\ e.root \in {"suspended", "running"} THEN "killed" ELSE e.root
             child == IF e.child = "inside" THEN "none" ELSE e.child
             f == Terminated(e)
  <1>1. root \in Roots /\ child \in Children
    BY DEF Execution, Roots, Children
  <1>2. f = [e EXCEPT !.root = root, !.child = child]
    BY DEF Terminated
  <1>3. f \in Execution
    <2> HIDE DEF root, child, f
    <2> QED BY <1>1, <1>2, Fields
  <1>4. /\ f.step = e.step /\ f.job = e.job /\ f.member = e.member /\ f.account = e.account
        /\ f.capture = e.capture /\ f.outcome = e.outcome /\ f.reported = e.reported
        /\ f.root = root /\ f.child = child
    BY <1>2 DEF Execution
  <1> HIDE DEF f
  <1>5. LifeInv(f)
    BY <1>4 DEF LifeInv, Alive
  <1>6. e.member => f.root # "running"
    BY <1>4
  <1> QED BY <1>3, <1>4, <1>5, <1>6 DEF f

\* A job that is closed leaves nothing alive of a process that is in it.
LEMMA JobClosedDead ==
  ASSUME NEW e \in Execution, LifeInv(e)
  PROVE  LET closed == JobClosed(e)
         IN  /\ closed \in Execution /\ ~Alive(closed) /\ ~closed.job
             /\ closed.step = e.step /\ closed.outcome = e.outcome
             /\ closed.account = e.account /\ closed.capture = e.capture
             /\ closed.reported = e.reported
             /\ closed.root = "exited" <=> e.root = "exited"
             /\ closed.member = e.member
PROOF
  <1> DEFINE t == Terminated(e)
             f == JobClosed(e)
  <1>1. CASE ~e.job
    <2>1. f = e
      BY <1>1 DEF JobClosed
    <2>2. ~Alive(e)
      BY <1>1 DEF LifeInv
    <2> QED BY <1>1, <2>1, <2>2
  <1>2. CASE e.job
    <2>1. f = [t EXCEPT !.job = FALSE]
      BY <1>2 DEF JobClosed
    <2>2. t \in Execution
      BY TerminatedKeeps
    <2>3. /\ t.step = e.step /\ t.outcome = e.outcome /\ t.account = e.account
          /\ t.capture = e.capture /\ t.reported = e.reported /\ t.member = e.member
          /\ t.root = (IF e.member /\ e.root \in {"suspended", "running"} THEN "killed" ELSE e.root)
          /\ t.child = (IF e.child = "inside" THEN "none" ELSE e.child)
      BY DEF Terminated, Execution
    <2> HIDE DEF t
    <2>4. f \in Execution
      BY <2>1, <2>2, Fields
    <2>5. /\ f.step = t.step /\ f.outcome = t.outcome /\ f.account = t.account /\ ~f.job
          /\ f.capture = t.capture /\ f.reported = t.reported /\ f.member = t.member
          /\ f.root = t.root /\ f.child = t.child
      BY <2>1, <2>2 DEF Execution
    <2> HIDE DEF f
    <2>6. e.child \in {"none", "inside", "outside"}
      BY DEF Execution
    <2>7. ~Alive(f)
      BY <2>3, <2>5, <2>6 DEF Alive, LifeInv
    <2> QED BY <2>3, <2>4, <2>5, <2>7 DEF f
  <1> QED BY <1>1, <1>2 DEF Execution

\* Whatever an error unwinds, nothing is alive afterwards.
LEMMA UnwoundDead ==
  ASSUME NEW e \in Execution, ~Alive(JobClosed(e)), JobClosed(e) \in Execution,
         NEW r \in Unwound(e)
  PROVE  /\ r.to \in Execution /\ LifeInv(r.to)
         /\ r.to.step = "answered" /\ r.to.outcome = "error" /\ r.cost \in {0, 1}
PROOF
  <1> DEFINE closed == JobClosed(e)
             kept == closed.capture /\ ~Capturing(e)
             over == [closed EXCEPT !.step = "answered", !.outcome = "error",
                                    !.account = FALSE, !.capture = kept]
  <1> HIDE DEF closed
  <1>1. closed \in Execution /\ ~Alive(closed)
    BY DEF closed
  <1>2. kept \in BOOLEAN
    OBVIOUS
  <1> HIDE DEF kept
  <1>3. over \in Execution
    BY <1>1, <1>2, Fields DEF ExecutorSteps, Ends
  <1>4. /\ over.step = "answered" /\ over.outcome = "error"
        /\ over.root = closed.root /\ over.child = closed.child
    BY <1>1 DEF Execution
  <1> DEFINE Dead(f) == /\ f \in Execution /\ f.step = "answered" /\ f.outcome = "error"
                        /\ f.root = closed.root /\ f.child = closed.child
  <1> HIDE DEF over
  <1>5. ASSUME NEW left \in BOOLEAN
        PROVE  Dead([over EXCEPT !.account = left])
    <2>1. [over EXCEPT !.account = left] \in Execution
      BY <1>3, Fields
    <2> QED BY <1>3, <1>4, <2>1 DEF Execution
  <1>6. ASSUME NEW left \in BOOLEAN
        PROVE  Dead([over EXCEPT !.capture = left])
    <2>1. [over EXCEPT !.capture = left] \in Execution
      BY <1>3, Fields
    <2> QED BY <1>3, <1>4, <2>1 DEF Execution
  <1>7. e.account \in BOOLEAN /\ e.capture \in BOOLEAN
    BY DEF Execution
  <1>8. Dead(over)
    BY <1>3, <1>4
  <1>9. \A f : Dead(f) => LifeInv(f)
    BY <1>1 DEF LifeInv, Alive
  <1>10. Dead(r.to) /\ r.cost \in {0, 1}
    <2> HIDE DEF Dead
    <2>1. r \in {Free(over)} \cup {Fault([over EXCEPT !.account = left]) : left \in {e.account}}
                \cup {Fault([over EXCEPT !.capture = left]) : left \in {e.capture}}
      BY DEF Unwound, over, closed, kept
    <2> QED BY <2>1, <1>5, <1>6, <1>7, <1>8 DEF Free, Fault
  <1> QED BY <1>9, <1>10

LEMMA AbandonedDead ==
  ASSUME NEW e \in Execution, LifeInv(e), NEW reboot \in BOOLEAN
  PROVE  LET f == Abandoned(e, reboot)
         IN  /\ f \in Execution /\ LifeInv(f) /\ ~Alive(f)
             /\ e.root = "exited" => f.root = "exited"
             /\ e = NoExecution => f = NoExecution
PROOF
  <1> DEFINE closed == JobClosed(e)
             f == Abandoned(e, reboot)
             root == IF reboot /\ closed.root \in {"suspended", "running"} THEN "killed" ELSE closed.root
             child == IF reboot THEN "none" ELSE closed.child
             capture == closed.capture /\ ~reboot
  <1>1. closed \in Execution /\ ~Alive(closed) /\ (closed.root = "exited" <=> e.root = "exited")
    BY JobClosedDead
  <1>2. f = [closed EXCEPT !.step = "idle", !.outcome = "none", !.reported = {}, !.root = root,
                           !.child = child, !.capture = capture]
    BY DEF Abandoned
  <1> HIDE DEF closed
  <1>4. root \in Roots /\ child \in Children /\ capture \in BOOLEAN
    BY <1>1 DEF Execution, Roots, Children
  <1> HIDE DEF f
  <1>5. f \in Execution
    <2> HIDE DEF root, child, capture
    <2> QED BY <1>1, <1>2, <1>4, Fields DEF ExecutorSteps, Ends, Reportable
  <1>6. /\ f.step = "idle" /\ f.outcome = "none" /\ f.root = root /\ f.child = child
    BY <1>1, <1>2 DEF Execution
  <1>7. LifeInv(f) /\ ~Alive(f) /\ (e.root = "exited" => f.root = "exited")
    BY <1>1, <1>6 DEF LifeInv, Alive
  <1>8. ASSUME e = NoExecution
        PROVE  f = NoExecution
    <2>1. closed = NoExecution
      BY <1>8 DEF closed, JobClosed, NoExecution
    <2>2. /\ f.step = "idle" /\ f.job = FALSE /\ f.member = FALSE /\ f.root = "none"
          /\ f.child = "none" /\ f.account = FALSE /\ f.capture = FALSE
          /\ f.outcome = "none" /\ f.reported = {}
      BY <2>1, <1>2 DEF NoExecution
    <2>3. f = [step |-> f.step, job |-> f.job, member |-> f.member, root |-> f.root,
               child |-> f.child, account |-> f.account, capture |-> f.capture,
               outcome |-> f.outcome, reported |-> f.reported]
      BY <1>5 DEF Execution
    <2> QED BY <2>2, <2>3 DEF NoExecution
  <1> QED BY <1>5, <1>7, <1>8 DEF f

LEMMA FreshExecution == NoExecution \in Execution /\ LifeInv(NoExecution) /\ ~Alive(NoExecution)
  BY DEF NoExecution, Execution, LifeInv, Alive, ExecutorSteps

\* What a step of an executor can do: from e to f, while "more" processes are let run.
Stepped(e, f, more) ==
    /\ f \in Execution /\ LifeInv(f)
    /\ f.step \in Unlaunched => e.step \in Unlaunched
    /\ f.step \in Launched => e.step \in Launched \/ more = 1
    /\ more = 1 => e.step \in Unlaunched /\ f.step \in Launched
    /\ f.outcome \in Executed => e.step \in Launched

Advance(a) ==
    /\ \E more \in {0, 1} : launches' = launches + more /\ Stepped(exec[a], exec'[a], more)
    /\ exec' \in [Agents -> Execution]
    /\ \A b \in Agents \ {a} : exec'[b] = exec[b]
    /\ faults' \in 0..MaxFaults /\ faults <= faults'

LEMMA YieldsAdvance ==
  ASSUME Shape, NEW a \in Agents, NEW here, NEW results, NEW more \in {0, 1},
         Yields(a, here, results), launches' = launches + more,
         exec[a].step = here =>
            \A r \in results : Stepped(exec[a], r.to, more) /\ r.cost \in {0, 1}
  PROVE  Advance(a)
PROOF
  <1>1. PICK r \in results : Spend(r.cost) /\ exec' = [exec EXCEPT ![a] = r.to]
    BY DEF Yields
  <1>2. Stepped(exec[a], r.to, more) /\ r.cost \in {0, 1}
    BY <1>1 DEF Yields
  <1>3. r.to \in Execution /\ exec \in [Agents -> Execution] /\ faults \in 0..MaxFaults
    BY <1>2 DEF Stepped, Shape
  <1>4. exec'[a] = r.to /\ exec' \in [Agents -> Execution] /\ \A b \in Agents \ {a} : exec'[b] = exec[b]
    BY <1>1, <1>3
  <1>5. faults' \in 0..MaxFaults /\ faults <= faults'
    BY <1>1, <1>2, <1>3 DEF Spend
  <1> QED BY <1>2, <1>4, <1>5 DEF Advance

LEMMA UnwoundAdvance ==
  ASSUME NEW e \in Execution, NEW f \in Execution, ~Alive(JobClosed(f)), JobClosed(f) \in Execution
  PROVE  \A r \in Unwound(f) : Stepped(e, r.to, 0) /\ r.cost \in {0, 1}
  BY UnwoundDead DEF Stepped, Unlaunched, Launched

\* Executors of the identity and its process.
LEMMA LaunchAdvance ==
  ASSUME Shape, NEW a \in Agents, LifeInv(exec[a]),
         Observe(a) \/ Identify(a) \/ CreateTarget(a) \/ Assign(a) \/ Resume(a) \/ StartRestricted(a)
  PROVE  Advance(a)
PROOF
  <1> DEFINE e == exec[a]
  <1>e. e \in Execution /\ LifeInv(e) /\ launches \in Nat
    BY DEF Shape
  <1>l. UNCHANGED launches => launches' = launches + 0
    BY <1>e
  <1>f. \A f, more : Free(f).to = f /\ Fault(f).to = f /\ Free(f).cost = 0 /\ Fault(f).cost = 1
    BY DEF Free, Fault
  <1>u. \A r \in Unwound(e) : Stepped(e, r.to, 0) /\ r.cost \in {0, 1}
    BY <1>e, JobClosedDead, UnwoundAdvance
  <1> HIDE DEF e
  <1>1. CASE Observe(a)
    <2>1. PICK profile \in {"restricted", "identify"} :
             Yields(a, "observe",
                LET next == [e EXCEPT !.step = profile]
                    unconfirmed == [next EXCEPT !.reported = @ \cup {"capture"}]
                IN  {Free([next EXCEPT !.capture = TRUE]), Free(unconfirmed),
                     Fault([unconfirmed EXCEPT !.capture = TRUE])})
      BY <1>1 DEF Observe, e
    <2> DEFINE next == [e EXCEPT !.step = profile]
               unconfirmed == [next EXCEPT !.reported = @ \cup {"capture"}]
               Good(f) == /\ f \in Execution /\ f.step = profile /\ f.root = e.root
                          /\ f.child = e.child /\ f.account = e.account /\ f.job = e.job
                          /\ f.member = e.member /\ f.outcome = e.outcome
    <2>2. next \in Execution
      BY <1>e, Fields DEF ExecutorSteps
    <2>3. Good(next)
      BY <2>2, <1>e DEF Execution
    <2> HIDE DEF next
    <2>4. unconfirmed \in Execution
      <3>1. next.reported \cup {"capture"} \in Reportable
        BY <2>2 DEF Execution, Reportable
      <3> QED BY <2>2, <3>1, Fields
    <2>5. Good(unconfirmed)
      BY <2>2, <2>3, <2>4 DEF Execution
    <2> HIDE DEF unconfirmed
    <2>6. \A f : Good(f) => Good([f EXCEPT !.capture = TRUE])
      <3> SUFFICES ASSUME NEW f, Good(f) PROVE Good([f EXCEPT !.capture = TRUE])
        OBVIOUS
      <3>1. [f EXCEPT !.capture = TRUE] \in Execution
        BY Fields
      <3> QED BY <3>1 DEF Execution
    <2>7. \A f : e.step = "observe" /\ Good(f) => Stepped(e, f, 0)
      BY <1>e DEF Stepped, LifeInv, Alive, Unlaunched, Launched
    <2> HIDE DEF Good
    <2>8. e.step = "observe" =>
             \A r \in {Free([next EXCEPT !.capture = TRUE]), Free(unconfirmed),
                       Fault([unconfirmed EXCEPT !.capture = TRUE])} :
                Stepped(e, r.to, 0) /\ r.cost \in {0, 1}
      BY <2>3, <2>5, <2>6, <2>7, <1>f
    <2> QED BY YieldsAdvance, <2>1, <2>8, <1>l, <1>1 DEF Observe, next, unconfirmed, e
  <1>2. CASE Identify(a)
    <2>1. PICK temporary \in BOOLEAN :
             Yields(a, "identify",
                LET ready == [e EXCEPT !.account = temporary]
                IN  {Free([ready EXCEPT !.step = "create"])} \cup Unwound(ready))
      BY <1>2 DEF Identify, e
    <2> DEFINE ready == [e EXCEPT !.account = temporary]
               f == [ready EXCEPT !.step = "create"]
    <2>2. ready \in Execution
      BY <1>e, Fields
    <2>3. /\ ready.step = e.step /\ ready.root = e.root /\ ready.child = e.child
          /\ ready.job = e.job /\ ready.member = e.member /\ ready.outcome = e.outcome
      BY <1>e DEF Execution
    <2> HIDE DEF ready
    <2>4. f \in Execution
      BY <2>2, Fields DEF ExecutorSteps
    <2>5. /\ f.step = "create" /\ f.root = e.root /\ f.child = e.child
          /\ f.job = e.job /\ f.member = e.member /\ f.outcome = e.outcome
      BY <2>2, <2>3 DEF Execution
    <2> HIDE DEF f
    <2>6. e.step = "identify" => Stepped(e, f, 0) /\ LifeInv(ready)
      BY <1>e, <2>3, <2>4, <2>5 DEF Stepped, LifeInv, Alive, Unlaunched, Launched
    <2>7. e.step = "identify" => \A r \in Unwound(ready) : Stepped(e, r.to, 0) /\ r.cost \in {0, 1}
      BY <1>e, <2>2, <2>6, JobClosedDead, UnwoundAdvance
    <2>8. e.step = "identify" =>
             \A r \in {Free(f)} \cup Unwound(ready) : Stepped(e, r.to, 0) /\ r.cost \in {0, 1}
      BY <2>6, <2>7, <1>f
    <2> QED BY YieldsAdvance, <2>1, <2>8, <1>l, <1>2 DEF Identify, f, ready, e
  <1>3. CASE CreateTarget(a)
    <2> DEFINE f == [e EXCEPT !.root = "suspended", !.step = "assign"]
    <2>1. Yields(a, "create", {Free(f)} \cup Unwound(e)) /\ UNCHANGED launches
      BY <1>3 DEF CreateTarget, e
    <2>2. f \in Execution
      BY <1>e, Fields DEF ExecutorSteps, Roots
    <2>3. /\ f.step = "assign" /\ f.root = "suspended" /\ f.child = e.child
          /\ f.job = e.job /\ f.member = e.member /\ f.outcome = e.outcome
      BY <1>e DEF Execution
    <2> HIDE DEF f
    <2>4. e.step = "create" => Stepped(e, f, 0)
      BY <1>e, <2>2, <2>3 DEF Stepped, LifeInv, Alive, Unlaunched, Launched
    <2>5. e.step = "create" =>
             \A r \in {Free(f)} \cup Unwound(e) : Stepped(e, r.to, 0) /\ r.cost \in {0, 1}
      BY <1>u, <1>f, <2>4
    <2> QED BY YieldsAdvance, <2>1, <2>5, <1>l DEF e
  <1>4. CASE Assign(a)
    <2> DEFINE f == [e EXCEPT !.job = TRUE, !.member = TRUE, !.step = "resume"]
    <2>1. Yields(a, "assign", {Free(f)} \cup Unwound(e)) /\ UNCHANGED launches
      BY <1>4 DEF Assign, e
    <2>2. f \in Execution
      BY <1>e, Fields DEF ExecutorSteps
    <2>3. /\ f.step = "resume" /\ f.root = e.root /\ f.child = e.child
          /\ f.job /\ f.member /\ f.outcome = e.outcome
      BY <1>e DEF Execution
    <2> HIDE DEF f
    <2>4. e.step = "assign" => Stepped(e, f, 0)
      BY <1>e, <2>2, <2>3 DEF Stepped, LifeInv, Alive, Unlaunched, Launched
    <2>5. e.step = "assign" =>
             \A r \in {Free(f)} \cup Unwound(e) : Stepped(e, r.to, 0) /\ r.cost \in {0, 1}
      BY <1>u, <1>f, <2>4
    <2> QED BY YieldsAdvance, <2>1, <2>5, <1>l DEF e
  <1>5. CASE Resume(a)
    <2> DEFINE f == [e EXCEPT !.root = "running", !.step = "wait"]
    <2>1. CASE Yields(a, "resume", {Free(f)}) /\ launches' = launches + 1
      <3>1. f \in Execution
        BY <1>e, Fields DEF ExecutorSteps, Roots
      <3>2. /\ f.step = "wait" /\ f.root = "running" /\ f.child = e.child
            /\ f.job = e.job /\ f.member = e.member /\ f.outcome = e.outcome
        BY <1>e DEF Execution
      <3>3. e.step = "resume" => Stepped(e, f, 1)
        <4> HIDE DEF f
        <4> QED BY <1>e, <3>1, <3>2 DEF Stepped, LifeInv, Alive, Unlaunched, Launched
      <3>4. e.step = "resume" => \A r \in {Free(f)} : Stepped(e, r.to, 1) /\ r.cost \in {0, 1}
        BY <1>f, <3>3
      <3> QED BY YieldsAdvance, <2>1, <3>4 DEF e
    <2>2. CASE Yields(a, "resume", Unwound(Terminated(e))) /\ UNCHANGED launches
      <3>1. Terminated(e) \in Execution /\ LifeInv(Terminated(e))
        BY <1>e, TerminatedKeeps
      <3>2. \A r \in Unwound(Terminated(e)) : Stepped(e, r.to, 0) /\ r.cost \in {0, 1}
        BY <1>e, <3>1, JobClosedDead, UnwoundAdvance
      <3> QED BY YieldsAdvance, <2>2, <3>2, <1>l DEF e
    <2> QED BY <2>1, <2>2, <1>5 DEF Resume, e
  <1>6. CASE StartRestricted(a)
    <2> DEFINE f == [e EXCEPT !.job = TRUE, !.member = TRUE, !.root = "running",
                              !.step = "restricted_wait"]
    <2>1. CASE Yields(a, "restricted", {Free(f)}) /\ launches' = launches + 1
      <3>1. f \in Execution
        BY <1>e, Fields DEF ExecutorSteps, Roots
      <3>2. /\ f.step = "restricted_wait" /\ f.root = "running" /\ f.child = e.child
            /\ f.job /\ f.member /\ f.outcome = e.outcome /\ f.account = e.account
        BY <1>e DEF Execution
      <3>3. e.step = "restricted" => Stepped(e, f, 1)
        <4> HIDE DEF f
        <4> QED BY <1>e, <3>1, <3>2 DEF Stepped, LifeInv, Alive, Unlaunched, Launched
      <3>4. e.step = "restricted" => \A r \in {Free(f)} : Stepped(e, r.to, 1) /\ r.cost \in {0, 1}
        BY <1>f, <3>3
      <3> QED BY YieldsAdvance, <2>1, <3>4 DEF e
    <2>2. CASE Yields(a, "restricted", Unwound(e)) /\ UNCHANGED launches
      BY YieldsAdvance, <2>2, <1>u, <1>l DEF e
    <2> QED BY <2>1, <2>2, <1>6 DEF StartRestricted, e
  <1> QED BY <1>1, <1>2, <1>3, <1>4, <1>5, <1>6

\* The end of an execution.
LEMMA EndAdvance ==
  ASSUME Shape, NEW a \in Agents, LifeInv(exec[a]),
         Wait(a) \/ Close(a) \/ Join(a) \/ FinishRestricted(a) \/ FinishObserving(a)
  PROVE  Advance(a)
PROOF
  <1> DEFINE e == exec[a]
             closed == JobClosed(e)
  <1>e. e \in Execution /\ LifeInv(e) /\ launches \in Nat
    BY DEF Shape
  <1>l. UNCHANGED launches => launches' = launches + 0
    BY <1>e
  <1>f. \A f : Free(f).to = f /\ Fault(f).to = f /\ Free(f).cost = 0 /\ Fault(f).cost = 1
    BY DEF Free, Fault
  <1>u. \A r \in Unwound(e) : Stepped(e, r.to, 0) /\ r.cost \in {0, 1}
    BY <1>e, JobClosedDead, UnwoundAdvance
  <1>c. /\ closed \in Execution /\ ~Alive(closed) /\ ~closed.job /\ closed.step = e.step
        /\ closed.outcome = e.outcome /\ closed.account = e.account /\ closed.capture = e.capture
        /\ closed.reported = e.reported /\ (closed.root = "exited" <=> e.root = "exited")
    BY <1>e, JobClosedDead
  <1> HIDE DEF e
  <1>1. CASE Wait(a)
    <2> DEFINE stopped == Terminated(e)
               f == [e EXCEPT !.outcome = "completed", !.step = "close"]
               g == [stopped EXCEPT !.outcome = "timed_out", !.step = "close"]
    <2>s. stopped \in Execution /\ LifeInv(stopped) /\ stopped.step = e.step
      BY <1>e, TerminatedKeeps
    <2> HIDE DEF stopped
    <2>1. CASE e.root = "exited" /\ Yields(a, "wait", {Free(f)}) /\ UNCHANGED launches
      <3>1. f \in Execution
        BY <1>e, Fields DEF ExecutorSteps, Ends
      <3>2. /\ f.step = "close" /\ f.outcome = "completed" /\ f.root = e.root /\ f.child = e.child
            /\ f.job = e.job /\ f.member = e.member
        BY <1>e DEF Execution
      <3>3. e.step = "wait" => Stepped(e, f, 0)
        <4> HIDE DEF f
        <4> QED BY <1>e, <2>1, <3>1, <3>2 DEF Stepped, LifeInv, Alive, Unlaunched, Launched
      <3>4. e.step = "wait" => \A r \in {Free(f)} : Stepped(e, r.to, 0) /\ r.cost \in {0, 1}
        BY <1>f, <3>3
      <3> QED BY YieldsAdvance, <2>1, <3>4, <1>l DEF e
    <2>2. CASE Yields(a, "wait", {Free(g)}) /\ UNCHANGED launches
      <3>1. g \in Execution
        BY <2>s, Fields DEF ExecutorSteps, Ends
      <3>2. /\ g.step = "close" /\ g.outcome = "timed_out" /\ g.root = stopped.root
            /\ g.child = stopped.child /\ g.job = stopped.job /\ g.member = stopped.member
        BY <2>s DEF Execution
      <3>3. e.step = "wait" => Stepped(e, g, 0)
        <4> HIDE DEF g
        <4> QED BY <2>s, <3>1, <3>2 DEF Stepped, LifeInv, Alive, Unlaunched, Launched
      <3>4. e.step = "wait" => \A r \in {Free(g)} : Stepped(e, r.to, 0) /\ r.cost \in {0, 1}
        BY <1>f, <3>3
      <3> QED BY YieldsAdvance, <2>2, <3>4, <1>l DEF e
    <2>3. CASE Yields(a, "wait", Unwound(e)) /\ UNCHANGED launches
      BY YieldsAdvance, <2>3, <1>u, <1>l DEF e
    <2> QED BY <2>1, <2>2, <2>3, <1>1 DEF Wait, stopped, e
  <1> HIDE DEF closed
  <1>2. CASE Close(a)
    <2> DEFINE f == [closed EXCEPT !.step = "join"]
    <2>1. Yields(a, "close", {Free(f)}) /\ UNCHANGED launches
      BY <1>2 DEF Close, closed, e
    <2>2. f \in Execution
      BY <1>c, Fields DEF ExecutorSteps
    <2>3. /\ f.step = "join" /\ f.root = closed.root /\ f.child = closed.child
          /\ f.outcome = closed.outcome
      BY <1>c DEF Execution
    <2> HIDE DEF f
    <2>4. e.step = "close" => Stepped(e, f, 0)
      BY <1>e, <1>c, <2>2, <2>3 DEF Stepped, LifeInv, Alive, Unlaunched, Launched
    <2>5. e.step = "close" => \A r \in {Free(f)} : Stepped(e, r.to, 0) /\ r.cost \in {0, 1}
      BY <1>f, <2>4
    <2> QED BY YieldsAdvance, <2>1, <2>5, <1>l DEF e
  <1>3. CASE Join(a)
    <2> DEFINE joined == [closed EXCEPT !.step = "finish"]
               f == [joined EXCEPT !.account = FALSE]
               g(left) == [joined EXCEPT !.account = left, !.reported = @ \cup {"account"}]
               results == {Free(f)} \cup
                          (IF e.account THEN {Fault(g(left)) : left \in BOOLEAN} ELSE {})
    <2>1. Yields(a, "join", results) /\ UNCHANGED launches
      BY <1>3 DEF Join, closed, e
    <2>2. joined \in Execution
      BY <1>c, Fields DEF ExecutorSteps
    <2>3. /\ joined.step = "finish" /\ joined.root = closed.root /\ joined.child = closed.child
          /\ joined.outcome = closed.outcome
      BY <1>c DEF Execution
    <2> HIDE DEF joined
    <2>4. f \in Execution
      BY <2>2, Fields
    <2>5. /\ f.step = "finish" /\ f.root = closed.root /\ f.child = closed.child
          /\ f.outcome = closed.outcome /\ ~f.account
      BY <2>2, <2>3 DEF Execution
    <2>6. ASSUME NEW left \in BOOLEAN
          PROVE  /\ g(left) \in Execution
                 /\ g(left).step = "finish" /\ g(left).root = closed.root
                 /\ g(left).child = closed.child /\ g(left).outcome = closed.outcome
                 /\ "account" \in g(left).reported
      <3>1. joined.reported \cup {"account"} \in Reportable
        BY <2>2 DEF Execution, Reportable
      <3>2. g(left) \in Execution
        BY <2>2, <3>1, Fields
      <3> QED BY <2>2, <2>3, <3>2 DEF Execution
    <2> HIDE DEF f, g
    <2>7. e.step = "join" => Stepped(e, f, 0) /\ \A left \in BOOLEAN : Stepped(e, g(left), 0)
      BY <1>e, <1>c, <2>4, <2>5, <2>6 DEF Stepped, LifeInv, Alive, Unlaunched, Launched
    <2>8. e.step = "join" => \A r \in results : Stepped(e, r.to, 0) /\ r.cost \in {0, 1}
      BY <1>f, <2>7
    <2> HIDE DEF results
    <2> QED BY YieldsAdvance, <2>1, <2>8, <1>l DEF e
  <1>4. CASE FinishRestricted(a)
    <2> DEFINE f == [closed EXCEPT !.outcome = "completed", !.step = "finish"]
               g == [closed EXCEPT !.outcome = "timed_out", !.step = "finish"]
    <2>f. f \in Execution /\ g \in Execution
      BY <1>c, Fields DEF ExecutorSteps, Ends
    <2>g. /\ f.step = "finish" /\ f.root = closed.root /\ f.child = closed.child
          /\ f.outcome = "completed" /\ f.account = closed.account
          /\ g.step = "finish" /\ g.root = closed.root /\ g.child = closed.child
          /\ g.outcome = "timed_out" /\ g.account = closed.account
      BY <1>c DEF Execution
    <2> HIDE DEF f, g
    <2>1. CASE e.root = "exited" /\ Yields(a, "restricted_wait", {Free(f)}) /\ UNCHANGED launches
      <3>1. e.step = "restricted_wait" => Stepped(e, f, 0)
        BY <1>e, <1>c, <2>f, <2>g, <2>1 DEF Stepped, LifeInv, Alive, Unlaunched, Launched
      <3>2. e.step = "restricted_wait" =>
               \A r \in {Free(f)} : Stepped(e, r.to, 0) /\ r.cost \in {0, 1}
        BY <1>f, <3>1
      <3> QED BY YieldsAdvance, <2>1, <3>2, <1>l DEF e
    <2>2. CASE Yields(a, "restricted_wait", {Free(g)} \cup Unwound(closed)) /\ UNCHANGED launches
      <3>1. e.step = "restricted_wait" => Stepped(e, g, 0)
        BY <1>e, <1>c, <2>f, <2>g DEF Stepped, LifeInv, Alive, Unlaunched, Launched
      <3>2. JobClosed(closed) = closed
        BY <1>c DEF JobClosed
      <3>3. \A r \in Unwound(closed) : Stepped(e, r.to, 0) /\ r.cost \in {0, 1}
        BY <1>e, <1>c, <3>2, UnwoundAdvance
      <3>4. e.step = "restricted_wait" =>
               \A r \in {Free(g)} \cup Unwound(closed) : Stepped(e, r.to, 0) /\ r.cost \in {0, 1}
        BY <1>f, <3>1, <3>3
      <3> QED BY YieldsAdvance, <2>2, <3>4, <1>l DEF e
    <2> QED BY <2>1, <2>2, <1>4 DEF FinishRestricted, closed, f, g, e
  <1>5. CASE FinishObserving(a)
    <2> DEFINE done == [e EXCEPT !.step = "answered"]
               f == [done EXCEPT !.capture = FALSE]
               g(left) == [done EXCEPT !.capture = left, !.reported = @ \cup {"capture"}]
               results == IF Capturing(e)
                          THEN {Free(f)} \cup {Fault(g(left)) : left \in BOOLEAN}
                          ELSE {Free(done)}
               Good(h) == /\ h \in Execution /\ h.step = "answered" /\ h.root = e.root
                          /\ h.child = e.child /\ h.outcome = e.outcome
                          /\ h.account = e.account /\ e.reported \subseteq h.reported
                          /\ h.capture => "capture" \in h.reported
    <2>1. Yields(a, "finish", results) /\ UNCHANGED launches
      BY <1>5 DEF FinishObserving, e
    <2>2. done \in Execution
      BY <1>e, Fields DEF ExecutorSteps
    <2>3. /\ done.step = "answered" /\ done.root = e.root /\ done.child = e.child
          /\ done.outcome = e.outcome /\ done.account = e.account
          /\ done.reported = e.reported /\ done.capture = e.capture
      BY <1>e DEF Execution
    <2> HIDE DEF done
    <2>4. f \in Execution
      BY <2>2, Fields
    <2>5. Good(f)
      BY <2>2, <2>3, <2>4 DEF Execution
    <2>6. ASSUME NEW left \in BOOLEAN
          PROVE  Good(g(left))
      <3>1. done.reported \cup {"capture"} \in Reportable
        BY <2>2 DEF Execution, Reportable
      <3>2. g(left) \in Execution
        BY <2>2, <3>1, Fields
      <3>3. /\ g(left).step = "answered" /\ g(left).root = e.root /\ g(left).child = e.child
            /\ g(left).outcome = e.outcome /\ g(left).account = e.account
            /\ g(left).reported = e.reported \cup {"capture"}
        BY <2>2, <2>3 DEF Execution
      <3> QED BY <3>2, <3>3
    <2>7. ~Capturing(e) => Good(done)
      BY <2>2, <2>3 DEF Capturing
    <2>8. \A h : e.step = "finish" /\ Good(h) => Stepped(e, h, 0)
      BY <1>e DEF Stepped, LifeInv, Alive, Unlaunched, Launched
    <2> HIDE DEF f, g, Good
    <2>9. e.step = "finish" => \A r \in results : Stepped(e, r.to, 0) /\ r.cost \in {0, 1}
      BY <1>f, <2>5, <2>6, <2>7, <2>8
    <2> HIDE DEF results
    <2> QED BY YieldsAdvance, <2>1, <2>9, <1>l DEF e
  <1> QED BY <1>1, <1>2, <1>3, <1>4, <1>5

LEMMA ExecutorAdvance ==
  ASSUME Shape, NEW a \in Agents, LifeInv(exec[a]), Executor(a)
  PROVE  Advance(a)
  BY LaunchAdvance, EndAdvance DEF Executor

\* What the target does to its execution.
LEMMA TargetAdvance ==
  ASSUME Shape, NEW a \in Agents, LifeInv(exec[a]), Target(a)
  PROVE  /\ exec' \in [Agents -> Execution] /\ UNCHANGED <<launches, faults>>
         /\ \A b \in Agents \ {a} : exec'[b] = exec[b]
         /\ LifeInv(exec'[a]) /\ exec[a] # NoExecution
         /\ exec'[a].step = exec[a].step /\ exec'[a].outcome = exec[a].outcome
         /\ exec'[a].reported = exec[a].reported
         /\ exec[a].root = "exited" => exec'[a].root = "exited"
         /\ Alive(exec[a])
PROOF
  <1> DEFINE e == exec[a]
             f == exec'[a]
  <1>e. e \in Execution /\ LifeInv(e) /\ exec \in [Agents -> Execution]
    BY DEF Shape
  <1>1. PICK g \in {[e EXCEPT !.child = IF e.member THEN "inside" ELSE "outside"],
                    [e EXCEPT !.root = "exited"], [e EXCEPT !.child = "none"]} :
           /\ exec' = [exec EXCEPT ![a] = g]
           /\ \/ /\ g = [e EXCEPT !.child = IF e.member THEN "inside" ELSE "outside"]
                 /\ e.root = "running"
              \/ g = [e EXCEPT !.root = "exited"] /\ e.root = "running"
              \/ g = [e EXCEPT !.child = "none"] /\ e.child # "none"
    BY DEF Target, TargetSpawns, TargetExits, ChildExits
  <1>2. Alive(e) /\ UNCHANGED <<launches, faults>>
    BY <1>1 DEF Alive, Target, TargetSpawns, TargetExits, ChildExits
  <1>3. g \in Execution
    <2>1. (IF e.member THEN "inside" ELSE "outside") \in Children
      BY DEF Children
    <2> HIDE DEF e
    <2> QED BY <1>e, <1>1, <2>1, Fields DEF Roots, Children
  <1>4. /\ g.step = e.step /\ g.outcome = e.outcome /\ g.reported = e.reported
        /\ g.job = e.job /\ g.member = e.member /\ g.account = e.account /\ g.capture = e.capture
        /\ g.child \in {e.child, "none", IF e.member THEN "inside" ELSE "outside"}
        /\ e.root = "exited" => g.root = "exited"
    BY <1>e, <1>1 DEF Execution
  <1>5. f = g /\ exec' \in [Agents -> Execution] /\ \A b \in Agents \ {a} : exec'[b] = exec[b]
    BY <1>e, <1>1, <1>3
  <1> HIDE DEF e, f
  <1>6. LifeInv(g)
    BY <1>e, <1>2, <1>4 DEF LifeInv
  <1>7. e # NoExecution
    BY <1>2, FreshExecution
  <1> QED BY <1>2, <1>4, <1>5, <1>6, <1>7 DEF e, f

-----------------------------------------------------------------------------
\* Records.

\* Any set of records on a volume has a last one.
HasLast(seq, records) ==
    records = {} \/ \E t \in records : \A s \in records : seq[s] <= seq[t]

LEMMA OneRecordMore ==
  ASSUME NEW seq \in [ProtocolStates -> Nat], NEW records \in SUBSET ProtocolStates,
         NEW some \in SUBSET ProtocolStates, NEW x \in ProtocolStates,
         HasLast(seq, records \cap some)
  PROVE  HasLast(seq, records \cap (some \cup {x}))
PROOF
  <1>1. CASE x \notin records
    <2>1. records \cap (some \cup {x}) = records \cap some
      BY <1>1
    <2> QED BY <2>1
  <1>2. CASE x \in records /\ records \cap some = {}
    BY <1>2 DEF HasLast
  <1>3. CASE x \in records /\ records \cap some # {}
    <2>1. PICK t \in records \cap some : \A s \in records \cap some : seq[s] <= seq[t]
      BY <1>3 DEF HasLast
    <2>2. CASE seq[x] <= seq[t]
      BY <2>1, <2>2 DEF HasLast
    <2>3. CASE ~(seq[x] <= seq[t])
      BY <1>3, <2>1, <2>3 DEF HasLast
    <2> QED BY <2>2, <2>3
  <1> QED BY <1>1, <1>2, <1>3

LEMMA LastExists ==
  ASSUME NEW seq \in [ProtocolStates -> Nat], NEW records \in SUBSET ProtocolStates
  PROVE  HasLast(seq, records)
PROOF
  <1> USE DEF ProtocolStates, HostStates, GuestStates
  <1> DEFINE P(some) == HasLast(seq, records \cap some)
             S0 == {}
             S1 == S0 \cup {"HostReady"}
             S2 == S1 \cup {"RequestWritten"}
             S3 == S2 \cup {"StartAllowed"}
             S4 == S3 \cup {"CancelRequested"}
             S5 == S4 \cup {"GuestReady"}
             S6 == S5 \cup {"Running"}
             S7 == S6 \cup {"Completed"}
             S8 == S7 \cup {"Failed"}
             S9 == S8 \cup {"ShutdownReady"}
  <1>0. /\ P(S0)
        /\ \A some \in SUBSET ProtocolStates, x \in ProtocolStates : P(some) => P(some \cup {x})
    <2>1. P(S0)
      BY DEF HasLast
    <2> QED BY <2>1, OneRecordMore
  <1>1. S1 \in SUBSET ProtocolStates /\ P(S1)
    <2> HIDE DEF P
    <2> QED BY <1>0
  <1>2. S2 \in SUBSET ProtocolStates /\ P(S2)
    <2> HIDE DEF P
    <2> QED BY <1>0, <1>1
  <1>3. S3 \in SUBSET ProtocolStates /\ P(S3)
    <2> HIDE DEF P
    <2> QED BY <1>0, <1>2
  <1>4. S4 \in SUBSET ProtocolStates /\ P(S4)
    <2> HIDE DEF P
    <2> QED BY <1>0, <1>3
  <1>5. S5 \in SUBSET ProtocolStates /\ P(S5)
    <2> HIDE DEF P
    <2> QED BY <1>0, <1>4
  <1>6. S6 \in SUBSET ProtocolStates /\ P(S6)
    <2> HIDE DEF P
    <2> QED BY <1>0, <1>5
  <1>7. S7 \in SUBSET ProtocolStates /\ P(S7)
    <2> HIDE DEF P
    <2> QED BY <1>0, <1>6
  <1>8. S8 \in SUBSET ProtocolStates /\ P(S8)
    <2> HIDE DEF P
    <2> QED BY <1>0, <1>7
  <1>9. S9 \in SUBSET ProtocolStates /\ P(S9)
    <2> HIDE DEF P
    <2> QED BY <1>0, <1>8
  <1> QED
    <2>1. records \cap S9 = records
      OBVIOUS
    <2> QED BY <1>9, <2>1

LEMMA LastChosen ==
  ASSUME Shape, NEW records \in SUBSET ProtocolStates, records # {}
  PROVE  LET n == CHOOSE n \in {volume.status[s].seq : s \in records} :
                     \A s \in records : volume.status[s].seq <= n
         IN  /\ n \in Nat /\ n \in {volume.status[s].seq : s \in records}
             /\ \A s \in records : volume.status[s].seq <= n
PROOF
  <1> DEFINE seq == [s \in ProtocolStates |-> volume.status[s].seq]
  <1>1. seq \in [ProtocolStates -> Nat]
    BY DEF Shape, VolumeShape
  <1>2. \E n \in {seq[s] : s \in records} : \A s \in records : seq[s] <= n
    BY <1>1, LastExists DEF HasLast
  <1>3. \A s \in records : seq[s] = volume.status[s].seq
    OBVIOUS
  <1>4. {seq[s] : s \in records} = {volume.status[s].seq : s \in records}
    BY <1>3
  <1>5. {volume.status[s].seq : s \in records} \subseteq Nat
    BY <1>1, <1>4
  <1>6. \E n \in {volume.status[s].seq : s \in records} :
            \A s \in records : volume.status[s].seq <= n
    BY <1>2, <1>3, <1>4
  <1> QED BY <1>5, <1>6

\* What an agent has observed stays well formed.
LEMMA ObservesTyped ==
  ASSUME Shape, NEW a \in Agents, NEW records \in SUBSET ProtocolStates,
         \/ UNCHANGED <<seen, last>>
         \/ /\ seen' = [seen EXCEPT ![a] = @ \cup records]
            /\ last' = [last EXCEPT ![a] =
                          IF records = {} THEN @
                          ELSE CHOOSE n \in {volume.status[s].seq : s \in records} :
                                 \A s \in records : volume.status[s].seq <= n]
  PROVE  seen' \in [Agents -> SUBSET ProtocolStates] /\ last' \in [Agents -> Nat]
PROOF
  <1> DEFINE n == CHOOSE n \in {volume.status[s].seq : s \in records} :
                    \A s \in records : volume.status[s].seq <= n
  <1>1. records # {} => n \in Nat
    BY LastChosen
  <1>2. /\ seen \in [Agents -> SUBSET ProtocolStates] /\ last \in [Agents -> Nat]
    BY DEF Shape
  <1> HIDE DEF n
  <1>3. (IF records = {} THEN last[a] ELSE n) \in Nat
    BY <1>1, <1>2
  <1> QED BY <1>2, <1>3 DEF n

-----------------------------------------------------------------------------
\* Steps of the agent that holds the claim.

HolderStep(a) ==
    /\ vm = "running" /\ pc[a] \in ClaimedSteps
    /\ \E next \in ClaimedSteps \cup {"exited"} : pc' = [pc EXCEPT ![a] = next]
    /\ volume'.claim = volume.claim
    /\ UNCHANGED <<shared, vm, verdict>>

LEMMA HolderKeeps ==
  ASSUME AgentInv, NEW a \in Agents, HolderStep(a)
  PROVE  /\ pc' \in [Agents -> AgentSteps] /\ shared' \in BOOLEAN
         /\ vm' \in {"running", "off"} /\ verdict' \in Results \cup {"rejected"}
         /\ HoldInv' /\ OverInv'
         /\ \A b \in Agents \ {a} : pc'[b] \notin ClaimedSteps /\ PhaseInv(b)'
PROOF
  <1>1. PICK next \in ClaimedSteps \cup {"exited"} : pc' = [pc EXCEPT ![a] = next]
    BY DEF HolderStep
  <1>2. /\ pc \in [Agents -> AgentSteps] /\ shared' \in BOOLEAN
        /\ vm' \in {"running", "off"} /\ verdict' \in Results \cup {"rejected"}
    BY DEF HolderStep, AgentInv, Shape
  <1>3. /\ pc'[a] = next /\ pc' \in [Agents -> AgentSteps]
        /\ \A b \in Agents \ {a} : pc'[b] = pc[b] /\ pc[b] \notin ClaimedSteps
    BY <1>1, <1>2 DEF AgentInv, HoldInv, AgentSteps, HolderStep
  <1>4. HoldInv'
    <2>1. volume'.claim
      BY DEF AgentInv, HoldInv, HolderStep
    <2> QED BY <1>3, <2>1 DEF HoldInv
  <1>5. verdict' = NoResult /\ vm' = "running"
    BY DEF HolderStep, AgentInv, OverInv
  <1>6. OverInv'
    BY <1>5 DEF OverInv, AcceptedIsTrue
  <1>7. \A b \in Agents \ {a} : PhaseInv(b)'
    BY <1>3 DEF PhaseInv, ClaimedSteps, Preparing, Unanswered, Failing
  <1> QED BY <1>2, <1>3, <1>4, <1>6, <1>7

\* A volume stays one when a field is changed.
LEMMA VolumeFields ==
  ASSUME NEW v \in VolumeShape
  PROVE  /\ \A x \in [ProtocolStates -> [seq : Nat, result : Results]] :
               [v EXCEPT !.status = x] \in VolumeShape
         /\ \A x \in BOOLEAN : /\ [v EXCEPT !.claim = x] \in VolumeShape
                               /\ [v EXCEPT !.extracted = x] \in VolumeShape
                               /\ [v EXCEPT !.stray = x] \in VolumeShape
         /\ \A x \in Results : [v EXCEPT !.result = x] \in VolumeShape
         /\ \A x \in {"none", "partial", "complete"} : [v EXCEPT !.evidence = x] \in VolumeShape
PROOF
  <1> DEFINE Bits == BOOLEAN
             Marks == {"none", "partial", "complete"}
             Statuses == [ProtocolStates -> [seq : Nat, result : Results]]
             Outs == Results
             All == [status : Statuses, claim : Bits, result : Outs, evidence : Marks,
                     extracted : Bits, stray : Bits]
  <1>1. VolumeShape = All
    BY DEF VolumeShape
  <1> HIDE DEF Bits, Marks, Statuses, Outs
  <1>2. v \in All
    BY <1>1
  <1>3. \A x \in Statuses : [v EXCEPT !.status = x] \in All
    BY <1>2
  <1>4. \A x \in Bits : [v EXCEPT !.claim = x] \in All /\ [v EXCEPT !.extracted = x] \in All
    BY <1>2
  <1>5. \A x \in Bits : [v EXCEPT !.stray = x] \in All
    BY <1>2
  <1>6. \A x \in Outs : [v EXCEPT !.result = x] \in All
    BY <1>2
  <1>7. \A x \in Marks : [v EXCEPT !.evidence = x] \in All
    BY <1>2
  <1> HIDE DEF All
  <1> QED BY <1>1, <1>3, <1>4, <1>5, <1>6, <1>7 DEF Bits, Marks, Statuses, Outs

LEMMA Writes ==
  ASSUME Shape, NEW exists, NEW w \in WriteNew(exists), Spend(w.cost)
  PROVE  /\ w.ok \in BOOLEAN /\ w.linked \in BOOLEAN /\ w.stray \in BOOLEAN
         /\ w.ok => w.linked
         /\ w.linked => ~exists
         /\ faults' \in 0..MaxFaults
PROOF
  <1>1. /\ w.ok \in BOOLEAN /\ w.linked \in BOOLEAN /\ w.stray \in BOOLEAN
        /\ w.ok => w.linked
        /\ w.linked => ~exists
        /\ w.cost \in {0, 1}
    <2>1. CASE ~exists /\ w = Succeeded
      BY <2>1 DEF Succeeded
    <2>2. CASE ~exists /\ w \in Interfered
      <3>1. PICK l \in BOOLEAN, t \in BOOLEAN :
               w = [ok |-> FALSE, linked |-> l, stray |-> t, cost |-> 1]
        BY <2>2 DEF Interfered
      <3>2. w.ok = FALSE /\ w.linked = l /\ w.stray = t /\ w.cost = 1
        BY <3>1
      <3> QED BY <2>2, <3>2
    <2>3. CASE exists /\ w = [ok |-> FALSE, linked |-> FALSE, stray |-> FALSE, cost |-> 0]
      BY <2>3
    <2> QED BY <2>1, <2>2, <2>3 DEF WriteNew
  <1>2. faults \in 0..MaxFaults
    BY DEF Shape
  <1>3. faults' \in 0..MaxFaults
    BY <1>1, <1>2 DEF Spend
  <1> QED BY <1>1, <1>3

\* Nothing the invariant asks of the volume changes.
Same ==
    /\ UNCHANGED <<exec, launches>>
    /\ volume'.result = volume.result /\ volume'.evidence = volume.evidence
    /\ volume'.status["Completed"] = volume.status["Completed"]

LEMMA SameKeeps ==
  ASSUME Same, VolumeInv, \A b \in Agents : LifeInv(exec[b])
  PROVE  /\ VolumeInv' /\ \A b \in Agents : LifeInv(exec[b])'
         /\ Fresh' <=> Fresh
         /\ Unannounced' <=> Unannounced
PROOF
  <1>1. exec' = exec /\ launches' = launches
    BY DEF Same
  <1>2. Unannounced' <=> Unannounced
    BY DEF Same, Unannounced
  <1>3. Fresh' <=> Fresh
    BY <1>1, <1>2 DEF Same, Fresh
  <1>4. CompletedBacked' <=> CompletedBacked
    BY DEF Same, CompletedBacked, Published, ProtocolStates, GuestStates
  <1>5. VolumeInv'
    BY <1>1, <1>4 DEF Same, VolumeInv
  <1>6. \A b \in Agents : LifeInv(exec[b])'
    BY <1>1
  <1> QED BY <1>2, <1>3, <1>5, <1>6

\* What publishing a record does, whether or not it succeeds.
Recorded(a, here, state, result, ok, failed) ==
    /\ vm = "running" /\ pc[a] = here
    /\ \E next \in {ok, failed} : pc' = [pc EXCEPT ![a] = next]
    /\ seen' \in [Agents -> SUBSET ProtocolStates] /\ last' \in [Agents -> Nat]
    /\ volume' \in VolumeShape /\ faults' \in 0..MaxFaults
    /\ volume'.claim = volume.claim /\ volume'.result = volume.result
    /\ volume'.evidence = volume.evidence
    /\ \A s \in ProtocolStates \ {state} : volume'.status[s] = volume.status[s]
    /\ \/ volume'.status[state] = volume.status[state] /\ UNCHANGED last
       \/ /\ volume'.status[state] = [seq |-> last[a] + 1, result |-> result]
          /\ state \notin Published(volume)
          /\ last' \in {last, [last EXCEPT ![a] = last[a] + 1]}
    /\ UNCHANGED <<shared, vm, answer, exec, launches, workspace, verdict>>

LEMMA PublishEffect ==
  ASSUME Shape, NEW a \in Agents, NEW here, NEW state \in ProtocolStates,
         NEW result \in Results, NEW ok, NEW failed,
         Publish(a, here, state, result, ok, failed)
  PROVE  Recorded(a, here, state, result, ok, failed)
PROOF
  <1> DEFINE record == [seq |-> last[a] + 1, result |-> result]
  <1>1. /\ vm = "running" /\ pc[a] = here
        /\ UNCHANGED <<shared, vm, answer, exec, launches, workspace, verdict>>
    BY DEF Publish, At, execVars
  <1>2. /\ volume \in VolumeShape /\ seen \in [Agents -> SUBSET ProtocolStates]
        /\ last \in [Agents -> Nat] /\ faults \in 0..MaxFaults
    BY DEF Shape
  <1>3. record \in [seq : Nat, result : Results]
    BY <1>2
  <1>4. CASE Goto(a, failed) /\ UNCHANGED <<volume, seen, last, faults>>
    BY <1>1, <1>2, <1>4 DEF Goto, Recorded
  <1>5. ASSUME NEW w \in WriteNew(state \in Published(volume)), Spend(w.cost),
               volume' = WithRecord(volume, state, record, w),
               \/ /\ w.ok
                  /\ seen' = [seen EXCEPT ![a] = @ \cup {state}]
                  /\ last' = [last EXCEPT ![a] = record.seq]
                  /\ Goto(a, ok)
               \/ UNCHANGED <<seen, last>> /\ Goto(a, failed)
        PROVE  /\ \E next \in {ok, failed} : pc' = [pc EXCEPT ![a] = next]
               /\ seen' \in [Agents -> SUBSET ProtocolStates] /\ last' \in [Agents -> Nat]
               /\ volume' \in VolumeShape /\ faults' \in 0..MaxFaults
               /\ volume'.claim = volume.claim /\ volume'.result = volume.result
               /\ volume'.evidence = volume.evidence
               /\ \A s \in ProtocolStates \ {state} : volume'.status[s] = volume.status[s]
               /\ \/ volume'.status[state] = volume.status[state] /\ UNCHANGED last
                  \/ /\ volume'.status[state] = record /\ state \notin Published(volume)
                     /\ last' \in {last, [last EXCEPT ![a] = last[a] + 1]}
    <2>1. /\ w.linked \in BOOLEAN /\ w.stray \in BOOLEAN /\ faults' \in 0..MaxFaults
          /\ w.ok => w.linked
          /\ w.linked => state \notin Published(volume)
      BY <1>5, Writes
    <2>2. \E next \in {ok, failed} : pc' = [pc EXCEPT ![a] = next]
      BY <1>5 DEF Goto
    <2>3. record.seq \in Nat
      BY <1>3
    <2>4. seen' \in [Agents -> SUBSET ProtocolStates] /\ last' \in [Agents -> Nat]
      <3> HIDE DEF record
      <3> QED BY <1>2, <1>5, <2>3
    <2> DEFINE written == IF w.linked THEN record ELSE volume.status[state]
               statuses == [volume.status EXCEPT ![state] = written]
               stray == volume.stray \/ w.stray
    <2>5. volume' = [volume EXCEPT !.status = statuses, !.stray = stray]
      BY <1>2, <1>5 DEF WithRecord, VolumeShape
    <2>6. volume.status \in [ProtocolStates -> [seq : Nat, result : Results]]
      BY <1>2 DEF VolumeShape
    <2>7. written \in [seq : Nat, result : Results]
      <3> HIDE DEF record
      <3> QED BY <1>3, <2>1, <2>6
    <2>8. /\ statuses \in [ProtocolStates -> [seq : Nat, result : Results]]
          /\ statuses[state] = written
          /\ \A s \in ProtocolStates \ {state} : statuses[s] = volume.status[s]
      <3> HIDE DEF written
      <3> QED BY <2>6, <2>7
    <2>9. \/ written = volume.status[state] /\ UNCHANGED last
          \/ /\ written = record /\ state \notin Published(volume)
             /\ last' \in {last, [last EXCEPT ![a] = last[a] + 1]}
      BY <1>5, <2>1
    <2>10. stray \in BOOLEAN
      OBVIOUS
    <2> HIDE DEF statuses, written, stray, record
    <2>11. volume' \in VolumeShape
      BY <1>2, <2>5, <2>8, <2>10, VolumeFields
    <2>12. /\ volume'.claim = volume.claim /\ volume'.result = volume.result
           /\ volume'.evidence = volume.evidence /\ volume'.status = statuses
      BY <1>2, <2>5 DEF VolumeShape
    <2> QED BY <2>1, <2>2, <2>4, <2>8, <2>9, <2>11, <2>12
  <1> QED
    <2>1. CASE ~Observable(state, record.seq, seen[a], last[a])
      BY <2>1, <1>1, <1>4 DEF Publish
    <2>2. CASE Observable(state, record.seq, seen[a], last[a])
      <3>1. PICK w \in WriteNew(state \in Published(volume)) :
               /\ Spend(w.cost)
               /\ volume' = WithRecord(volume, state, record, w)
               /\ IF w.ok
                  THEN /\ seen' = [seen EXCEPT ![a] = @ \cup {state}]
                       /\ last' = [last EXCEPT ![a] = record.seq]
                       /\ Goto(a, ok)
                  ELSE UNCHANGED <<seen, last>> /\ Goto(a, failed)
        BY <2>2 DEF Publish
      <3> QED BY <3>1, <1>1, <1>5 DEF Recorded
    <2> QED BY <2>1, <2>2

\* A record other than the completion changes nothing the invariant asks for.
LEMMA PublishKeeps ==
  ASSUME AgentInv, NEW a \in Agents, NEW here \in ClaimedSteps,
         NEW state \in ProtocolStates \ {"Completed"}, NEW result \in Results,
         NEW ok \in ClaimedSteps \cup {"exited"}, NEW failed \in ClaimedSteps \cup {"exited"},
         Publish(a, here, state, result, ok, failed),
         PhaseInv(a) /\ Same /\ pc[a] = here /\ pc'[a] \in {ok, failed} => PhaseInv(a)'
  PROVE  AgentInv'
PROOF
  <1>s. /\ Shape /\ VolumeInv /\ \A b \in Agents : LifeInv(exec[b]) /\ PhaseInv(b)
        /\ state \in ProtocolStates
    BY DEF AgentInv
  <1>r. Recorded(a, here, state, result, ok, failed)
    BY <1>s, PublishEffect
  <1>1. /\ vm = "running" /\ pc[a] = here
        /\ \E next \in {ok, failed} : pc' = [pc EXCEPT ![a] = next]
        /\ seen' \in [Agents -> SUBSET ProtocolStates] /\ last' \in [Agents -> Nat]
        /\ volume' \in VolumeShape /\ faults' \in 0..MaxFaults
        /\ volume'.claim = volume.claim /\ volume'.result = volume.result
        /\ volume'.evidence = volume.evidence
        /\ \A s \in ProtocolStates \ {state} : volume'.status[s] = volume.status[s]
        /\ UNCHANGED <<shared, vm, answer, exec, launches, workspace, verdict>>
    BY <1>r DEF Recorded
  <1>2. HolderStep(a)
    BY <1>1 DEF HolderStep
  <1>3. Same
    BY <1>1 DEF Same, ProtocolStates, GuestStates
  <1>4. pc'[a] \in {ok, failed}
    BY <1>s, <1>1 DEF Shape
  <1>5. PhaseInv(a)'
    BY <1>s, <1>1, <1>3, <1>4
  <1>6. VolumeInv' /\ \A b \in Agents : LifeInv(exec[b])'
    BY <1>s, <1>3, SameKeeps
  <1>7. /\ pc' \in [Agents -> AgentSteps] /\ shared' \in BOOLEAN
        /\ vm' \in {"running", "off"} /\ verdict' \in Results \cup {"rejected"}
        /\ HoldInv' /\ OverInv' /\ \A b \in Agents \ {a} : PhaseInv(b)'
    BY <1>2, HolderKeeps
  <1>8. Shape'
    BY <1>s, <1>1, <1>7 DEF Shape
  <1> QED BY <1>5, <1>6, <1>7, <1>8 DEF AgentInv

\* Steps at which little is asked of an agent.
LEMMA FreshPhase ==
  ASSUME NEW a \in Agents, Fresh',
         pc'[a] \in Preparing \cup {"cleanup", "prepare_failed", "exited", "publish_shutdown"}
  PROVE  PhaseInv(a)'
PROOF
  <1>1. exec'[a].outcome = "none" /\ volume'.result = NoResult /\ Unannounced'
    BY DEF Fresh, NoExecution
  <1> QED BY <1>1 DEF PhaseInv, Preparing, Unanswered, Failing

LEMMA IdlePhase ==
  ASSUME NEW a \in Agents,
         pc'[a] \in {"open", "claim", "exited", "publish_shutdown", "shutdown"}
  PROVE  PhaseInv(a)'
  BY DEF PhaseInv, Preparing, Unanswered, Failing

\* A holder's step is done with when the volume, the executions and its own phase are.
LEMMA HolderDone ==
  ASSUME AgentInv, NEW a \in Agents, HolderStep(a),
         volume' \in VolumeShape, seen' \in [Agents -> SUBSET ProtocolStates],
         last' \in [Agents -> Nat], answer' \in [Agents -> Results],
         exec' \in [Agents -> Execution], launches' \in Nat, workspace' \in BOOLEAN,
         faults' \in 0..MaxFaults, VolumeInv', PhaseInv(a)',
         \A b \in Agents : LifeInv(exec[b])'
  PROVE  AgentInv'
PROOF
  <1>1. /\ pc' \in [Agents -> AgentSteps] /\ shared' \in BOOLEAN
        /\ vm' \in {"running", "off"} /\ verdict' \in Results \cup {"rejected"}
        /\ HoldInv' /\ OverInv' /\ \A b \in Agents \ {a} : PhaseInv(b)'
    BY HolderKeeps
  <1>2. Shape'
    BY <1>1 DEF Shape
  <1> QED BY <1>1, <1>2 DEF AgentInv

\* Steps that change nothing but the agent's own memory and the workspace.
LEMMA WaitKeeps ==
  ASSUME AgentInv, NEW a \in Agents, ConfigureNic(a) \/ AwaitStart(a) \/ Stage(a)
  PROVE  AgentInv'
PROOF
  <1>s. /\ Shape /\ VolumeInv /\ PhaseInv(a) /\ \A b \in Agents : LifeInv(exec[b])
        /\ vm = "running" => verdict = NoResult
    BY DEF AgentInv, OverInv
  <1>t. /\ pc \in [Agents -> AgentSteps] /\ volume \in VolumeShape
        /\ seen \in [Agents -> SUBSET ProtocolStates] /\ last \in [Agents -> Nat]
        /\ answer \in [Agents -> Results] /\ exec \in [Agents -> Execution]
        /\ launches \in Nat /\ workspace \in BOOLEAN /\ faults \in 0..MaxFaults
    BY <1>s DEF Shape
  <1> DEFINE Next_ == Preparing \cup {"prepare_failed", "exited"}
  <1>1. /\ vm = "running" /\ pc[a] \in Preparing
        /\ UNCHANGED <<shared, vm, volume, answer, exec, launches, verdict>>
    BY DEF ConfigureNic, AwaitStart, Stage, At, execVars, Preparing
  <1>2. \E next \in Next_ : pc' = [pc EXCEPT ![a] = next]
    <2>1. CASE ConfigureNic(a)
      BY <2>1 DEF ConfigureNic, Goto, Preparing
    <2>2. CASE AwaitStart(a)
      <3>1. \A states : Decision(states) \in {"write_cancelled", "stage", "await_start"}
        BY DEF Decision
      <3>2. \E next \in {"write_cancelled", "stage", "await_start", "exited"} : Goto(a, next)
        BY <2>2, <3>1 DEF AwaitStart, Observes
      <3> QED BY <3>2 DEF Goto, Preparing
    <2>3. CASE Stage(a)
      BY <2>3 DEF Stage, Goto, Preparing
    <2> QED BY <2>1, <2>2, <2>3
  <1>3. PICK next \in Next_ : pc' = [pc EXCEPT ![a] = next]
    BY <1>2
  <1>4. seen' \in [Agents -> SUBSET ProtocolStates] /\ last' \in [Agents -> Nat]
    <2>1. CASE ConfigureNic(a) \/ Stage(a)
      BY <2>1, <1>t DEF ConfigureNic, Stage
    <2>2. CASE AwaitStart(a)
      <3> DEFINE new == (Published(volume) \cap {"StartAllowed", "CancelRequested"}) \ seen[a]
      <3>1. new \in SUBSET ProtocolStates /\ new \ {"StartAllowed"} \in SUBSET ProtocolStates
        BY DEF ProtocolStates, HostStates
      <3>2. \/ UNCHANGED <<seen, last>>
            \/ \E found \in {new, new \ {"StartAllowed"}} :
                  /\ seen' = [seen EXCEPT ![a] = @ \cup found]
                  /\ last' = [last EXCEPT ![a] =
                                IF found = {} THEN @
                                ELSE CHOOSE n \in {volume.status[s].seq : s \in found} :
                                       \A s \in found : volume.status[s].seq <= n]
        BY <2>2 DEF AwaitStart, Observes
      <3> HIDE DEF new
      <3>3. CASE UNCHANGED <<seen, last>>
        BY <3>3, <1>t
      <3>4. ASSUME NEW found \in {new, new \ {"StartAllowed"}},
                   seen' = [seen EXCEPT ![a] = @ \cup found],
                   last' = [last EXCEPT ![a] =
                              IF found = {} THEN @
                              ELSE CHOOSE n \in {volume.status[s].seq : s \in found} :
                                     \A s \in found : volume.status[s].seq <= n]
            PROVE  seen' \in [Agents -> SUBSET ProtocolStates] /\ last' \in [Agents -> Nat]
        <4>1. found \in SUBSET ProtocolStates
          BY <3>1, <3>4
        <4> QED BY <1>s, <3>4, <4>1, ObservesTyped
      <3> QED BY <3>2, <3>3, <3>4
    <2> QED BY <2>1, <2>2
  <1>5. workspace' \in BOOLEAN /\ faults' \in 0..MaxFaults
    <2>1. CASE ConfigureNic(a) \/ AwaitStart(a)
      BY <2>1, <1>t DEF ConfigureNic, AwaitStart, execVars
    <2>2. CASE Stage(a)
      <3>1. workspace' \in {workspace, TRUE} /\ (UNCHANGED faults \/ Spend(0) \/ Spend(1))
        BY <2>2 DEF Stage
      <3>2. workspace' \in BOOLEAN
        BY <3>1, <1>t
      <3>3. faults' \in 0..MaxFaults
        BY <3>1, <1>t DEF Spend
      <3> QED BY <3>2, <3>3
    <2> QED BY <2>1, <2>2
  <1>6. HolderStep(a)
    BY <1>1, <1>3 DEF HolderStep, Preparing, ClaimedSteps
  <1>7. Same
    BY <1>1 DEF Same
  <1>8. /\ VolumeInv' /\ \A b \in Agents : LifeInv(exec[b])'
        /\ Fresh'
    BY <1>1, <1>7, <1>s, SameKeeps DEF PhaseInv
  <1>9. PhaseInv(a)'
    BY <1>3, <1>8, <1>t, FreshPhase
  <1> QED BY <1>1, <1>4, <1>5, <1>6, <1>8, <1>9, <1>t, HolderDone

\* The records the agent publishes on the way.
LEMMA RecordsKeep ==
  ASSUME AgentInv, NEW a \in Agents,
         PublishReady(a) \/ PublishRunning(a) \/ PublishFailed(a) \/ PublishShutdown(a)
  PROVE  AgentInv'
PROOF
  <1>s. /\ Shape /\ VolumeInv /\ PhaseInv(a) /\ \A b \in Agents : LifeInv(exec[b])
        /\ answer[a] \in Results
    BY DEF AgentInv, Shape
  <1>f. pc[a] \in Preparing /\ Same => Fresh'
    BY <1>s, SameKeeps DEF PhaseInv
  <1> USE DEF ProtocolStates, GuestStates, ClaimedSteps
  <1>1. CASE PublishReady(a)
    <2>1. Publish(a, "publish_ready", "GuestReady", NoResult, "await_start", "exited")
      BY <1>1 DEF PublishReady
    <2>2. PhaseInv(a) /\ Same /\ pc[a] = "publish_ready" /\ pc'[a] \in {"await_start", "exited"}
             => PhaseInv(a)'
      BY <1>f, FreshPhase DEF Preparing
    <2> QED BY <2>1, <2>2, PublishKeeps
  <1>2. CASE PublishRunning(a)
    <2>1. Publish(a, "publish_running", "Running", NoResult, "scan_primary", "cleanup")
      BY <1>2 DEF PublishRunning
    <2>2. PhaseInv(a) /\ Same /\ pc[a] = "publish_running" /\ pc'[a] \in {"scan_primary", "cleanup"}
             => PhaseInv(a)'
      BY <1>f, FreshPhase DEF Preparing
    <2> QED BY <2>1, <2>2, PublishKeeps
  <1>3. CASE PublishFailed(a)
    <2>1. Publish(a, "publish_failed", "Failed", answer[a], "publish_shutdown", "exited")
      BY <1>3 DEF PublishFailed
    <2>2. PhaseInv(a) /\ Same /\ pc[a] = "publish_failed" /\ pc'[a] \in {"publish_shutdown", "exited"}
             => PhaseInv(a)'
      BY IdlePhase
    <2> QED BY <1>s, <2>1, <2>2, PublishKeeps
  <1>4. CASE PublishShutdown(a)
    <2>1. Publish(a, "publish_shutdown", "ShutdownReady", answer[a], "shutdown", "exited")
      BY <1>4 DEF PublishShutdown
    <2>2. PhaseInv(a) /\ Same /\ pc[a] = "publish_shutdown" /\ pc'[a] \in {"shutdown", "exited"}
             => PhaseInv(a)'
      BY IdlePhase
    <2> QED BY <1>s, <2>1, <2>2, PublishKeeps
  <1> QED BY <1>1, <1>2, <1>3, <1>4

\* The completion refers to a complete result.
LEMMA CompletionKeeps ==
  ASSUME AgentInv, NEW a \in Agents, PublishCompleted(a)
  PROVE  AgentInv'
PROOF
  <1>s. /\ Shape /\ VolumeInv /\ PhaseInv(a) /\ \A b \in Agents : LifeInv(exec[b])
        /\ answer[a] \in Results
    BY DEF AgentInv, Shape
  <1>r. Recorded(a, "publish_completed", "Completed", answer[a], "publish_shutdown", "exited")
    BY <1>s, PublishEffect DEF PublishCompleted, ProtocolStates, GuestStates
  <1>1. /\ vm = "running" /\ pc[a] = "publish_completed"
        /\ \E next \in {"publish_shutdown", "exited"} : pc' = [pc EXCEPT ![a] = next]
        /\ seen' \in [Agents -> SUBSET ProtocolStates] /\ last' \in [Agents -> Nat]
        /\ volume' \in VolumeShape /\ faults' \in 0..MaxFaults
        /\ volume'.claim = volume.claim /\ volume'.result = volume.result
        /\ volume'.evidence = volume.evidence
        /\ \/ volume'.status["Completed"] = volume.status["Completed"]
           \/ volume'.status["Completed"] = [seq |-> last[a] + 1, result |-> answer[a]]
        /\ UNCHANGED <<shared, vm, answer, exec, launches, workspace, verdict>>
    BY <1>r DEF Recorded
  <1>2. HolderStep(a)
    BY <1>1 DEF HolderStep, ClaimedSteps
  <1>3. volume.evidence = "complete" /\ volume.result = answer[a]
    BY <1>s, <1>1 DEF PhaseInv
  <1>4. CompletedBacked'
    <2>1. CASE volume'.status["Completed"] = volume.status["Completed"]
      BY <1>s, <1>1, <2>1 DEF VolumeInv, CompletedBacked, Published
    <2>2. CASE volume'.status["Completed"] = [seq |-> last[a] + 1, result |-> answer[a]]
      BY <1>1, <1>3, <2>2 DEF CompletedBacked
    <2> QED BY <1>1, <2>1, <2>2
  <1>5. VolumeInv' /\ \A b \in Agents : LifeInv(exec[b])'
    BY <1>s, <1>1, <1>4 DEF VolumeInv
  <1>6. PhaseInv(a)'
    BY <1>s, <1>1, IdlePhase DEF Shape
  <1> QED BY <1>s, <1>1, <1>2, <1>5, <1>6, HolderDone DEF Shape

-----------------------------------------------------------------------------
\* The execution and what follows it.

LEMMA EvidenceTyped ==
  ASSUME NEW v \in VolumeShape, NEW evidence \in {"none", "partial", "complete"}
  PROVE  LET w == [v EXCEPT !.evidence = evidence]
         IN  /\ w \in VolumeShape /\ w.evidence = evidence
             /\ w.claim = v.claim /\ w.result = v.result /\ w.status = v.status
             /\ w.extracted = v.extracted
PROOF
  <1>1. [v EXCEPT !.evidence = evidence] \in VolumeShape
    BY VolumeFields
  <1> QED BY <1>1 DEF VolumeShape

\* Without a completion on the volume, nothing need be said about the files.
LEMMA UnannouncedBacked ==
  ASSUME Unannounced' PROVE CompletedBacked'
  BY DEF Unannounced, CompletedBacked, Published

LEMMA ScanKeeps ==
  ASSUME AgentInv, NEW a \in Agents, ScanPrimary(a)
  PROVE  AgentInv'
PROOF
  <1>s. /\ VolumeInv /\ Fresh /\ vm = "running" /\ pc[a] = "scan_primary"
        /\ \A b \in Agents : LifeInv(exec[b])
    BY DEF AgentInv, PhaseInv, ScanPrimary, At, Preparing
  <1>t. /\ pc \in [Agents -> AgentSteps] /\ volume \in VolumeShape
        /\ seen \in [Agents -> SUBSET ProtocolStates] /\ last \in [Agents -> Nat]
        /\ answer \in [Agents -> Results] /\ exec \in [Agents -> Execution]
        /\ launches \in Nat /\ workspace \in BOOLEAN /\ faults \in 0..MaxFaults
    BY DEF AgentInv, Shape
  <1> DEFINE f == [NoExecution EXCEPT !.step = "observe"]
  <1>1. PICK evidence \in {volume.evidence, "partial"} : volume' = [volume EXCEPT !.evidence = evidence]
    BY DEF ScanPrimary
  <1>2. evidence \in {"none", "partial", "complete"}
    BY <1>1, <1>t DEF VolumeShape
  <1>3. /\ volume' \in VolumeShape /\ volume'.claim = volume.claim
        /\ volume'.result = volume.result /\ volume'.status = volume.status
    BY <1>1, <1>2, <1>t, EvidenceTyped
  <1>4. /\ exec' = [exec EXCEPT ![a] = f] /\ pc' = [pc EXCEPT ![a] = "executing"]
        /\ UNCHANGED <<shared, vm, seen, last, answer, launches, workspace, faults, verdict>>
    BY <1>s, <1>t DEF ScanPrimary, Goto, Fresh
  <1>5. f \in Execution
    BY FreshExecution, Fields DEF ExecutorSteps
  <1>6. f.step = "observe" /\ ~Alive(f) /\ f.outcome = "none" /\ ~f.account
    BY DEF NoExecution, Alive
  <1>7. LifeInv(f)
    BY <1>6 DEF LifeInv
  <1> HIDE DEF f
  <1>8. exec' \in [Agents -> Execution] /\ exec'[a] = f /\ \A b \in Agents \ {a} : exec'[b] = exec[b]
    BY <1>4, <1>5, <1>t
  <1>9. \A b \in Agents : LifeInv(exec[b])'
    BY <1>s, <1>7, <1>8
  <1>10. Unannounced' /\ volume'.result = NoResult /\ launches' = 0
    BY <1>s, <1>3, <1>4 DEF Fresh, Unannounced
  <1>11. VolumeInv'
    BY <1>10, UnannouncedBacked DEF VolumeInv
  <1>12. PhaseInv(a)'
    <2>1. pc'[a] = "executing"
      BY <1>4, <1>t
    <2>2. exec'[a].step \notin Launched /\ exec'[a].outcome = "none"
      BY <1>6, <1>8 DEF Launched
    <2> QED BY <2>1, <2>2, <1>10 DEF PhaseInv, Preparing, Unanswered, Failing
  <1>13. HolderStep(a)
    BY <1>s, <1>3, <1>4 DEF HolderStep, ClaimedSteps
  <1> QED BY <1>3, <1>4, <1>8, <1>9, <1>11, <1>12, <1>13, <1>t, HolderDone

LEMMA ExecuteKeeps ==
  ASSUME AgentInv, NEW a \in Agents, Execute(a)
  PROVE  AgentInv'
PROOF
  <1>s. /\ Shape /\ VolumeInv /\ PhaseInv(a) /\ vm = "running" /\ pc[a] = "executing"
        /\ \A b \in Agents : LifeInv(exec[b])
        /\ pc \in [Agents -> AgentSteps] /\ launches \in Nat
    BY DEF AgentInv, Execute, At, Shape
  <1>1. Executor(a) /\ UNCHANGED <<shared, vm, volume, pc, seen, last, answer, workspace, verdict>>
    BY DEF Execute, agentVars
  <1>2. Advance(a)
    BY <1>s, <1>1, ExecutorAdvance
  <1>3. PICK more \in {0, 1} : launches' = launches + more /\ Stepped(exec[a], exec'[a], more)
    BY <1>2 DEF Advance
  <1>4. /\ exec' \in [Agents -> Execution] /\ \A b \in Agents \ {a} : exec'[b] = exec[b]
        /\ faults' \in 0..MaxFaults
    BY <1>2 DEF Advance
  <1>5. LifeInv(exec'[a]) /\ \A b \in Agents : LifeInv(exec[b])'
    BY <1>s, <1>3, <1>4 DEF Stepped
  <1>6. volume.result = NoResult /\ Unannounced
    BY <1>s DEF PhaseInv, Unanswered
  <1>7. /\ exec[a].step \in Unlaunched => launches = 0
        /\ exec[a].step \in Launched => launches = 1
        /\ exec[a].step \notin Unlaunched => more = 0
        /\ launches <= 1
    BY <1>s, <1>3 DEF PhaseInv, Stepped, VolumeInv
  <1>8. launches' \in Nat /\ launches' <= 1
    BY <1>s, <1>3, <1>7
  <1>9. Unannounced' /\ volume'.result = NoResult
    BY <1>1, <1>6 DEF Unannounced
  <1>10. VolumeInv'
    BY <1>8, <1>9, UnannouncedBacked DEF VolumeInv
  <1>11. /\ exec'[a].step \in Unlaunched => launches' = 0
         /\ exec'[a].step \in Launched => launches' = 1
         /\ exec'[a].outcome \in Executed => launches' = 1
    <2>1. Launched \cap Unlaunched = {}
      BY DEF Launched, Unlaunched
    <2> QED BY <1>s, <1>3, <1>7, <2>1 DEF Stepped
  <1>12. PhaseInv(a)'
    BY <1>s, <1>1, <1>9, <1>11 DEF PhaseInv, Preparing, Unanswered, Failing
  <1>13. HolderStep(a)
    <2>1. pc' = [pc EXCEPT ![a] = "executing"]
      BY <1>s, <1>1
    <2> QED BY <1>s, <1>1, <2>1 DEF HolderStep, ClaimedSteps
  <1> QED BY <1>s, <1>1, <1>4, <1>5, <1>8, <1>10, <1>12, <1>13, HolderDone DEF Shape

LEMMA CollectFilesKeeps ==
  ASSUME AgentInv, NEW a \in Agents, CollectFiles(a)
  PROVE  AgentInv'
PROOF
  <1>s. /\ Shape /\ VolumeInv /\ PhaseInv(a) /\ vm = "running" /\ pc[a] = "executing"
        /\ \A b \in Agents : LifeInv(exec[b])
        /\ pc \in [Agents -> AgentSteps] /\ volume \in VolumeShape
    BY DEF AgentInv, CollectFiles, At, Shape
  <1>1. /\ UNCHANGED <<shared, vm, seen, last, answer, exec, launches, workspace, faults, verdict>>
        /\ pc' = [pc EXCEPT ![a] = "cleanup"]
    BY DEF CollectFiles, execVars, Goto
  <1>2. /\ volume' \in VolumeShape /\ volume'.claim = volume.claim
        /\ volume'.result = volume.result /\ volume'.status = volume.status
    <2>1. CASE exec[a].outcome \in Executed
      <3>1. PICK extracted \in BOOLEAN :
               volume' = [volume EXCEPT !.evidence = "partial", !.extracted = extracted]
        BY <2>1 DEF CollectFiles
      <3>2. volume' \in VolumeShape
        BY <1>s, <3>1, VolumeFields
      <3> QED BY <1>s, <3>1, <3>2 DEF VolumeShape
    <2>2. CASE exec[a].outcome \notin Executed
      <3>1. PICK evidence \in {volume.evidence, "partial"} :
               volume' = [volume EXCEPT !.evidence = evidence]
        BY <2>2 DEF CollectFiles
      <3>2. evidence \in {"none", "partial", "complete"}
        BY <1>s, <3>1 DEF VolumeShape
      <3> QED BY <1>s, <3>1, <3>2, EvidenceTyped
    <2> QED BY <2>1, <2>2
  <1>3. volume'.result = NoResult /\ Unannounced'
    BY <1>s, <1>2 DEF PhaseInv, Unanswered, Unannounced
  <1>4. VolumeInv' /\ \A b \in Agents : LifeInv(exec[b])'
    BY <1>s, <1>1, <1>3, UnannouncedBacked DEF VolumeInv
  <1>5. exec'[a].outcome \in Executed => launches' = 1
    BY <1>s, <1>1 DEF PhaseInv
  <1>6. PhaseInv(a)'
    BY <1>s, <1>1, <1>3, <1>5 DEF PhaseInv, Preparing, Unanswered, Failing
  <1>7. HolderStep(a)
    BY <1>s, <1>1, <1>2 DEF HolderStep, ClaimedSteps
  <1> QED BY <1>s, <1>1, <1>2, <1>4, <1>6, <1>7, HolderDone DEF Shape

LEMMA CleanupKeeps ==
  ASSUME AgentInv, NEW a \in Agents, CleanupWorkspace(a)
  PROVE  AgentInv'
PROOF
  <1> DEFINE e == exec[a]
             f == [e EXCEPT !.reported = @ \cup {"workspace"}]
  <1>s. /\ Shape /\ VolumeInv /\ PhaseInv(a) /\ vm = "running" /\ pc[a] = "cleanup"
        /\ \A b \in Agents : LifeInv(exec[b])
        /\ pc \in [Agents -> AgentSteps] /\ answer \in [Agents -> Results]
        /\ exec \in [Agents -> Execution] /\ e \in Execution /\ faults \in 0..MaxFaults
        /\ workspace \in BOOLEAN
    BY DEF AgentInv, CleanupWorkspace, At, Shape
  <1>1. UNCHANGED <<shared, vm, volume, seen, last, launches, verdict>>
    BY DEF CleanupWorkspace
  <1>2. \/ ~workspace' /\ UNCHANGED <<exec, faults>>
        \/ Spend(1) /\ workspace' \in BOOLEAN /\ exec' = [exec EXCEPT ![a] = f]
    BY <1>s DEF CleanupWorkspace
  <1>3. \/ /\ e.outcome \in Executed /\ answer' = [answer EXCEPT ![a] = e.outcome]
           /\ pc' = [pc EXCEPT ![a] = "write_evidence"]
        \/ UNCHANGED answer /\ pc' = [pc EXCEPT ![a] = "prepare_failed"]
    BY DEF CleanupWorkspace, Goto
  <1>4. f \in Execution
    <2>1. e.reported \cup {"workspace"} \in Reportable
      BY <1>s DEF Execution, Reportable
    <2> QED BY <1>s, <2>1, Fields
  <1>5. /\ f.step = e.step /\ f.job = e.job /\ f.member = e.member /\ f.root = e.root
        /\ f.child = e.child /\ f.account = e.account /\ f.capture = e.capture
        /\ f.outcome = e.outcome /\ f.reported = e.reported \cup {"workspace"}
    BY <1>s DEF Execution
  <1>6. LifeInv(e)
    BY <1>s
  <1> HIDE DEF e, f
  <1>7. LifeInv(f)
    BY <1>5, <1>6 DEF LifeInv, Alive
  <1>8. /\ exec' \in [Agents -> Execution] /\ exec'[a] \in {e, f}
        /\ \A b \in Agents \ {a} : exec'[b] = exec[b]
        /\ workspace' => exec'[a] = f
        /\ workspace' \in BOOLEAN /\ faults' \in 0..MaxFaults
    <2>1. CASE ~workspace' /\ UNCHANGED <<exec, faults>>
      <3>1. workspace' \in BOOLEAN
        BY DEF CleanupWorkspace
      <3> QED BY <1>s, <2>1, <3>1 DEF e
    <2>2. CASE Spend(1) /\ workspace' \in BOOLEAN /\ exec' = [exec EXCEPT ![a] = f]
      BY <1>s, <1>4, <2>2 DEF Spend
    <2> QED BY <1>2, <2>1, <2>2
  <1>9. \A b \in Agents : LifeInv(exec[b])'
    BY <1>s, <1>6, <1>7, <1>8
  <1>10. volume.result = NoResult /\ Unannounced /\ (e.outcome \in Executed => launches = 1)
    BY <1>s DEF PhaseInv, Unanswered, e
  <1>11. VolumeInv'
    BY <1>s, <1>1, <1>10, UnannouncedBacked DEF VolumeInv, Unannounced
  <1>12. PhaseInv(a)'
    <2>1. CASE /\ e.outcome \in Executed /\ answer' = [answer EXCEPT ![a] = e.outcome]
               /\ pc' = [pc EXCEPT ![a] = "write_evidence"]
      <3>1. pc'[a] = "write_evidence" /\ answer'[a] = e.outcome /\ launches' = 1
        BY <1>s, <1>1, <1>10, <2>1
      <3>2. workspace' => "workspace" \in exec'[a].reported
        BY <1>5, <1>8
      <3>3. e.outcome = "completed" => exec'[a].root = "exited"
        BY <1>5, <1>6, <1>8 DEF LifeInv
      <3> QED BY <1>1, <1>10, <2>1, <3>1, <3>2, <3>3
             DEF PhaseInv, Preparing, Unanswered, Failing, Unannounced
    <2>2. CASE UNCHANGED answer /\ pc' = [pc EXCEPT ![a] = "prepare_failed"]
      BY <1>s, <1>1, <1>10, <2>2 DEF PhaseInv, Preparing, Unanswered, Failing, Unannounced
    <2> QED BY <1>3, <2>1, <2>2
  <1>13. HolderStep(a)
    BY <1>s, <1>1, <1>3 DEF HolderStep, ClaimedSteps
  <1>14. answer' \in [Agents -> Results]
    BY <1>s, <1>3
  <1> QED BY <1>s, <1>1, <1>8, <1>9, <1>11, <1>12, <1>13, <1>14, HolderDone DEF Shape

LEMMA EvidenceKeeps ==
  ASSUME AgentInv, NEW a \in Agents, WriteEvidence(a) \/ PrepareFailed(a)
  PROVE  AgentInv'
PROOF
  <1>s. /\ Shape /\ VolumeInv /\ PhaseInv(a) /\ vm = "running"
        /\ pc[a] \in {"write_evidence", "prepare_failed"}
        /\ \A b \in Agents : LifeInv(exec[b])
        /\ pc \in [Agents -> AgentSteps] /\ volume \in VolumeShape /\ faults \in 0..MaxFaults
    BY DEF AgentInv, WriteEvidence, PrepareFailed, At, Shape
  <1>1. UNCHANGED <<shared, vm, seen, last, answer, exec, launches, workspace, verdict>>
    BY DEF WriteEvidence, PrepareFailed, execVars
  <1>2. Unannounced /\ (pc[a] = "write_evidence" => volume.result = NoResult)
    BY <1>s DEF PhaseInv, Unanswered, Failing
  <1>3. ASSUME NEW evidence \in {"none", "partial", "complete"},
               volume' = [volume EXCEPT !.evidence = evidence], faults' \in 0..MaxFaults,
               NEW next \in {"write_result", "prepare_failed", "write_failed", "exited"},
               pc' = [pc EXCEPT ![a] = next],
               next = "write_result" => pc[a] = "write_evidence" /\ evidence = "complete",
               next = "write_failed" => evidence = "none",
               volume.result = "agent_failed" => evidence = "none"
        PROVE  AgentInv'
    <2>1. /\ volume' \in VolumeShape /\ volume'.claim = volume.claim
          /\ volume'.result = volume.result /\ volume'.status = volume.status
          /\ volume'.evidence = evidence
      BY <1>s, <1>3, EvidenceTyped
    <2>2. Unannounced'
      BY <1>2, <2>1 DEF Unannounced
    <2>3. VolumeInv' /\ \A b \in Agents : LifeInv(exec[b])'
      BY <1>s, <1>1, <1>3, <2>1, <2>2, UnannouncedBacked DEF VolumeInv
    <2>4. pc'[a] = next
      BY <1>s, <1>3
    <2>5. PhaseInv(a)'
      BY <1>s, <1>1, <1>2, <1>3, <2>1, <2>2, <2>4 DEF PhaseInv, Preparing, Unanswered, Failing
    <2>6. HolderStep(a)
      BY <1>s, <1>1, <1>3, <2>1 DEF HolderStep, ClaimedSteps
    <2> QED BY <1>s, <1>1, <1>3, <2>1, <2>3, <2>5, <2>6, HolderDone DEF Shape
  <1>4. Spend(0) \/ Spend(1) => faults' \in 0..MaxFaults
    BY <1>s DEF Spend
  <1>5. volume = [volume EXCEPT !.evidence = volume.evidence]
        /\ volume.evidence \in {"none", "partial", "complete"}
    BY <1>s DEF VolumeShape
  <1>6. CASE WriteEvidence(a)
    <2>0. pc[a] = "write_evidence"
      BY <1>6 DEF WriteEvidence, At
    <2>1. CASE /\ volume' = [volume EXCEPT !.evidence = "complete"]
               /\ pc' = [pc EXCEPT ![a] = "write_result"] /\ UNCHANGED faults
      BY <1>2, <1>3, <1>s, <2>0, <2>1
    <2>2. CASE Spend(1) /\ pc' = [pc EXCEPT ![a] = "prepare_failed"] /\ UNCHANGED volume
      <3>1. volume' = [volume EXCEPT !.evidence = volume.evidence]
        BY <1>5, <2>2
      <3> QED BY <1>2, <1>3, <1>4, <1>5, <2>0, <2>2, <3>1
    <2> QED BY <1>6, <2>1, <2>2 DEF WriteEvidence, Goto
  <1>7. CASE PrepareFailed(a)
    <2>1. CASE /\ volume' = [volume EXCEPT !.evidence = "none"]
               /\ pc' = [pc EXCEPT ![a] = "write_failed"] /\ UNCHANGED faults
      BY <1>3, <1>s, <2>1
    <2>2. CASE /\ Spend(0) \/ Spend(1)
               /\ pc' = [pc EXCEPT ![a] = "exited"]
               /\ volume' = [volume EXCEPT !.evidence =
                               IF volume.evidence = "none" THEN volume.evidence ELSE "partial"]
      <3> DEFINE evidence == IF volume.evidence = "none" THEN volume.evidence ELSE "partial"
      <3>1. evidence \in {"none", "partial", "complete"}
        OBVIOUS
      <3>2. volume.result = "agent_failed" => evidence = "none"
        BY <1>s DEF VolumeInv
      <3>3. volume' = [volume EXCEPT !.evidence = evidence] /\ pc' = [pc EXCEPT ![a] = "exited"]
        BY <2>2
      <3> HIDE DEF evidence
      <3> QED BY <1>3, <1>4, <2>2, <3>1, <3>2, <3>3
    <2> QED BY <1>7, <2>1, <2>2 DEF PrepareFailed, Goto
  <1> QED BY <1>6, <1>7

\* What writing result.json does.
Resulted(a, here, outcome, ok, failed) ==
    /\ vm = "running" /\ pc[a] = here
    /\ UNCHANGED <<shared, vm, seen, last, exec, launches, workspace, verdict>>
    /\ volume' \in VolumeShape /\ faults' \in 0..MaxFaults
    /\ volume'.claim = volume.claim /\ volume'.evidence = volume.evidence
    /\ volume'.status = volume.status
    /\ volume'.result \in {volume.result, outcome}
    /\ answer' \in [Agents -> Results]
    /\ \/ /\ pc' = [pc EXCEPT ![a] = ok]
          /\ volume'.result = outcome /\ answer'[a] = outcome
       \/ pc' = [pc EXCEPT ![a] = failed]

LEMMA ResultEffect ==
  ASSUME Shape, NEW a \in Agents, NEW here, NEW outcome \in Results, NEW ok, NEW failed,
         PublishResult(a, here, outcome, ok, failed)
  PROVE  Resulted(a, here, outcome, ok, failed)
PROOF
  <1>1. PICK w \in WriteNew(volume.result # NoResult) :
           /\ Spend(w.cost)
           /\ volume' = [volume EXCEPT !.result = IF w.linked THEN outcome ELSE @]
           /\ answer' = [answer EXCEPT ![a] = IF w.ok THEN outcome ELSE NoResult]
           /\ Goto(a, IF w.ok THEN ok ELSE failed)
    BY DEF PublishResult
  <1>2. /\ w.ok \in BOOLEAN /\ w.linked \in BOOLEAN /\ (w.ok => w.linked)
        /\ faults' \in 0..MaxFaults
    BY <1>1, Writes
  <1>3. volume \in VolumeShape /\ answer \in [Agents -> Results] /\ volume.result \in Results
    BY DEF Shape, VolumeShape
  <1> DEFINE result == IF w.linked THEN outcome ELSE volume.result
             mine == IF w.ok THEN outcome ELSE NoResult
  <1>4. result \in Results /\ mine \in Results
    BY <1>3
  <1>5. volume' = [volume EXCEPT !.result = result] /\ answer' = [answer EXCEPT ![a] = mine]
    BY <1>1
  <1>6. result \in {volume.result, outcome} /\ (w.ok => result = outcome /\ mine = outcome)
    BY <1>2
  <1> HIDE DEF result, mine
  <1>7. volume' \in VolumeShape
    BY <1>3, <1>4, <1>5, VolumeFields
  <1>8. /\ volume'.claim = volume.claim /\ volume'.evidence = volume.evidence
        /\ volume'.status = volume.status /\ volume'.result = result
    BY <1>3, <1>5 DEF VolumeShape
  <1>9. answer' \in [Agents -> Results] /\ answer'[a] = mine
    BY <1>3, <1>4, <1>5
  <1>10. \/ w.ok /\ pc' = [pc EXCEPT ![a] = ok]
         \/ ~w.ok /\ pc' = [pc EXCEPT ![a] = failed]
    BY <1>1, <1>2 DEF Goto
  <1>11. /\ vm = "running" /\ pc[a] = here
         /\ UNCHANGED <<shared, vm, seen, last, exec, launches, workspace, verdict>>
    BY DEF PublishResult, At, execVars
  <1> QED BY <1>2, <1>6, <1>7, <1>8, <1>9, <1>10, <1>11 DEF Resulted

\* A result that is true of the run may be written.
LEMMA ResultKeeps ==
  ASSUME AgentInv, NEW a \in Agents, NEW here \in ClaimedSteps, NEW outcome \in Outcomes,
         NEW ok \in ClaimedSteps \cup {"exited"}, NEW failed \in ClaimedSteps \cup {"exited"},
         Resulted(a, here, outcome, ok, failed), Unannounced,
         outcome \in Executed => launches = 1,
         outcome = "completed" => exec[a].root = "exited",
         outcome = "cancelled" => launches = 0,
         outcome = "agent_failed" => volume.evidence = "none",
         Unannounced' /\ Resulted(a, here, outcome, ok, failed) => PhaseInv(a)'
  PROVE  AgentInv'
PROOF
  <1>s. Shape /\ VolumeInv /\ \A b \in Agents : LifeInv(exec[b])
    BY DEF AgentInv
  <1>1. /\ vm = "running" /\ pc[a] = here
        /\ UNCHANGED <<shared, vm, seen, last, exec, launches, workspace, verdict>>
        /\ volume' \in VolumeShape /\ faults' \in 0..MaxFaults
        /\ volume'.claim = volume.claim /\ volume'.evidence = volume.evidence
        /\ volume'.status = volume.status
        /\ volume'.result \in {volume.result, outcome}
        /\ answer' \in [Agents -> Results]
        /\ \E next \in {ok, failed} : pc' = [pc EXCEPT ![a] = next]
    BY DEF Resulted
  <1>2. Unannounced'
    BY <1>1 DEF Unannounced
  <1>3. VolumeInv'
    BY <1>s, <1>1, <1>2, UnannouncedBacked DEF VolumeInv
  <1>4. HolderStep(a)
    BY <1>1 DEF HolderStep
  <1>5. PhaseInv(a)' /\ \A b \in Agents : LifeInv(exec[b])'
    BY <1>s, <1>1, <1>2
  <1> QED BY <1>s, <1>1, <1>3, <1>4, <1>5, HolderDone DEF Shape

LEMMA ResultsKeep ==
  ASSUME AgentInv, NEW a \in Agents, WriteResult(a) \/ WriteFailed(a) \/ WriteCancelled(a)
  PROVE  AgentInv'
PROOF
  <1>s. Shape /\ PhaseInv(a) /\ pc \in [Agents -> AgentSteps] /\ answer[a] \in Results
    BY DEF AgentInv, Shape
  <1> USE DEF ClaimedSteps
  <1>1. CASE WriteResult(a)
    <2>1. Resulted(a, "write_result", answer[a], "publish_completed", "prepare_failed")
      BY <1>1, <1>s, ResultEffect DEF WriteResult
    <2>2. /\ pc[a] = "write_result" /\ Unannounced /\ answer[a] \in Executed /\ launches = 1
          /\ answer[a] = "completed" => exec[a].root = "exited"
          /\ volume.evidence = "complete"
      BY <1>s, <2>1 DEF PhaseInv, Unanswered, Resulted
    <2>3. ASSUME Unannounced'
          PROVE  PhaseInv(a)'
      <3>1. /\ volume'.evidence = volume.evidence
            /\ \/ pc'[a] = "publish_completed" /\ volume'.result = answer'[a]
               \/ pc'[a] = "prepare_failed"
        BY <1>s, <2>1 DEF Resulted
      <3> QED BY <2>2, <2>3, <3>1 DEF PhaseInv, Preparing, Unanswered, Failing
    <2>4. PICK outcome \in Outcomes : outcome = answer[a]
      BY <2>2
    <2>5. outcome \notin {"cancelled", "agent_failed"}
      BY <2>2, <2>4
    <2>6. Resulted(a, "write_result", outcome, "publish_completed", "prepare_failed")
      BY <2>1, <2>4
    <2>7. /\ outcome \in Executed => launches = 1
          /\ outcome = "completed" => exec[a].root = "exited"
          /\ outcome = "cancelled" => launches = 0
          /\ outcome = "agent_failed" => volume.evidence = "none"
          /\ Unannounced
      BY <2>2, <2>4, <2>5
    <2>8. Unannounced' /\ Resulted(a, "write_result", outcome, "publish_completed", "prepare_failed")
             => PhaseInv(a)'
      BY <2>3
    <2> QED BY <2>6, <2>7, <2>8, ResultKeeps
  <1>2. CASE WriteFailed(a)
    <2>1. Resulted(a, "write_failed", "agent_failed", "publish_failed", "publish_failed")
      BY <1>2, <1>s, ResultEffect DEF WriteFailed
    <2>2. pc[a] = "write_failed" /\ Unannounced /\ volume.evidence = "none"
      BY <1>s, <2>1 DEF PhaseInv, Failing, Resulted
    <2>3. ASSUME Unannounced'
          PROVE  PhaseInv(a)'
      <3>1. volume'.evidence = "none" /\ pc'[a] = "publish_failed"
        BY <1>s, <2>1, <2>2 DEF Resulted
      <3> QED BY <2>3, <3>1 DEF PhaseInv, Preparing, Unanswered, Failing
    <2>4. Unannounced' /\ Resulted(a, "write_failed", "agent_failed", "publish_failed", "publish_failed")
             => PhaseInv(a)'
      BY <2>3
    <2>5. PICK outcome \in Outcomes : outcome = "agent_failed"
      OBVIOUS
    <2>6. /\ outcome \in Executed => launches = 1
          /\ outcome = "completed" => exec[a].root = "exited"
          /\ outcome = "cancelled" => launches = 0
          /\ outcome = "agent_failed" => volume.evidence = "none"
          /\ Resulted(a, "write_failed", outcome, "publish_failed", "publish_failed")
          /\ Unannounced' /\ Resulted(a, "write_failed", outcome, "publish_failed", "publish_failed")
                => PhaseInv(a)'
      BY <2>1, <2>2, <2>4, <2>5
    <2> QED BY <2>2, <2>6, ResultKeeps
  <1>3. CASE WriteCancelled(a)
    <2>1. Resulted(a, "write_cancelled", "cancelled", "publish_shutdown", "exited")
      BY <1>3, <1>s, ResultEffect DEF WriteCancelled
    <2>2. pc[a] = "write_cancelled" /\ Fresh
      BY <1>s, <2>1 DEF PhaseInv, Preparing, Resulted
    <2>3. PhaseInv(a)'
      <3>1. pc'[a] \in {"publish_shutdown", "exited"}
        BY <1>s, <2>1 DEF Resulted
      <3> QED BY <3>1, IdlePhase
    <2> QED BY <2>1, <2>2, <2>3, ResultKeeps DEF Fresh
  <1> QED BY <1>1, <1>2, <1>3

-----------------------------------------------------------------------------
\* Agents without the claim, the environment and the host.

\* A step that gives nobody the claim and leaves the volume's answer as it is.
LEMMA OutsideKeeps ==
  ASSUME AgentInv, Same, volume'.claim = volume.claim,
         UNCHANGED <<vm, answer, workspace, verdict>>, vm = "running",
         pc' \in [Agents -> AgentSteps],
         \A b \in Agents : pc'[b] = pc[b] \/ pc'[b] \in {"open", "claim", "exited"}
  PROVE  /\ HoldInv' /\ VolumeInv' /\ OverInv'
         /\ \A b \in Agents : LifeInv(exec[b])' /\ PhaseInv(b)'
PROOF
  <1>1. /\ HoldInv /\ VolumeInv /\ OverInv
        /\ \A b \in Agents : LifeInv(exec[b]) /\ PhaseInv(b)
    BY DEF AgentInv
  <1>2. /\ VolumeInv' /\ \A b \in Agents : LifeInv(exec[b])'
        /\ (Fresh' <=> Fresh) /\ (Unannounced' <=> Unannounced)
    BY <1>1, SameKeeps
  <1>3. \A b \in Agents : pc'[b] \in ClaimedSteps => pc'[b] = pc[b]
    BY DEF ClaimedSteps
  <1>4. HoldInv'
    BY <1>1, <1>2, <1>3 DEF HoldInv
  <1>5. verdict' = NoResult /\ vm' = "running"
    BY <1>1 DEF OverInv
  <1>6. OverInv'
    BY <1>5 DEF OverInv, AcceptedIsTrue
  <1>7. ASSUME NEW b \in Agents
        PROVE  PhaseInv(b)'
    <2>1. CASE pc'[b] \in {"open", "claim", "exited"}
      BY <2>1, IdlePhase
    <2>2. CASE pc'[b] = pc[b]
      BY <1>1, <1>2, <2>2 DEF PhaseInv, Same
    <2> QED BY <2>1, <2>2
  <1> QED BY <1>2, <1>4, <1>6, <1>7

LEMMA OpenKeeps ==
  ASSUME AgentInv, NEW a \in Agents, Open(a)
  PROVE  AgentInv'
PROOF
  <1>s. Shape /\ pc \in [Agents -> AgentSteps]
    BY DEF AgentInv, Shape
  <1> DEFINE found == Published(volume) \cap HostStates
  <1>1. /\ vm = "running" /\ pc[a] = "open"
        /\ UNCHANGED <<shared, vm, volume, answer, exec, launches, workspace, faults, verdict>>
        /\ \E next \in {"claim", "exited"} : pc' = [pc EXCEPT ![a] = next]
        /\ \/ UNCHANGED <<seen, last>>
           \/ /\ seen' = [seen EXCEPT ![a] = @ \cup found]
              /\ last' = [last EXCEPT ![a] =
                            IF found = {} THEN @
                            ELSE CHOOSE n \in {volume.status[s].seq : s \in found} :
                                   \A s \in found : volume.status[s].seq <= n]
    BY DEF Open, At, Observes, Goto, execVars
  <1>2. found \in SUBSET ProtocolStates
    BY DEF ProtocolStates
  <1> HIDE DEF found
  <1>3. seen' \in [Agents -> SUBSET ProtocolStates] /\ last' \in [Agents -> Nat]
    BY <1>s, <1>1, <1>2, ObservesTyped
  <1>4. /\ pc' \in [Agents -> AgentSteps]
        /\ \A b \in Agents : pc'[b] = pc[b] \/ pc'[b] \in {"open", "claim", "exited"}
    BY <1>s, <1>1 DEF AgentSteps
  <1>5. Same
    BY <1>1 DEF Same
  <1>6. /\ HoldInv' /\ VolumeInv' /\ OverInv'
        /\ \A b \in Agents : LifeInv(exec[b])' /\ PhaseInv(b)'
    BY <1>1, <1>4, <1>5, OutsideKeeps
  <1>7. Shape'
    BY <1>s, <1>1, <1>3, <1>4 DEF Shape
  <1> QED BY <1>6, <1>7 DEF AgentInv

\* Whoever gets the claim finds that nothing has happened.
LEMMA ClaimKeeps ==
  ASSUME AgentInv, NEW a \in Agents, Claim(a)
  PROVE  AgentInv'
PROOF
  <1>s. /\ Shape /\ HoldInv /\ VolumeInv /\ OverInv
        /\ \A b \in Agents : LifeInv(exec[b]) /\ PhaseInv(b)
        /\ pc \in [Agents -> AgentSteps] /\ volume \in VolumeShape
        /\ volume.claim \in BOOLEAN /\ volume.stray \in BOOLEAN
    BY DEF AgentInv, Shape, VolumeShape
  <1>1. PICK w \in WriteNew(volume.claim) :
           /\ Spend(w.cost)
           /\ volume' = [volume EXCEPT !.claim = @ \/ w.linked, !.stray = @ \/ w.stray]
           /\ Goto(a, IF ~w.ok THEN "exited"
                      ELSE IF "CancelRequested" \in seen[a] THEN "write_cancelled"
                      ELSE "configure_nic")
    BY DEF Claim
  <1>2. /\ w.ok \in BOOLEAN /\ w.linked \in BOOLEAN /\ w.stray \in BOOLEAN
        /\ w.ok => w.linked
        /\ w.linked => ~volume.claim
        /\ faults' \in 0..MaxFaults
    BY <1>s, <1>1, Writes
  <1>3. /\ vm = "running" /\ pc[a] = "claim"
        /\ UNCHANGED <<shared, vm, seen, last, answer, exec, launches, workspace, verdict>>
    BY DEF Claim, At, execVars
  <1> DEFINE claim == volume.claim \/ w.linked
             stray == volume.stray \/ w.stray
  <1>4. volume' = [volume EXCEPT !.claim = claim, !.stray = stray]
    BY <1>1
  <1>5. claim \in BOOLEAN /\ stray \in BOOLEAN /\ (w.ok => claim /\ ~volume.claim)
        /\ (volume.claim => claim)
    BY <1>2
  <1> HIDE DEF claim, stray
  <1>6. /\ volume' \in VolumeShape
        /\ volume'.claim = claim /\ volume'.status = volume.status
        /\ volume'.result = volume.result /\ volume'.evidence = volume.evidence
    <2>1. volume' \in VolumeShape
      BY <1>s, <1>4, <1>5, VolumeFields
    <2> QED BY <1>s, <1>4, <2>1 DEF VolumeShape
  <1>7. Same
    BY <1>3, <1>6 DEF Same
  <1>8. /\ VolumeInv' /\ \A b \in Agents : LifeInv(exec[b])'
        /\ (Fresh' <=> Fresh) /\ (Unannounced' <=> Unannounced)
    BY <1>s, <1>7, SameKeeps
  <1>9. PICK next \in {"exited", "write_cancelled", "configure_nic"} :
           /\ pc' = [pc EXCEPT ![a] = next]
           /\ next # "exited" => w.ok
    BY <1>1 DEF Goto
  <1>10. /\ pc' \in [Agents -> AgentSteps] /\ pc'[a] = next
         /\ \A b \in Agents \ {a} : pc'[b] = pc[b]
    BY <1>s, <1>9 DEF AgentSteps, ClaimedSteps
  <1>11. next # "exited" => Fresh /\ claim /\ \A b \in Agents : pc[b] \notin ClaimedSteps
    BY <1>s, <1>5, <1>9 DEF HoldInv
  <1>12. HoldInv'
    <2>1. \A b \in Agents : pc'[b] \in ClaimedSteps => claim
      BY <1>s, <1>5, <1>10, <1>11 DEF HoldInv, ClaimedSteps
    <2>2. \A b, c \in Agents : pc'[b] \in ClaimedSteps /\ pc'[c] \in ClaimedSteps => b = c
      BY <1>s, <1>10, <1>11 DEF HoldInv, ClaimedSteps
    <2>3. ~claim => Fresh'
      BY <1>s, <1>5, <1>8 DEF HoldInv
    <2> QED BY <1>6, <2>1, <2>2, <2>3 DEF HoldInv
  <1>13. OverInv'
    <2>1. verdict' = NoResult /\ vm' = "running"
      BY <1>s, <1>3 DEF OverInv
    <2> QED BY <2>1 DEF OverInv, AcceptedIsTrue
  <1>14. ASSUME NEW b \in Agents
         PROVE  PhaseInv(b)'
    <2>1. CASE b = a /\ next = "exited"
      BY <1>10, <2>1, IdlePhase
    <2>2. CASE b = a /\ next # "exited"
      BY <1>8, <1>10, <1>11, <2>2, FreshPhase DEF Preparing
    <2>3. CASE b # a
      BY <1>s, <1>3, <1>6, <1>8, <1>10, <2>3 DEF PhaseInv
    <2> QED BY <2>1, <2>2, <2>3
  <1>15. Shape'
    BY <1>s, <1>2, <1>3, <1>6, <1>10 DEF Shape
  <1> QED BY <1>8, <1>12, <1>13, <1>14, <1>15 DEF AgentInv

LEMMA HostKeeps ==
  ASSUME AgentInv, NEW state \in {"StartAllowed", "CancelRequested"}, HostPublishes(state)
  PROVE  AgentInv'
PROOF
  <1>s. Shape /\ pc \in [Agents -> AgentSteps] /\ volume \in VolumeShape
    BY DEF AgentInv, Shape
  <1>1. /\ vm = "running"
        /\ volume' = [volume EXCEPT !.status[state] = [seq |-> Last(volume) + 1, result |-> NoResult]]
        /\ UNCHANGED <<shared, vm, pc, seen, last, answer, exec, launches, workspace, faults, verdict>>
    BY DEF HostPublishes, execVars
  <1>2. Last(volume) \in Nat
    <2>1. Published(volume) \in SUBSET ProtocolStates
      BY DEF Published
    <2>2. CASE Published(volume) = {}
      BY <2>2 DEF Last
    <2>3. CASE Published(volume) # {}
      BY <1>s, <2>1, <2>3, LastChosen DEF Last
    <2> QED BY <2>2, <2>3
  <1> DEFINE record == [seq |-> Last(volume) + 1, result |-> NoResult]
             statuses == [volume.status EXCEPT ![state] = record]
  <1>3. record \in [seq : Nat, result : Results]
    BY <1>2
  <1>4. volume.status \in [ProtocolStates -> [seq : Nat, result : Results]]
    BY <1>s DEF VolumeShape
  <1>5. /\ volume' = [volume EXCEPT !.status = statuses]
    BY <1>1, <1>s DEF VolumeShape
  <1> HIDE DEF record
  <1>6. /\ statuses \in [ProtocolStates -> [seq : Nat, result : Results]]
        /\ statuses["Completed"] = volume.status["Completed"]
    BY <1>3, <1>4 DEF ProtocolStates, HostStates, GuestStates
  <1> HIDE DEF statuses
  <1>7. volume' \in VolumeShape
    BY <1>s, <1>5, <1>6, VolumeFields
  <1>8. /\ volume'.claim = volume.claim /\ volume'.status = statuses
        /\ volume'.result = volume.result /\ volume'.evidence = volume.evidence
    BY <1>s, <1>5 DEF VolumeShape
  <1>9. Same
    BY <1>1, <1>6, <1>8 DEF Same
  <1>10. /\ HoldInv' /\ VolumeInv' /\ OverInv'
         /\ \A b \in Agents : LifeInv(exec[b])' /\ PhaseInv(b)'
    BY <1>s, <1>1, <1>8, <1>9, OutsideKeeps
  <1>11. Shape'
    BY <1>s, <1>1, <1>7 DEF Shape
  <1> QED BY <1>10, <1>11 DEF AgentInv

\* The death of an agent, or of all of them, takes nothing back.
LEMMA DownKeeps ==
  ASSUME AgentInv, volume' = volume, UNCHANGED <<shared, launches, workspace, verdict>>,
         vm = "running", vm' \in {"running", "off"}, faults' \in 0..MaxFaults,
         seen' \in [Agents -> SUBSET ProtocolStates], last' \in [Agents -> Nat],
         answer' \in [Agents -> Results], pc' \in [Agents -> AgentSteps],
         exec' \in [Agents -> Execution],
         \A b \in Agents :
            \/ /\ pc'[b] \in {"open", "exited"}
               /\ \E reboot \in BOOLEAN : exec'[b] = Abandoned(exec[b], reboot)
            \/ /\ pc'[b] = pc[b] /\ answer'[b] = answer[b] /\ exec'[b] = exec[b] /\ vm' = "running",
         vm' = "off" => \A b \in Agents : pc'[b] = "exited" /\ ~Alive(exec'[b])
  PROVE  AgentInv'
PROOF
  <1>s. /\ Shape /\ HoldInv /\ VolumeInv /\ OverInv
        /\ \A b \in Agents : LifeInv(exec[b]) /\ PhaseInv(b)
        /\ exec \in [Agents -> Execution] /\ volume \in VolumeShape
    BY DEF AgentInv, Shape
  <1>1. ASSUME NEW b \in Agents
        PROVE  /\ LifeInv(exec'[b])
               /\ exec[b].root = "exited" => exec'[b].root = "exited"
               /\ exec[b] = NoExecution => exec'[b] = NoExecution
    <2>1. exec[b] \in Execution /\ LifeInv(exec[b])
      BY <1>s
    <2>2. CASE exec'[b] = exec[b]
      BY <2>1, <2>2
    <2>3. CASE \E reboot \in BOOLEAN : exec'[b] = Abandoned(exec[b], reboot)
      BY <2>1, <2>3, AbandonedDead
    <2> QED BY <2>2, <2>3
  <1>2. Fresh => Fresh'
    BY <1>1 DEF Fresh, Unannounced
  <1>3. \A b \in Agents : pc'[b] \in ClaimedSteps =>
           pc'[b] = pc[b] /\ answer'[b] = answer[b] /\ exec'[b] = exec[b]
    BY DEF ClaimedSteps
  <1>4. HoldInv'
    BY <1>s, <1>2, <1>3 DEF HoldInv
  <1>5. CompletedBacked' <=> CompletedBacked
    BY DEF CompletedBacked, Published
  <1>6. VolumeInv'
    BY <1>s, <1>1, <1>5 DEF VolumeInv
  <1>7. OverInv'
    <2>1. verdict' = NoResult
      BY <1>s DEF OverInv
    <2> QED BY <2>1 DEF OverInv, AcceptedIsTrue
  <1>8. ASSUME NEW b \in Agents
        PROVE  PhaseInv(b)'
    <2>1. CASE pc'[b] \in {"open", "exited"}
      BY <2>1, IdlePhase
    <2>2. CASE pc'[b] = pc[b] /\ answer'[b] = answer[b] /\ exec'[b] = exec[b]
      BY <1>s, <1>2, <2>2 DEF PhaseInv, Unannounced
    <2> QED BY <2>1, <2>2
  <1>9. Shape'
    BY <1>s DEF Shape
  <1> QED BY <1>1, <1>4, <1>6, <1>7, <1>8, <1>9 DEF AgentInv

LEMMA RestartKeeps ==
  ASSUME AgentInv, NEW a \in Agents, AgentRestarts(a)
  PROVE  AgentInv'
PROOF
  <1>t. /\ \A b \in Agents : LifeInv(exec[b])
        /\ pc \in [Agents -> AgentSteps] /\ exec \in [Agents -> Execution]
        /\ seen \in [Agents -> SUBSET ProtocolStates] /\ last \in [Agents -> Nat]
        /\ answer \in [Agents -> Results] /\ faults \in 0..MaxFaults
    BY DEF AgentInv, Shape
  <1>1. /\ vm = "running" /\ UNCHANGED <<shared, vm, volume, launches, workspace, verdict>>
        /\ Spend(1) /\ pc' = [pc EXCEPT ![a] = "open"]
        /\ seen' = [seen EXCEPT ![a] = {}] /\ last' = [last EXCEPT ![a] = 0]
        /\ answer' = [answer EXCEPT ![a] = NoResult]
    BY DEF AgentRestarts, Goto, Forget
  <1>2. PICK reboot \in BOOLEAN : exec' = [exec EXCEPT ![a] = Abandoned(exec[a], reboot)]
    BY DEF AgentRestarts
  <1>3. Abandoned(exec[a], reboot) \in Execution
    BY <1>t, AbandonedDead
  <1>4. /\ exec' \in [Agents -> Execution] /\ exec'[a] = Abandoned(exec[a], reboot)
        /\ \A b \in Agents \ {a} : exec'[b] = exec[b]
    BY <1>t, <1>2, <1>3
  <1>5. /\ pc' \in [Agents -> AgentSteps] /\ pc'[a] = "open"
        /\ \A b \in Agents \ {a} : pc'[b] = pc[b] /\ answer'[b] = answer[b]
        /\ answer' \in [Agents -> Results]
        /\ seen' \in [Agents -> SUBSET ProtocolStates] /\ last' \in [Agents -> Nat]
        /\ faults' \in 0..MaxFaults
    BY <1>t, <1>1 DEF AgentSteps, Spend
  <1>6. \A b \in Agents :
           \/ /\ pc'[b] \in {"open", "exited"}
              /\ \E r \in BOOLEAN : exec'[b] = Abandoned(exec[b], r)
           \/ /\ pc'[b] = pc[b] /\ answer'[b] = answer[b] /\ exec'[b] = exec[b] /\ vm' = "running"
    BY <1>1, <1>4, <1>5
  <1>7. vm' = "running" /\ volume' = volume
    BY <1>1
  <1> QED BY <1>1, <1>4, <1>5, <1>6, <1>7, DownKeeps

LEMMA StopKeeps ==
  ASSUME AgentInv, vm = "running", GuestGoesDown, UNCHANGED <<shared, volume, verdict>>
  PROVE  AgentInv'
PROOF
  <1>t. /\ \A b \in Agents : LifeInv(exec[b])
        /\ exec \in [Agents -> Execution] /\ faults \in 0..MaxFaults
    BY DEF AgentInv, Shape
  <1>1. /\ vm' = "off" /\ UNCHANGED <<launches, workspace, faults>>
        /\ pc' = [b \in Agents |-> "exited"] /\ seen' = [b \in Agents |-> {}]
        /\ last' = [b \in Agents |-> 0] /\ answer' = [b \in Agents |-> NoResult]
        /\ exec' = [b \in Agents |-> Abandoned(exec[b], TRUE)]
    BY DEF GuestGoesDown
  <1>2. \A b \in Agents : /\ Abandoned(exec[b], TRUE) \in Execution
                          /\ ~Alive(Abandoned(exec[b], TRUE))
    BY <1>t, AbandonedDead
  <1>3. /\ exec' \in [Agents -> Execution]
        /\ \A b \in Agents : exec'[b] = Abandoned(exec[b], TRUE) /\ ~Alive(exec'[b])
                             /\ pc'[b] = "exited"
    BY <1>1, <1>2
  <1>4. /\ pc' \in [Agents -> AgentSteps] /\ answer' \in [Agents -> Results]
        /\ seen' \in [Agents -> SUBSET ProtocolStates] /\ last' \in [Agents -> Nat]
        /\ faults' \in 0..MaxFaults
    BY <1>t, <1>1 DEF AgentSteps
  <1>5. \A b \in Agents :
           \/ /\ pc'[b] \in {"open", "exited"}
              /\ \E r \in BOOLEAN : exec'[b] = Abandoned(exec[b], r)
           \/ /\ pc'[b] = pc[b] /\ answer'[b] = answer[b] /\ exec'[b] = exec[b] /\ vm' = "running"
    BY <1>3
  <1> QED BY <1>1, <1>3, <1>4, <1>5, DownKeeps

LEMMA TargetKeeps ==
  ASSUME AgentInv, NEW a \in Agents, TargetActs(a)
  PROVE  AgentInv'
PROOF
  <1>s. /\ Shape /\ HoldInv /\ VolumeInv /\ OverInv
        /\ \A b \in Agents : LifeInv(exec[b]) /\ PhaseInv(b)
    BY DEF AgentInv
  <1>1. /\ vm = "running" /\ Target(a)
        /\ UNCHANGED <<shared, vm, volume, pc, seen, last, answer, workspace, verdict>>
    BY DEF TargetActs, agentVars
  <1>2. /\ exec' \in [Agents -> Execution] /\ UNCHANGED <<launches, faults>>
        /\ \A b \in Agents \ {a} : exec'[b] = exec[b]
        /\ LifeInv(exec'[a]) /\ exec[a] # NoExecution
        /\ exec'[a].step = exec[a].step /\ exec'[a].outcome = exec[a].outcome
        /\ exec'[a].reported = exec[a].reported
        /\ exec[a].root = "exited" => exec'[a].root = "exited"
    BY <1>s, <1>1, TargetAdvance
  <1>3. ~Fresh
    BY <1>2 DEF Fresh
  <1>4. HoldInv'
    BY <1>s, <1>1, <1>3 DEF HoldInv
  <1>5. CompletedBacked' <=> CompletedBacked
    BY <1>1 DEF CompletedBacked, Published
  <1>6. VolumeInv'
    BY <1>s, <1>1, <1>2, <1>5 DEF VolumeInv
  <1>7. OverInv'
    <2>1. verdict' = NoResult /\ vm' = "running"
      BY <1>s, <1>1 DEF OverInv
    <2> QED BY <2>1 DEF OverInv, AcceptedIsTrue
  <1>8. ASSUME NEW b \in Agents
        PROVE  PhaseInv(b)' /\ LifeInv(exec[b])'
    <2>1. /\ exec'[b].step = exec[b].step /\ exec'[b].outcome = exec[b].outcome
          /\ exec'[b].reported = exec[b].reported
          /\ exec[b].root = "exited" => exec'[b].root = "exited"
          /\ LifeInv(exec'[b])
      BY <1>s, <1>2
    <2> QED BY <1>s, <1>1, <1>2, <1>3, <2>1 DEF PhaseInv, Unannounced
  <1>9. Shape'
    BY <1>s, <1>1, <1>2 DEF Shape
  <1> QED BY <1>4, <1>6, <1>7, <1>8, <1>9 DEF AgentInv

\* What the host accepts is what the volume says.
LEMMA CollectKeeps ==
  ASSUME AgentInv, Collect
  PROVE  AgentInv'
PROOF
  <1>s. /\ Shape /\ HoldInv /\ VolumeInv /\ OverInv
        /\ \A b \in Agents : LifeInv(exec[b]) /\ PhaseInv(b)
        /\ volume \in VolumeShape /\ volume.result \in Results
    BY DEF AgentInv, Shape, VolumeShape
  <1>1. /\ vm = "off" /\ verdict' \in {volume.result, "rejected"}
        /\ UNCHANGED <<shared, vm, volume, pc, seen, last, answer, exec, launches, workspace, faults>>
    BY DEF Collect, execVars
  <1>2. AcceptedIsTrue'
    BY <1>s, <1>1 DEF AcceptedIsTrue, VolumeInv, OverInv
  <1>3. OverInv'
    BY <1>s, <1>1, <1>2 DEF OverInv
  <1>4. Same
    BY <1>1 DEF Same
  <1>5. /\ VolumeInv' /\ \A b \in Agents : LifeInv(exec[b])'
        /\ (Fresh' <=> Fresh) /\ (Unannounced' <=> Unannounced)
    BY <1>s, <1>4, SameKeeps
  <1>6. HoldInv' /\ \A b \in Agents : PhaseInv(b)'
    BY <1>s, <1>1, <1>5 DEF HoldInv, PhaseInv
  <1>7. Shape'
    BY <1>s, <1>1 DEF Shape
  <1> QED BY <1>3, <1>5, <1>6, <1>7 DEF AgentInv

LEMMA AgentInvInit == Init => AgentInv
PROOF
  <1> SUFFICES ASSUME Init PROVE AgentInv
    OBVIOUS
  <1>1. /\ vm = "running" /\ launches = 0 /\ verdict = NoResult /\ faults = 0
        /\ workspace = FALSE /\ shared \in BOOLEAN
        /\ pc = [a \in Agents |-> "open"] /\ exec = [a \in Agents |-> NoExecution]
        /\ seen = [a \in Agents |-> {}] /\ last = [a \in Agents |-> 0]
        /\ answer = [a \in Agents |-> NoResult]
    BY DEF Init
  <1> DEFINE statuses == Staged(~shared)
  <1>2. /\ statuses \in [ProtocolStates -> [seq : Nat, result : Results]]
        /\ statuses["Completed"].seq = 0
    BY DEF Staged, NoRecord, ProtocolStates, HostStates, GuestStates
  <1>3. volume = [status |-> statuses, claim |-> FALSE, result |-> NoResult,
                  evidence |-> "none", extracted |-> FALSE, stray |-> FALSE]
    BY DEF Init
  <1> HIDE DEF statuses
  <1>4. volume \in VolumeShape
    BY <1>2, <1>3 DEF VolumeShape
  <1>5. /\ volume.claim = FALSE /\ volume.result = NoResult /\ volume.evidence = "none"
        /\ Unannounced
    BY <1>2, <1>3 DEF Unannounced
  <1>6. Shape
    <2>1. pc \in [Agents -> AgentSteps] /\ exec \in [Agents -> Execution]
      BY <1>1, FreshExecution DEF AgentSteps
    <2>2. /\ seen \in [Agents -> SUBSET ProtocolStates] /\ last \in [Agents -> Nat]
          /\ answer \in [Agents -> Results]
      BY <1>1
    <2>3. faults \in 0..MaxFaults /\ launches \in Nat
      BY <1>1
    <2>4. workspace \in BOOLEAN /\ vm \in {"running", "off"} /\ verdict \in Results \cup {"rejected"}
      BY <1>1
    <2> QED BY <1>1, <1>4, <2>1, <2>2, <2>3, <2>4 DEF Shape
  <1>7. \A a \in Agents : pc[a] = "open" /\ exec[a] = NoExecution
    BY <1>1
  <1>8. HoldInv
    BY <1>1, <1>5, <1>7 DEF HoldInv, Fresh, ClaimedSteps
  <1>9. CompletedBacked
    BY <1>5 DEF CompletedBacked, Published, Unannounced
  <1>10. VolumeInv
    BY <1>1, <1>5, <1>9 DEF VolumeInv
  <1>11. OverInv
    BY <1>1 DEF OverInv, AcceptedIsTrue
  <1>12. \A a \in Agents : LifeInv(exec[a]) /\ PhaseInv(a)
    BY <1>7, FreshExecution DEF PhaseInv, Preparing, Unanswered, Failing
  <1> QED BY <1>6, <1>8, <1>10, <1>11, <1>12 DEF AgentInv

LEMMA AgentInvStep == AgentInv /\ [Next]_vars => AgentInv'
PROOF
  <1> SUFFICES ASSUME AgentInv, [Next]_vars PROVE AgentInv'
    OBVIOUS
  <1>1. ASSUME NEW a \in Agents, Agent(a)
        PROVE  AgentInv'
    <2>1. CASE Open(a) \/ Claim(a)
      BY <2>1, OpenKeeps, ClaimKeeps
    <2>2. CASE ConfigureNic(a) \/ AwaitStart(a) \/ Stage(a)
      BY <2>2, WaitKeeps
    <2>3. CASE PublishReady(a) \/ PublishRunning(a) \/ PublishFailed(a) \/ PublishShutdown(a)
      BY <2>3, RecordsKeep
    <2>4. CASE ScanPrimary(a) \/ Execute(a) \/ CollectFiles(a) \/ CleanupWorkspace(a)
      BY <2>4, ScanKeeps, ExecuteKeeps, CollectFilesKeeps, CleanupKeeps
    <2>5. CASE WriteEvidence(a) \/ PrepareFailed(a)
      BY <2>5, EvidenceKeeps
    <2>6. CASE WriteResult(a) \/ WriteFailed(a) \/ WriteCancelled(a)
      BY <2>6, ResultsKeep
    <2>7. CASE PublishCompleted(a)
      BY <2>7, CompletionKeeps
    <2>8. CASE Shutdown(a)
      BY <2>8, StopKeeps DEF Shutdown, At
    <2> QED BY <1>1, <2>1, <2>2, <2>3, <2>4, <2>5, <2>6, <2>7, <2>8 DEF Agent
  <1>2. ASSUME NEW a \in Agents, TargetActs(a) \/ AgentRestarts(a)
        PROVE  AgentInv'
    BY <1>2, TargetKeeps, RestartKeeps
  <1>3. ASSUME NEW state \in {"StartAllowed", "CancelRequested"}, HostPublishes(state)
        PROVE  AgentInv'
    BY <1>3, HostKeeps
  <1>4. CASE GuestStops
    BY <1>4, StopKeeps DEF GuestStops
  <1>5. CASE Collect
    BY <1>5, CollectKeeps
  <1>6. CASE UNCHANGED vars
    <2>1. /\ UNCHANGED <<shared, vm, volume, pc, seen, last, answer, exec, launches, workspace,
                         faults, verdict>>
      BY <1>6 DEF vars, agentVars, execVars
    <2>2. Same
      BY <2>1 DEF Same
    <2>3. /\ Shape /\ HoldInv /\ VolumeInv /\ OverInv
          /\ \A b \in Agents : LifeInv(exec[b]) /\ PhaseInv(b)
      BY DEF AgentInv
    <2>4. /\ VolumeInv' /\ \A b \in Agents : LifeInv(exec[b])'
          /\ (Fresh' <=> Fresh) /\ (Unannounced' <=> Unannounced)
      BY <2>2, <2>3, SameKeeps
    <2>5. HoldInv' /\ \A b \in Agents : PhaseInv(b)'
      BY <2>1, <2>3, <2>4 DEF HoldInv, PhaseInv
    <2>6. Shape' /\ OverInv'
      BY <2>1, <2>3 DEF Shape, OverInv, AcceptedIsTrue
    <2> QED BY <2>4, <2>5, <2>6 DEF AgentInv
  <1> QED BY <1>1, <1>2, <1>3, <1>4, <1>5, <1>6 DEF Next

LEMMA AgentInvAlways == Spec => []AgentInv
  BY AgentInvInit, AgentInvStep, PTL DEF Spec

-----------------------------------------------------------------------------
\* Sequence numbers stay within the number of records, and with them the types.

Counted ==
    /\ \A s \in ProtocolStates : volume.status[s].seq <= Cardinality(Published(volume))
    /\ \A a \in Agents : last[a] <= Cardinality(Published(volume))

LEMMA PublishedFinite ==
  ASSUME NEW v
  PROVE  /\ IsFiniteSet(ProtocolStates) /\ IsFiniteSet(Published(v))
         /\ Cardinality(ProtocolStates) \in Nat /\ Cardinality(Published(v)) \in Nat
         /\ Cardinality(Published(v)) <= Cardinality(ProtocolStates)
PROOF
  <1>1. IsFiniteSet({})
    BY FS_EmptySet
  <1>2. \A S, x : IsFiniteSet(S) => IsFiniteSet(S \cup {x})
    BY FS_AddElement
  <1> DEFINE S1 == {} \cup {"HostReady"} \cup {"RequestWritten"} \cup {"StartAllowed"}
             S2 == S1 \cup {"CancelRequested"} \cup {"GuestReady"} \cup {"Running"}
             S3 == S2 \cup {"Completed"} \cup {"Failed"} \cup {"ShutdownReady"}
  <1>3. IsFiniteSet(S1)
    BY <1>1, <1>2
  <1> HIDE DEF S1
  <1>4. IsFiniteSet(S2)
    BY <1>2, <1>3
  <1> HIDE DEF S2
  <1>5. IsFiniteSet(S3)
    BY <1>2, <1>4
  <1>6. ProtocolStates = S3
    BY DEF ProtocolStates, HostStates, GuestStates, S1, S2
  <1>7. Published(v) \in SUBSET ProtocolStates
    BY DEF Published
  <1> QED BY <1>5, <1>6, <1>7, FS_Subset, FS_CardinalityType

\* A step that publishes nothing and remembers only what it found.
LEMMA CountedKept ==
  ASSUME Counted, Shape, Published(volume') = Published(volume),
         volume'.status = volume.status, last' \in [Agents -> Nat],
         \A a \in Agents : \/ last'[a] \in {last[a], 0}
                           \/ \E s \in ProtocolStates : last'[a] = volume.status[s].seq
  PROVE  Counted'
PROOF
  <1>1. Cardinality(Published(volume)) \in Nat
    BY PublishedFinite
  <1> QED BY <1>1 DEF Counted

\* A record that is new has the next number.
LEMMA CountedMore ==
  ASSUME Counted, Shape, Shape', NEW state \in ProtocolStates,
         \A s \in ProtocolStates \ {state} : volume'.status[s] = volume.status[s],
         \/ volume'.status[state] = volume.status[state] /\ UNCHANGED last
         \/ /\ state \notin Published(volume)
            /\ volume'.status[state].seq \in 1..Cardinality(Published(volume)) + 1
            /\ \A a \in Agents : last'[a] \in {last[a], volume'.status[state].seq}
  PROVE  Counted'
PROOF
  <1> DEFINE P == Published(volume)
             Q == Published(volume')
  <1>1. IsFiniteSet(P) /\ Cardinality(P) \in Nat
    BY PublishedFinite
  <1>2. \A s \in ProtocolStates : volume.status[s].seq \in Nat
    BY DEF Shape, VolumeShape
  <1>3. CASE volume'.status[state] = volume.status[state] /\ UNCHANGED last
    <2>1. \A s \in ProtocolStates : volume'.status[s] = volume.status[s]
      BY <1>3
    <2>2. Q = P
      BY <2>1 DEF Published
    <2> QED BY <1>3, <2>1, <2>2 DEF Counted
  <1>4. CASE /\ state \notin P
             /\ volume'.status[state].seq \in 1..Cardinality(P) + 1
             /\ \A a \in Agents : last'[a] \in {last[a], volume'.status[state].seq}
    <2>1. volume'.status[state].seq > 0
      BY <1>1, <1>4
    <2>2. Q = P \cup {state}
      BY <2>1 DEF Published
    <2>3. Cardinality(Q) = Cardinality(P) + 1
      BY <1>1, <1>4, <2>2, FS_AddElement
    <2> HIDE DEF P, Q
    <2>4. \A s \in ProtocolStates : volume'.status[s].seq <= Cardinality(Q)
      BY <1>1, <1>2, <1>4, <2>3 DEF Counted, P
    <2>5. \A a \in Agents : last'[a] <= Cardinality(Q)
      BY <1>1, <1>4, <2>3 DEF Counted, P, Shape
    <2> QED BY <2>4, <2>5 DEF Counted, Q
  <1> QED BY <1>3, <1>4

LEMMA PublishCounted ==
  ASSUME Counted, Shape, Shape', NEW a \in Agents, NEW here, NEW state \in ProtocolStates,
         NEW result \in Results, NEW ok, NEW failed,
         Recorded(a, here, state, result, ok, failed)
  PROVE  Counted'
PROOF
  <1>1. Cardinality(Published(volume)) \in Nat
    BY PublishedFinite
  <1>2. last \in [Agents -> Nat] /\ last[a] <= Cardinality(Published(volume))
    BY DEF Shape, Counted
  <1>3. last[a] + 1 \in 1..Cardinality(Published(volume)) + 1
    BY <1>1, <1>2
  <1>4. \A s \in ProtocolStates \ {state} : volume'.status[s] = volume.status[s]
    BY DEF Recorded
  <1>5. CASE volume'.status[state] = volume.status[state] /\ UNCHANGED last
    BY <1>4, <1>5, CountedMore
  <1>6. CASE /\ volume'.status[state] = [seq |-> last[a] + 1, result |-> result]
             /\ state \notin Published(volume)
             /\ last' \in {last, [last EXCEPT ![a] = last[a] + 1]}
    <2>1. volume'.status[state].seq = last[a] + 1
      BY <1>6
    <2>2. \A b \in Agents : last'[b] \in {last[b], last[a] + 1}
      BY <1>2, <1>6
    <2> QED BY <1>3, <1>4, <1>6, <2>1, <2>2, CountedMore
  <1> QED BY <1>5, <1>6 DEF Recorded

\* A last sequence that comes from the records found.
LEMMA ObservedCounted ==
  ASSUME Counted, Shape, NEW a \in Agents, NEW records \in SUBSET ProtocolStates,
         UNCHANGED volume,
         \/ UNCHANGED last
         \/ last' = [last EXCEPT ![a] =
                       IF records = {} THEN @
                       ELSE CHOOSE n \in {volume.status[s].seq : s \in records} :
                              \A s \in records : volume.status[s].seq <= n]
  PROVE  Counted'
PROOF
  <1> DEFINE n == CHOOSE n \in {volume.status[s].seq : s \in records} :
                    \A s \in records : volume.status[s].seq <= n
  <1>1. records # {} => n \in Nat /\ n \in {volume.status[s].seq : s \in records}
    BY LastChosen
  <1>2. last \in [Agents -> Nat]
    BY DEF Shape
  <1>3. \/ UNCHANGED last
        \/ last' = [last EXCEPT ![a] = IF records = {} THEN last[a] ELSE n]
    OBVIOUS
  <1> HIDE DEF n
  <1>4. last' \in [Agents -> Nat]
    <2>1. (IF records = {} THEN last[a] ELSE n) \in Nat
      BY <1>1, <1>2
    <2> QED BY <1>2, <1>3, <2>1
  <1>5. \A b \in Agents : \/ last'[b] \in {last[b], 0}
                           \/ \E s \in ProtocolStates : last'[b] = volume.status[s].seq
    BY <1>1, <1>2, <1>3
  <1> QED BY <1>4, <1>5, CountedKept

LEMMA CountedStep == AgentInv /\ Counted /\ [Next]_vars => Counted'
PROOF
  <1> SUFFICES ASSUME AgentInv, Counted, [Next]_vars PROVE Counted'
    OBVIOUS
  <1>s. /\ Shape /\ Shape' /\ volume \in VolumeShape /\ last \in [Agents -> Nat]
        /\ last' \in [Agents -> Nat] /\ \A a \in Agents : answer[a] \in Results
    BY AgentInvStep DEF AgentInv, Shape
  <1>q. ASSUME volume'.status = volume.status, \A a \in Agents : last'[a] \in {last[a], 0}
        PROVE  Counted'
    <2>1. Published(volume') = Published(volume)
      BY <1>q DEF Published
    <2> QED BY <1>s, <1>q, <2>1, CountedKept
  <1>1. ASSUME NEW a \in Agents, Agent(a)
        PROVE  Counted'
    <2>1. CASE Open(a)
      <3> DEFINE found == Published(volume) \cap HostStates
      <3>1. found \in SUBSET ProtocolStates
        BY DEF ProtocolStates
      <3>2. \/ UNCHANGED last
            \/ last' = [last EXCEPT ![a] =
                          IF found = {} THEN @
                          ELSE CHOOSE n \in {volume.status[s].seq : s \in found} :
                                 \A s \in found : volume.status[s].seq <= n]
        BY <2>1 DEF Open, Observes
      <3>3. UNCHANGED volume
        BY <2>1 DEF Open
      <3> HIDE DEF found
      <3> QED BY <1>s, <3>1, <3>2, <3>3, ObservedCounted
    <2>2. CASE AwaitStart(a)
      <3> DEFINE new == (Published(volume) \cap {"StartAllowed", "CancelRequested"}) \ seen[a]
      <3>1. /\ UNCHANGED volume
            /\ \/ UNCHANGED last
               \/ \E found \in {new, new \ {"StartAllowed"}} :
                     last' = [last EXCEPT ![a] =
                                IF found = {} THEN @
                                ELSE CHOOSE n \in {volume.status[s].seq : s \in found} :
                                       \A s \in found : volume.status[s].seq <= n]
        BY <2>2 DEF AwaitStart, Observes
      <3>2. new \in SUBSET ProtocolStates /\ new \ {"StartAllowed"} \in SUBSET ProtocolStates
        BY DEF ProtocolStates, HostStates
      <3> HIDE DEF new
      <3>3. ASSUME NEW found \in {new, new \ {"StartAllowed"}},
                   last' = [last EXCEPT ![a] =
                              IF found = {} THEN @
                              ELSE CHOOSE n \in {volume.status[s].seq : s \in found} :
                                     \A s \in found : volume.status[s].seq <= n]
            PROVE  Counted'
        <4>1. found \in SUBSET ProtocolStates
          BY <3>2, <3>3
        <4> QED BY <1>s, <3>1, <3>3, <4>1, ObservedCounted
      <3>4. CASE UNCHANGED last
        BY <1>q, <1>s, <3>1, <3>4
      <3> QED BY <3>1, <3>3, <3>4
    <2>3. ASSUME NEW here, NEW state \in ProtocolStates, NEW result \in Results, NEW ok, NEW failed,
                 Publish(a, here, state, result, ok, failed)
          PROVE  Counted'
      BY <1>s, <2>3, PublishEffect, PublishCounted
    <2>4. CASE PublishReady(a) \/ PublishRunning(a)
      BY <2>3, <2>4 DEF PublishReady, PublishRunning, ProtocolStates, GuestStates
    <2>5. CASE PublishCompleted(a) \/ PublishFailed(a) \/ PublishShutdown(a)
      BY <1>s, <2>3, <2>5 DEF PublishCompleted, PublishFailed, PublishShutdown,
                              ProtocolStates, GuestStates
    <2>6. CASE ConfigureNic(a) \/ Stage(a) \/ Execute(a) \/ CleanupWorkspace(a)
      BY <1>q, <2>6 DEF ConfigureNic, Stage, Execute, CleanupWorkspace, agentVars
    <2>7. CASE Claim(a) \/ ScanPrimary(a)
      BY <1>s, <1>q, <2>7 DEF Claim, ScanPrimary, VolumeShape
    <2>8. CASE CollectFiles(a) \/ WriteEvidence(a) \/ PrepareFailed(a)
      BY <1>s, <1>q, <2>8 DEF CollectFiles, WriteEvidence, PrepareFailed, VolumeShape
    <2>9. CASE WriteResult(a) \/ WriteFailed(a) \/ WriteCancelled(a)
      BY <1>s, <1>q, <2>9 DEF WriteResult, WriteFailed, WriteCancelled, PublishResult, VolumeShape
    <2>10. CASE Shutdown(a)
      BY <1>q, <2>10 DEF Shutdown, GuestGoesDown
    <2> QED BY <1>1, <2>1, <2>2, <2>4, <2>5, <2>6, <2>7, <2>8, <2>9, <2>10 DEF Agent
  <1>2. CASE \E a \in Agents : TargetActs(a) \/ AgentRestarts(a)
    BY <1>s, <1>q, <1>2 DEF TargetActs, AgentRestarts, Forget, agentVars
  <1>3. ASSUME NEW state \in {"StartAllowed", "CancelRequested"}, HostPublishes(state)
        PROVE  Counted'
    <2> DEFINE record == [seq |-> Last(volume) + 1, result |-> NoResult]
    <2>1. /\ volume' = [volume EXCEPT !.status[state] = record]
          /\ UNCHANGED last /\ state \notin Published(volume)
      BY <1>3 DEF HostPublishes
    <2>2. state \in ProtocolStates /\ Cardinality(Published(volume)) \in Nat
      BY PublishedFinite DEF ProtocolStates, HostStates
    <2>3. Last(volume) \in Nat /\ Last(volume) <= Cardinality(Published(volume))
      <3>1. Published(volume) \in SUBSET ProtocolStates
        BY DEF Published
      <3>2. CASE Published(volume) = {}
        BY <2>2, <3>2 DEF Last
      <3>3. CASE Published(volume) # {}
        <4>1. /\ Last(volume) \in Nat
              /\ Last(volume) \in {volume.status[s].seq : s \in Published(volume)}
          BY <1>s, <3>1, <3>3, LastChosen DEF Last
        <4> QED BY <3>1, <4>1 DEF Counted
      <3> QED BY <3>2, <3>3
    <2>4. record.seq \in 1..Cardinality(Published(volume)) + 1
      BY <2>2, <2>3
    <2> HIDE DEF record
    <2>5. /\ volume'.status[state] = record
          /\ \A s \in ProtocolStates \ {state} : volume'.status[s] = volume.status[s]
      BY <1>s, <2>1, <2>2 DEF VolumeShape
    <2> QED BY <1>s, <2>1, <2>2, <2>4, <2>5, CountedMore
  <1>4. CASE GuestStops
    BY <1>q, <1>4 DEF GuestStops, GuestGoesDown
  <1>5. CASE Collect
    BY <1>q, <1>5 DEF Collect
  <1>6. CASE UNCHANGED vars
    BY <1>q, <1>6 DEF vars, agentVars
  <1> QED BY <1>1, <1>2, <1>3, <1>4, <1>5, <1>6 DEF Next

LEMMA CountedInit == Init => Counted
PROOF
  <1> SUFFICES ASSUME Init PROVE Counted
    OBVIOUS
  <1> DEFINE P == Published(volume)
  <1>1. /\ volume.status = Staged(~shared)
        /\ \A a \in Agents : last[a] = 0
    BY DEF Init
  <1>2. IsFiniteSet(P) /\ Cardinality(P) \in Nat
    BY PublishedFinite
  <1>3. {"HostReady", "RequestWritten"} \subseteq P
    BY <1>1 DEF Published, Staged, ProtocolStates, HostStates, GuestStates
  <1>4. volume.status["StartAllowed"].seq = 3 => "StartAllowed" \in P
    BY DEF Published, ProtocolStates, HostStates
  <1>5. Cardinality({"HostReady"}) = 1 /\ IsFiniteSet({"HostReady"})
    <2>1. {} \cup {"HostReady"} = {"HostReady"}
      OBVIOUS
    <2> QED BY <2>1, FS_EmptySet, FS_AddElement
  <1>6. /\ Cardinality({"HostReady"} \cup {"RequestWritten"}) = 2
        /\ IsFiniteSet({"HostReady"} \cup {"RequestWritten"})
    BY <1>5, FS_AddElement
  <1>7. Cardinality({"HostReady"} \cup {"RequestWritten"} \cup {"StartAllowed"}) = 3
    BY <1>6, FS_AddElement
  <1>8. /\ Cardinality(P) >= 2
        /\ "StartAllowed" \in P => Cardinality(P) >= 3
    <2>1. {"HostReady"} \cup {"RequestWritten"} \in SUBSET P
      BY <1>3
    <2>2. "StartAllowed" \in P =>
             {"HostReady"} \cup {"RequestWritten"} \cup {"StartAllowed"} \in SUBSET P
      BY <1>3
    <2>3. Cardinality({"HostReady"} \cup {"RequestWritten"}) <= Cardinality(P)
      BY <1>2, <2>1, FS_Subset
    <2>4. "StartAllowed" \in P =>
             Cardinality({"HostReady"} \cup {"RequestWritten"} \cup {"StartAllowed"}) <= Cardinality(P)
      BY <1>2, <2>2, FS_Subset
    <2> QED BY <1>2, <1>6, <1>7, <2>3, <2>4
  <1>9. \A s \in ProtocolStates :
           \/ volume.status[s].seq \in {0, 1, 2}
           \/ s = "StartAllowed" /\ volume.status[s].seq = 3
    BY <1>1 DEF Staged, NoRecord, ProtocolStates, HostStates, GuestStates
  <1> HIDE DEF P
  <1> QED BY <1>1, <1>2, <1>4, <1>8, <1>9 DEF Counted, P

\* Without an agent nothing is launched.
NoLaunch == Agents = {} => launches = 0

LEMMA NoLaunchAlways == Spec => []NoLaunch
PROOF
  <1>1. Init => NoLaunch
    BY DEF Init, NoLaunch
  <1>2. NoLaunch /\ [Next]_vars => NoLaunch'
    <2>1. CASE Agents # {}
      BY <2>1 DEF NoLaunch
    <2>2. ASSUME Agents = {}, [Next]_vars
          PROVE  launches' = launches
      BY <2>2 DEF Next, HostPublishes, GuestStops, GuestGoesDown, Collect, vars, execVars
    <2> QED BY <2>1, <2>2 DEF NoLaunch
  <1> QED BY <1>1, <1>2, PTL DEF Spec

\* The types of the agents' state, for any number of agents and faults.
THEOREM AgentTypes == Spec => []TypeOK
PROOF
  <1>1. ASSUME AgentInv, Counted, NoLaunch
        PROVE  TypeOK
    <2>1. Shape
      BY <1>1 DEF AgentInv
    <2>2. /\ Cardinality(Published(volume)) \in Nat /\ Cardinality(ProtocolStates) \in Nat
          /\ Cardinality(Published(volume)) <= Cardinality(ProtocolStates)
      BY PublishedFinite
    <2>3. last \in [Agents -> 0..Cardinality(ProtocolStates)]
      <3>1. last \in [Agents -> Nat]
        BY <2>1 DEF Shape
      <3>2. \A a \in Agents : last[a] \in 0..Cardinality(ProtocolStates)
        BY <1>1, <2>2, <3>1 DEF Counted
      <3> QED BY <3>1, <3>2
    <2>4. volume \in Volume
      <3>1. volume \in VolumeShape
        BY <2>1 DEF Shape
      <3>2. \A s \in ProtocolStates : volume.status[s] \in Record
        <4> TAKE s \in ProtocolStates
        <4>1. volume.status[s] \in [seq : Nat, result : Results]
          BY <3>1 DEF VolumeShape
        <4>2. volume.status[s].seq \in 0..Cardinality(ProtocolStates)
          BY <1>1, <2>2, <4>1 DEF Counted
        <4> QED BY <4>1, <4>2 DEF Record
      <3>3. volume.status \in [ProtocolStates -> Record]
        BY <3>1, <3>2 DEF VolumeShape
      <3> QED BY <3>1, <3>3 DEF VolumeShape, Volume
    <2>5. launches \in 0..Cardinality(Agents) + MaxFaults
      <3>1. launches \in Nat /\ launches <= 1 /\ Cardinality(Agents) \in Nat
        BY <1>1, FS_CardinalityType DEF AgentInv, Shape, VolumeInv
      <3>2. CASE Agents = {}
        BY <1>1, <3>1, <3>2 DEF NoLaunch
      <3>3. CASE Agents # {}
        <4>1. Cardinality(Agents) # 0
          BY <3>3, FS_EmptySet
        <4> QED BY <3>1, <4>1
      <3> QED BY <3>2, <3>3
    <2> QED BY <2>1, <2>3, <2>4, <2>5 DEF Shape, TypeOK
  <1> QED BY <1>1, AgentInvAlways, CountedInit, CountedStep, NoLaunchAlways, PTL DEF Spec

-----------------------------------------------------------------------------
\* The target is launched once per run disk, for any number of agents, restarts and
\* failed writes: runner.rs claims the run before anything else.
THEOREM LaunchedOnce == Spec => []ExecutedOnce
PROOF
  <1>1. AgentInv => ExecutedOnce
    BY DEF AgentInv, VolumeInv, ExecutedOnce
  <1> QED BY <1>1, AgentInvAlways, PTL

\* When the executor has answered nothing of the target runs any more, and what stays in
\* the guest is in the result: native_process.rs holds the tree in a job to the end.
THEOREM ExecutionOver == Spec => []ExecutionSettled
PROOF
  <1>1. AgentInv => ExecutionSettled
    <2> SUFFICES ASSUME AgentInv, NEW a \in Agents, exec[a].step = "answered"
                 PROVE  /\ ~Alive(exec[a])
                        /\ exec[a].outcome \in Executed =>
                              /\ exec[a].account => "account" \in exec[a].reported
                              /\ exec[a].capture => "capture" \in exec[a].reported
                              /\ workspace /\ pc[a] = "write_evidence" =>
                                    "workspace" \in exec[a].reported
      BY DEF ExecutionSettled
    <2>1. LifeInv(exec[a]) /\ PhaseInv(a)
      BY DEF AgentInv
    <2> QED BY <2>1 DEF LifeInv, PhaseInv
  <1> QED BY <1>1, AgentInvAlways, PTL

\* A completion is backed by the result and the files it stands for (result.rs).
THEOREM CompletionBacked == Spec => []CompletedBacked
PROOF
  <1>1. AgentInv => CompletedBacked
    BY DEF AgentInv, VolumeInv
  <1> QED BY <1>1, AgentInvAlways, PTL

\* What the host accepts from a stopped guest is what happened in it.
THEOREM AcceptanceTrue == Spec => []AcceptedIsTrue
PROOF
  <1>1. AgentInv => AcceptedIsTrue
    BY DEF AgentInv, OverInv
  <1> QED BY <1>1, AgentInvAlways, PTL

-----------------------------------------------------------------------------
\* A run on which nothing went wrong and in which the host has no say after the boot.

\* An agent knows all records there are.
Abreast(a) ==
    /\ seen[a] = Published(volume)
    /\ \A s \in ProtocolStates : volume.status[s].seq <= last[a]

Chain ==
    /\ ~volume.stray
    /\ ObservableInOrder(volume, Published(volume), {}, 0)
    /\ Bound(volume)
    /\ {"HostReady", "RequestWritten", "StartAllowed"} \subseteq Published(volume)
    /\ "CancelRequested" \notin Published(volume)

Unterminated == Published(volume) \cap ResultStates = {}

\* The result and the record that ends the run say the same.
Concluded ==
    \/ /\ volume.result \in Executed
       /\ {"GuestReady", "Running", "Completed"} \subseteq Published(volume)
       /\ "Failed" \notin Published(volume)
    \/ /\ volume.result = "agent_failed"
       /\ "Failed" \in Published(volume) /\ "Completed" \notin Published(volume)

\* How far the records are when the holder of the claim is at a step.
Progress(a) ==
    /\ pc[a] # "write_cancelled"
    /\ pc[a] \notin {"publish_shutdown", "shutdown"} => Unterminated
    /\ pc[a] \in {"await_start", "stage", "publish_running"} => "GuestReady" \in Published(volume)
    /\ \/ pc[a] \in {"scan_primary", "executing", "write_evidence", "write_result", "publish_completed"}
       \/ pc[a] = "cleanup" /\ exec[a].outcome \in Executed
       => {"GuestReady", "Running"} \subseteq Published(volume)
    /\ pc[a] \in {"prepare_failed", "write_failed"} => volume.result = NoResult
    /\ pc[a] = "publish_completed" => volume.result \in Executed
    /\ pc[a] = "publish_failed" => volume.result = "agent_failed"
    /\ pc[a] \in {"publish_completed", "publish_failed", "publish_shutdown"} => answer[a] = volume.result
    /\ pc[a] \in {"publish_shutdown", "shutdown"} => Concluded
    /\ pc[a] = "shutdown" => "ShutdownReady" \in Published(volume)

CalmInv ==
    faults = 0 /\ ~shared =>
       /\ Chain
       /\ ~volume.claim => Unterminated
       /\ \A a \in Agents :
             /\ pc[a] = "open" => seen[a] = {}
             /\ pc[a] = "claim" /\ ~volume.claim => Abreast(a)
             /\ pc[a] \in ClaimedSteps => Abreast(a) /\ Progress(a)

-----------------------------------------------------------------------------
\* A record with the next number that the state machine admits continues the chain.
LEMMA ChainGrows ==
  ASSUME NEW v \in VolumeShape, NEW w \in VolumeShape,
         NEW state \in ProtocolStates \ Published(v),
         ObservableInOrder(v, Published(v), {}, 0),
         \A s \in ProtocolStates \ {state} : w.status[s] = v.status[s],
         \A s \in ProtocolStates : v.status[s].seq < w.status[state].seq,
         Prerequisites(state, Published(v))
  PROVE  /\ Published(w) = Published(v) \cup {state}
         /\ ObservableInOrder(w, Published(w), {}, 0)
PROOF
  <1> DEFINE P == Published(v)
             Q == Published(w)
             seq(s) == v.status[s].seq
             next == w.status[state].seq
  <1>1. /\ \A s \in ProtocolStates : seq(s) \in Nat
        /\ next \in Nat
    BY DEF VolumeShape
  <1>2. next > 0
    BY <1>1
  <1>3. /\ \A s \in ProtocolStates \ {state} : w.status[s].seq = seq(s)
        /\ \A s \in ProtocolStates : seq(s) < next
    OBVIOUS
  <1>4. P = {s \in ProtocolStates : seq(s) > 0} /\ state \notin P
    BY DEF Published
  <1>5. Q = P \cup {state}
    BY <1>2, <1>3, <1>4 DEF Published
  <1>6. ASSUME NEW s \in P
        PROVE  /\ seq(s) > 0 /\ \A t \in P \ {s} : seq(t) # seq(s)
               /\ Prerequisites(s, {} \cup Before(v, P, s))
    BY <1>6 DEF ObservableInOrder
  <1>7. ASSUME NEW s \in P
        PROVE  Before(w, Q, s) = Before(v, P, s)
    BY <1>1, <1>3, <1>4, <1>5 DEF Before
  <1>8. Before(w, Q, state) = P
    BY <1>1, <1>3, <1>4, <1>5 DEF Before
  <1> HIDE DEF P, Q, seq, next
  <1>9. ASSUME NEW s \in Q
        PROVE  /\ w.status[s].seq > 0
               /\ \A t \in Q \ {s} : w.status[t].seq # w.status[s].seq
               /\ Prerequisites(s, {} \cup Before(w, Q, s))
    <2>1. P \subseteq ProtocolStates \ {state}
      BY <1>4
    <2>2. CASE s = state
      <3>1. {} \cup Before(w, Q, s) = P
        BY <1>8, <2>2
      <3>2. Prerequisites(s, {} \cup Before(w, Q, s))
        BY <3>1, <2>2 DEF P
      <3>3. w.status[s].seq = next
        BY <2>2 DEF next
      <3> QED BY <1>1, <1>2, <1>3, <1>5, <2>1, <2>2, <3>2, <3>3
    <2>3. CASE s \in P
      <3>1. Prerequisites(s, {} \cup Before(w, Q, s))
        BY <1>6, <1>7, <2>3
      <3>2. w.status[s].seq = seq(s) /\ w.status[state].seq = next
        BY <1>3, <2>1, <2>3 DEF next
      <3> QED BY <1>1, <1>3, <1>5, <1>6, <2>1, <2>3, <3>1, <3>2
    <2> QED BY <1>5, <2>2, <2>3
  <1> QED BY <1>5, <1>9 DEF ObservableInOrder, P, Q

\* What does not touch the records leaves the chain as it is.
LEMMA ChainSame ==
  ASSUME volume'.status = volume.status
  PROVE  /\ Published(volume') = Published(volume)
         /\ Unterminated' <=> Unterminated
         /\ Chain /\ volume'.stray = volume.stray
               /\ (volume'.result = volume.result \/ Unterminated) => Chain'
PROOF
  <1>1. Published(volume') = Published(volume)
    BY DEF Published
  <1>2. \A S, s : Before(volume', S, s) = Before(volume, S, s)
    BY DEF Before
  <1>3. ObservableInOrder(volume, Published(volume), {}, 0)
           => ObservableInOrder(volume', Published(volume'), {}, 0)
    BY <1>1, <1>2 DEF ObservableInOrder
  <1>4. ASSUME Bound(volume), volume'.result = volume.result \/ Unterminated
        PROVE  Bound(volume')
    BY <1>1, <1>4 DEF Bound, Unterminated
  <1> QED BY <1>1, <1>3, <1>4 DEF Chain, Unterminated

\* Without a fault a write fails only because the name is taken.
LEMMA FaultlessWrite ==
  ASSUME Shape, faults' = 0, NEW exists \in BOOLEAN, NEW w \in WriteNew(exists), Spend(w.cost)
  PROVE  /\ faults = 0
         /\ exists => ~w.ok /\ ~w.linked /\ ~w.stray
         /\ ~exists => w.ok /\ w.linked /\ ~w.stray
PROOF
  <1>1. faults \in Nat /\ faults' = faults + w.cost
    BY DEF Shape, Spend
  <1>2. CASE exists
    <2>1. w.ok = FALSE /\ w.linked = FALSE /\ w.stray = FALSE /\ w.cost = 0
      BY <1>2 DEF WriteNew
    <2> QED BY <1>1, <1>2, <2>1
  <1>3. CASE ~exists /\ w = Succeeded
    <2>1. w.ok = TRUE /\ w.linked = TRUE /\ w.stray = FALSE /\ w.cost = 0
      BY <1>3 DEF Succeeded
    <2> QED BY <1>1, <1>3, <2>1
  <1>4. CASE ~exists /\ w \in Interfered
    <2>1. w.cost = 1
      BY <1>4 DEF Interfered
    <2> QED BY <1>1, <2>1
  <1> QED BY <1>2, <1>3, <1>4 DEF WriteNew

\* What publishing does when nothing goes wrong: nothing, or the chain continues.
Continued(a, state, result) ==
    /\ volume'.claim = volume.claim /\ volume'.result = volume.result
    /\ volume'.evidence = volume.evidence
    /\ Published(volume') = Published(volume) \cup {state}
    /\ result = (IF state \in ResultStates THEN volume.result ELSE NoResult) => Chain'
    /\ Abreast(a)'

LEMMA FaultlessPublish ==
  ASSUME Shape, Chain, faults' = 0, NEW a \in Agents, Abreast(a),
         NEW here, NEW state \in GuestStates, NEW result \in Results, NEW ok, NEW failed,
         Publish(a, here, state, result, ok, failed)
  PROVE  /\ faults = 0 /\ \A b \in Agents \ {a} : seen'[b] = seen[b]
         /\ \/ pc' = [pc EXCEPT ![a] = failed] /\ UNCHANGED <<volume, seen, last>>
            \/ pc' = [pc EXCEPT ![a] = ok] /\ Continued(a, state, result)
PROOF
  <1> DEFINE seq == last[a] + 1
             record == [seq |-> seq, result |-> result]
             P == Published(volume)
  <1>1. /\ volume \in VolumeShape /\ seen \in [Agents -> SUBSET ProtocolStates]
        /\ last \in [Agents -> Nat] /\ seq \in Nat /\ state \in ProtocolStates
    BY DEF Shape, ProtocolStates
  <1>2. CASE ~Observable(state, record.seq, seen[a], last[a])
    BY <1>2 DEF Publish, Goto
  <1>3. CASE Observable(state, record.seq, seen[a], last[a])
    <2>1. PICK w \in WriteNew(state \in P) :
             /\ Spend(w.cost)
             /\ volume' = WithRecord(volume, state, record, w)
             /\ IF w.ok
                THEN /\ seen' = [seen EXCEPT ![a] = @ \cup {state}]
                     /\ last' = [last EXCEPT ![a] = record.seq]
                     /\ Goto(a, ok)
                ELSE UNCHANGED <<seen, last>> /\ Goto(a, failed)
      BY <1>3 DEF Publish
    <2>2. state \notin P /\ Prerequisites(state, P)
      BY <1>3 DEF Observable, Abreast
    <2>3. faults = 0 /\ w.ok /\ w.linked /\ ~w.stray
      <3>1. w \in WriteNew(state \in P) /\ Spend(w.cost) /\ (state \in P) \in BOOLEAN
        BY <2>1
      <3>2. /\ faults = 0
            /\ ~(state \in P) => w.ok /\ w.linked /\ ~w.stray
        BY <3>1, FaultlessWrite
      <3> QED BY <2>2, <3>2
    <2>4. volume' = [volume EXCEPT !.status[state] = record, !.stray = volume.stray \/ w.stray]
      BY <2>1, <2>3 DEF WithRecord
    <2>5. record.seq = seq /\ record.result = result /\ record \in [seq : Nat, result : Results]
      BY <1>1
    <2> HIDE DEF record, seq
    <2>6. /\ volume'.status = [volume.status EXCEPT ![state] = record]
          /\ volume'.stray = (volume.stray \/ w.stray)
          /\ volume'.claim = volume.claim /\ volume'.result = volume.result
          /\ volume'.evidence = volume.evidence
      BY <1>1, <2>4 DEF VolumeShape
    <2>7. /\ volume'.status[state] = record
          /\ \A s \in ProtocolStates \ {state} : volume'.status[s] = volume.status[s]
      BY <1>1, <2>6 DEF VolumeShape
    <2>8. volume' \in VolumeShape
      <3>1. (volume.stray \/ w.stray) \in BOOLEAN
        OBVIOUS
      <3>2. [volume.status EXCEPT ![state] = record] \in [ProtocolStates -> [seq : Nat, result : Results]]
        BY <1>1, <2>5 DEF VolumeShape
      <3>3. volume' = [volume EXCEPT !.status = [volume.status EXCEPT ![state] = record],
                                     !.stray = volume.stray \/ w.stray]
        BY <1>1, <2>4 DEF VolumeShape
      <3> QED BY <1>1, <3>1, <3>2, <3>3, VolumeFields
    <2>9. \A s \in ProtocolStates : volume.status[s].seq < volume'.status[state].seq
      BY <1>1, <2>5, <2>7 DEF Abreast, VolumeShape, seq
    <2>10. /\ Published(volume') = P \cup {state}
           /\ ObservableInOrder(volume', Published(volume'), {}, 0)
      BY <1>1, <2>2, <2>7, <2>8, <2>9, ChainGrows DEF Chain
    <2>11. Abreast(a)'
      <3>1. seen'[a] = Published(volume') /\ last'[a] = seq
        BY <1>1, <2>1, <2>3, <2>5, <2>10 DEF Abreast
      <3>2. \A s \in ProtocolStates : volume'.status[s].seq <= last'[a]
        BY <1>1, <2>5, <2>7, <3>1 DEF Abreast, VolumeShape, seq
      <3> QED BY <3>1, <3>2 DEF Abreast
    <2>12. ASSUME result = (IF state \in ResultStates THEN volume.result ELSE NoResult)
           PROVE  Chain'
      <3>1. Bound(volume')
        BY <2>5, <2>6, <2>7, <2>10, <2>12 DEF Bound, Chain, Published
      <3>2. "CancelRequested" \notin Published(volume')
        BY <2>10 DEF Chain, GuestStates
      <3>3. ~volume'.stray
        BY <2>3, <2>6 DEF Chain
      <3> QED BY <2>10, <3>1, <3>2, <3>3 DEF Chain
    <2>13. \A b \in Agents \ {a} : seen'[b] = seen[b]
      BY <1>1, <2>1, <2>3
    <2>14. pc' = [pc EXCEPT ![a] = ok]
      BY <2>1, <2>3 DEF Goto
    <2> QED BY <2>3, <2>6, <2>10, <2>11, <2>12, <2>13, <2>14 DEF Continued
  <1>4. ~Observable(state, record.seq, seen[a], last[a]) => UNCHANGED <<seen, faults>>
    BY DEF Publish
  <1> QED BY <1>2, <1>3, <1>4

\* A step of the agent that holds the claim has to care for that agent only.
LEMMA HolderCalm ==
  ASSUME AgentInv, CalmInv, faults = 0, shared' = shared, NEW a \in Agents,
         pc[a] \in ClaimedSteps, NEW next \in ClaimedSteps \cup {"exited"},
         pc' = [pc EXCEPT ![a] = next], volume'.claim = volume.claim,
         \A b \in Agents \ {a} : seen'[b] = seen[b],
         ~shared => /\ Chain'
                    /\ next \in ClaimedSteps => Abreast(a)' /\ Progress(a)'
  PROVE  CalmInv'
PROOF
  <1> SUFFICES ASSUME ~shared PROVE CalmInv'
    BY DEF CalmInv
  <1>1. volume'.claim /\ pc \in [Agents -> AgentSteps]
    BY DEF AgentInv, HoldInv, Shape
  <1>2. pc'[a] = next /\ \A b \in Agents \ {a} : pc'[b] = pc[b] /\ pc[b] \notin ClaimedSteps
    BY <1>1 DEF AgentInv, HoldInv
  <1>3. pc'[a] \notin {"open", "claim"}
    BY <1>2 DEF ClaimedSteps
  <1>4. \A b \in Agents : pc[b] = "open" => seen[b] = {}
    BY DEF CalmInv
  <1> QED BY <1>1, <1>2, <1>3, <1>4 DEF CalmInv

\* Steps of the holder that publish no record: the chain is what it was, and what an agent
\* says of its progress rests on it.
LEMMA QuietCalm ==
  ASSUME AgentInv, CalmInv, faults = 0, shared' = shared, NEW a \in Agents,
         pc[a] \in ClaimedSteps, NEW next \in ClaimedSteps \cup {"exited"},
         pc' = [pc EXCEPT ![a] = next], volume'.claim = volume.claim,
         UNCHANGED <<seen, last>>, volume'.status = volume.status, volume'.stray = volume.stray,
         volume'.result = volume.result \/ pc[a] \notin {"publish_shutdown", "shutdown"},
         ~shared /\ next \in ClaimedSteps /\ Progress(a) => Progress(a)'
  PROVE  CalmInv'
PROOF
  <1>1. ASSUME ~shared
        PROVE  Chain /\ Abreast(a) /\ Progress(a)
    BY <1>1 DEF CalmInv
  <1>2. ASSUME ~shared
        PROVE  Chain'
    BY <1>1, <1>2, ChainSame DEF Progress
  <1>3. ASSUME ~shared
        PROVE  Abreast(a)'
    BY <1>1, <1>3, ChainSame DEF Abreast
  <1> QED BY <1>1, <1>2, <1>3, HolderCalm

\* Records of the holder.
LEMMA PublishCalm ==
  ASSUME AgentInv, CalmInv, faults' = 0, ~shared, NEW a \in Agents,
         \/ PublishReady(a) \/ PublishRunning(a) \/ PublishCompleted(a)
         \/ PublishFailed(a) \/ PublishShutdown(a)
  PROVE  CalmInv'
PROOF
  <1>s. Shape /\ PhaseInv(a) /\ answer[a] \in Results /\ NoResult \in Results
    BY DEF AgentInv, Shape
  <1>m. /\ {"publish_ready", "await_start", "publish_running", "scan_primary", "cleanup",
            "publish_completed", "publish_failed", "publish_shutdown", "shutdown"} \subseteq ClaimedSteps
        /\ "exited" \notin ClaimedSteps
        /\ {"GuestReady", "Running", "Completed", "Failed", "ShutdownReady"} \subseteq GuestStates
        /\ {"Completed", "Failed", "ShutdownReady"} \subseteq ResultStates
        /\ "GuestReady" \notin ResultStates /\ "Running" \notin ResultStates
    BY DEF ClaimedSteps, GuestStates, ResultStates
  <1>1. ASSUME NEW here \in ClaimedSteps, NEW state \in GuestStates, NEW result \in Results,
               NEW ok \in ClaimedSteps, NEW failed \in ClaimedSteps \cup {"exited"},
               Publish(a, here, state, result, ok, failed),
               Progress(a) => result = (IF state \in ResultStates THEN volume.result ELSE NoResult),
               Chain /\ Progress(a) /\ Continued(a, state, result) /\ pc'[a] = ok => Progress(a)',
               Progress(a) /\ pc'[a] = failed /\ failed \in ClaimedSteps /\ UNCHANGED volume => Progress(a)'
        PROVE  CalmInv'
    <2>1. /\ pc[a] = here /\ pc \in [Agents -> AgentSteps]
          /\ UNCHANGED <<shared, answer, exec>>
      BY <1>s, <1>1 DEF Publish, At, execVars, Shape
    <2>2. faults = 0
      <3>1. CASE Observable(state, last[a] + 1, seen[a], last[a])
        <4>1. PICK w \in WriteNew(state \in Published(volume)) : Spend(w.cost)
          BY <1>1, <3>1 DEF Publish
        <4>2. (state \in Published(volume)) \in BOOLEAN
          OBVIOUS
        <4> QED BY <1>s, <4>1, <4>2, FaultlessWrite
      <3>2. CASE ~Observable(state, last[a] + 1, seen[a], last[a])
        BY <1>1, <3>2 DEF Publish
      <3> QED BY <3>1, <3>2
    <2>3. Chain /\ Abreast(a) /\ Progress(a)
      BY <1>1, <2>1, <2>2 DEF CalmInv
    <2>4. /\ \A b \in Agents \ {a} : seen'[b] = seen[b]
          /\ \/ pc' = [pc EXCEPT ![a] = failed] /\ UNCHANGED <<volume, seen, last>>
             \/ pc' = [pc EXCEPT ![a] = ok] /\ Continued(a, state, result)
      BY <1>s, <1>1, <2>3, FaultlessPublish
    <2>5. CASE pc' = [pc EXCEPT ![a] = failed] /\ UNCHANGED <<volume, seen, last>>
      <3>1. failed \in ClaimedSteps => Progress(a)'
        BY <1>1, <2>1, <2>3, <2>5
      <3> QED BY <1>1, <2>1, <2>2, <2>5, <3>1, QuietCalm
    <2>6. CASE pc' = [pc EXCEPT ![a] = ok] /\ Continued(a, state, result)
      <3>1. pc'[a] = ok
        BY <2>1, <2>6
      <3>2. Chain' /\ Abreast(a)' /\ Progress(a)' /\ volume'.claim = volume.claim
        BY <1>1, <2>3, <2>6, <3>1 DEF Continued
      <3> QED BY <1>1, <2>1, <2>2, <2>4, <2>6, <3>2, HolderCalm
    <2> QED BY <2>4, <2>5, <2>6
  <1>2. CASE PublishReady(a)
    <2>1. Chain /\ Progress(a) /\ Continued(a, "GuestReady", NoResult) /\ pc[a] = "publish_ready"
             /\ pc'[a] = "await_start" => Progress(a)'
      BY DEF Progress, Continued, Unterminated, ResultStates
    <2>2. /\ pc[a] = "publish_ready"
          /\ Publish(a, "publish_ready", "GuestReady", NoResult, "await_start", "exited")
      BY <1>2 DEF PublishReady, Publish, At
    <2> QED BY <1>1, <1>s, <1>m, <2>1, <2>2
  <1>3. CASE PublishRunning(a)
    <2>1. pc[a] = "publish_running" /\ exec' = exec /\ answer' = answer
      BY <1>3 DEF PublishRunning, Publish, At, execVars
    <2>2. Chain /\ Progress(a) /\ Continued(a, "Running", NoResult)
             /\ pc'[a] = "scan_primary" => Progress(a)'
      BY <2>1 DEF Progress, Continued, Unterminated, ResultStates
    <2>3. exec[a].outcome \notin Executed
      BY <1>s, <2>1 DEF PhaseInv, Preparing, Fresh, NoExecution
    <2>4. Progress(a) /\ pc'[a] = "cleanup" /\ UNCHANGED volume => Progress(a)'
      BY <2>1, <2>3 DEF Progress, Unterminated
    <2>5. Publish(a, "publish_running", "Running", NoResult, "scan_primary", "cleanup")
      BY <1>3 DEF PublishRunning
    <2> QED BY <1>1, <1>s, <1>m, <2>2, <2>4, <2>5
  <1>4. CASE PublishCompleted(a)
    <2>1. pc[a] = "publish_completed" /\ answer' = answer
      BY <1>4 DEF PublishCompleted, Publish, At
    <2>2. Progress(a) => answer[a] = volume.result
      BY <2>1 DEF Progress
    <2>3. Chain /\ Progress(a) /\ Continued(a, "Completed", answer[a])
             /\ pc'[a] = "publish_shutdown" => Progress(a)'
      BY <2>1 DEF Progress, Continued, Unterminated, ResultStates, Concluded
    <2>4. Publish(a, "publish_completed", "Completed", answer[a], "publish_shutdown", "exited")
      BY <1>4 DEF PublishCompleted
    <2> QED BY <1>1, <1>s, <1>m, <2>2, <2>3, <2>4
  <1>5. CASE PublishFailed(a)
    <2>1. pc[a] = "publish_failed" /\ answer' = answer
      BY <1>5 DEF PublishFailed, Publish, At
    <2>2. Progress(a) => answer[a] = volume.result
      BY <2>1 DEF Progress
    <2>3. Chain /\ Progress(a) /\ Continued(a, "Failed", answer[a])
             /\ pc'[a] = "publish_shutdown" => Progress(a)'
      BY <2>1 DEF Progress, Continued, Unterminated, ResultStates, Concluded
    <2>4. Publish(a, "publish_failed", "Failed", answer[a], "publish_shutdown", "exited")
      BY <1>5 DEF PublishFailed
    <2> QED BY <1>1, <1>s, <1>m, <2>2, <2>3, <2>4
  <1>6. CASE PublishShutdown(a)
    <2>1. pc[a] = "publish_shutdown" /\ answer' = answer
      BY <1>6 DEF PublishShutdown, Publish, At
    <2>2. Progress(a) => answer[a] = volume.result
      BY <2>1 DEF Progress
    <2>3. Chain /\ Progress(a) /\ Continued(a, "ShutdownReady", answer[a])
             /\ pc'[a] = "shutdown" => Progress(a)'
      BY <2>1 DEF Progress, Continued, Concluded
    <2>4. Publish(a, "publish_shutdown", "ShutdownReady", answer[a], "shutdown", "exited")
      BY <1>6 DEF PublishShutdown
    <2> QED BY <1>1, <1>s, <1>m, <2>2, <2>3, <2>4
  <1> QED BY <1>2, <1>3, <1>4, <1>5, <1>6

\* The result is written once.
LEMMA ResultCalm ==
  ASSUME AgentInv, CalmInv, faults' = 0, ~shared, NEW a \in Agents,
         WriteResult(a) \/ WriteFailed(a) \/ WriteCancelled(a)
  PROVE  CalmInv'
PROOF
  <1>s. /\ Shape /\ PhaseInv(a) /\ answer \in [Agents -> Results] /\ volume \in VolumeShape
        /\ pc \in [Agents -> AgentSteps]
    BY DEF AgentInv, Shape
  <1>1. ASSUME NEW here \in ClaimedSteps, NEW outcome \in Outcomes, NEW ok \in ClaimedSteps,
               NEW failed \in ClaimedSteps, PublishResult(a, here, outcome, ok, failed),
               Progress(a) => volume.result = NoResult,
               here \notin {"publish_shutdown", "shutdown"},
               Progress(a) /\ pc[a] = here /\ pc'[a] = ok /\ volume'.result = outcome
                  /\ answer'[a] = outcome /\ volume'.status = volume.status => Progress(a)'
        PROVE  CalmInv'
    <2>1. PICK w \in WriteNew(volume.result # NoResult) :
             /\ Spend(w.cost)
             /\ volume' = [volume EXCEPT !.result = IF w.linked THEN outcome ELSE @]
             /\ answer' = [answer EXCEPT ![a] = IF w.ok THEN outcome ELSE NoResult]
             /\ Goto(a, IF w.ok THEN ok ELSE failed)
      BY <1>1 DEF PublishResult
    <2>2. pc[a] = here /\ UNCHANGED <<shared, seen, last, exec>>
      BY <1>1 DEF PublishResult, At, execVars
    <2>3. /\ faults = 0
          /\ volume.result = NoResult => w.ok /\ w.linked
      <3>1. (volume.result # NoResult) \in BOOLEAN
        OBVIOUS
      <3> QED BY <1>s, <2>1, <3>1, FaultlessWrite
    <2>4. Progress(a)
      BY <1>1, <2>2, <2>3 DEF CalmInv
    <2>5. /\ volume' = [volume EXCEPT !.result = outcome]
          /\ answer' = [answer EXCEPT ![a] = outcome]
          /\ pc' = [pc EXCEPT ![a] = ok]
      BY <1>1, <2>1, <2>3, <2>4 DEF Goto
    <2>6. /\ volume'.status = volume.status /\ volume'.stray = volume.stray
          /\ volume'.claim = volume.claim /\ volume'.result = outcome
          /\ answer'[a] = outcome /\ pc'[a] = ok
      BY <1>s, <2>5 DEF VolumeShape
    <2>7. Progress(a)'
      BY <1>1, <2>2, <2>4, <2>6
    <2> QED BY <1>1, <2>2, <2>3, <2>5, <2>6, <2>7, QuietCalm
  <1>2. CASE WriteResult(a)
    <2>1. pc[a] = "write_result" /\ answer[a] \in Executed /\ volume.result = NoResult
      BY <1>s, <1>2 DEF WriteResult, PublishResult, At, PhaseInv, Unanswered
    <2>2. Progress(a) /\ pc'[a] = "publish_completed" /\ volume'.result = answer[a]
             /\ answer'[a] = answer[a] /\ volume'.status = volume.status => Progress(a)'
      BY <2>1, ChainSame DEF Progress
    <2> QED BY <1>1, <1>2, <2>1, <2>2 DEF WriteResult, ClaimedSteps
  <1>3. CASE WriteFailed(a)
    <2>1. pc[a] = "write_failed" /\ (Progress(a) => volume.result = NoResult)
      BY <1>3 DEF WriteFailed, PublishResult, At, Progress
    <2>2. Progress(a) /\ pc'[a] = "publish_failed" /\ volume'.result = "agent_failed"
             /\ answer'[a] = "agent_failed" /\ volume'.status = volume.status => Progress(a)'
      BY <2>1, ChainSame DEF Progress
    <2> QED BY <1>1, <1>3, <2>1, <2>2 DEF WriteFailed, ClaimedSteps
  <1>4. CASE WriteCancelled(a)
    <2>1. pc[a] = "write_cancelled" /\ pc[a] \in ClaimedSteps
      BY <1>4 DEF WriteCancelled, PublishResult, At, ClaimedSteps
    <2>2. faults = 0
      <3>1. PICK w \in WriteNew(volume.result # NoResult) : Spend(w.cost)
        BY <1>4 DEF WriteCancelled, PublishResult
      <3>2. (volume.result # NoResult) \in BOOLEAN
        OBVIOUS
      <3> QED BY <1>s, <3>1, <3>2, FaultlessWrite
    <2> QED BY <2>1, <2>2 DEF CalmInv, Progress
  <1> QED BY <1>2, <1>3, <1>4

\* The other steps of the holder.
LEMMA WorkCalm ==
  ASSUME AgentInv, CalmInv, faults' = 0, ~shared, NEW a \in Agents,
         \/ ConfigureNic(a) \/ AwaitStart(a) \/ Stage(a) \/ ScanPrimary(a) \/ Execute(a)
         \/ CollectFiles(a) \/ CleanupWorkspace(a) \/ WriteEvidence(a) \/ PrepareFailed(a)
  PROVE  CalmInv'
PROOF
  <1>s. /\ Shape /\ PhaseInv(a) /\ LifeInv(exec[a]) /\ volume \in VolumeShape
        /\ pc \in [Agents -> AgentSteps] /\ faults \in Nat
    BY DEF AgentInv, Shape
  <1>w. \A step : At(a, step) => pc[a] = step
    BY DEF At
  <1>p. \A step : Goto(a, step) => pc' = [pc EXCEPT ![a] = step] /\ pc'[a] = step
    BY <1>s DEF Goto
  <1>c. \A cost \in Nat : Spend(cost) => cost = 0 /\ faults = 0
    BY <1>s DEF Spend
  <1>q. ASSUME faults = 0, UNCHANGED <<shared, seen, last>>, pc[a] \in ClaimedSteps,
               NEW next \in ClaimedSteps \cup {"exited"}, Goto(a, next),
               volume'.claim = volume.claim, volume'.status = volume.status,
               volume'.stray = volume.stray, volume'.result = volume.result,
               next \in ClaimedSteps /\ Progress(a) => Progress(a)'
        PROVE  CalmInv'
    BY <1>q, <1>p, QuietCalm
  <1>m. /\ ClaimedSteps \subseteq ClaimedSteps \cup {"exited"}
        /\ {"configure_nic", "await_start", "stage", "scan_primary", "executing", "cleanup",
            "write_evidence", "prepare_failed", "publish_ready", "publish_running", "write_result",
            "write_failed"} \subseteq ClaimedSteps
        /\ "exited" \notin ClaimedSteps
    BY DEF ClaimedSteps
  <1>n. UNCHANGED volume => /\ volume'.claim = volume.claim /\ volume'.status = volume.status
                            /\ volume'.stray = volume.stray /\ volume'.result = volume.result
    OBVIOUS
  <1>1. CASE ConfigureNic(a)
    <2>1. PICK next \in {"publish_ready", "prepare_failed"} : Goto(a, next)
      BY <1>1 DEF ConfigureNic
    <2>2. pc[a] = "configure_nic" /\ faults' = faults /\ UNCHANGED <<shared, seen, last, volume>>
      BY <1>1, <1>w DEF ConfigureNic
    <2>3. volume.result = NoResult
      BY <1>s, <2>2 DEF PhaseInv, Preparing, Fresh
    <2>4. Progress(a) => Progress(a)'
      BY <1>p, <2>1, <2>2, <2>3, ChainSame DEF Progress
    <2> QED BY <1>m, <1>n, <1>q, <2>1, <2>2, <2>4
  <1>2. CASE AwaitStart(a)
    <2>1. pc[a] = "await_start" /\ faults' = faults /\ UNCHANGED <<shared, volume>>
      BY <1>2, <1>w DEF AwaitStart
    <2>2. Chain /\ Abreast(a) /\ Progress(a)
      BY <1>m, <2>1 DEF CalmInv
    <2>3. "StartAllowed" \in seen[a] /\ "CancelRequested" \notin seen[a]
      BY <2>2 DEF Chain, Abreast
    <2>4. Goto(a, "stage") /\ UNCHANGED <<seen, last>>
      BY <1>2, <2>3 DEF AwaitStart, Decision
    <2>5. Progress(a) => Progress(a)'
      BY <1>p, <2>1, <2>4, ChainSame DEF Progress
    <2> QED BY <1>m, <1>n, <1>q, <2>1, <2>4, <2>5
  <1>3. CASE Stage(a)
    <2>1. pc[a] = "stage" /\ UNCHANGED <<shared, volume, seen, last>>
      BY <1>3, <1>w DEF Stage
    <2>2. PICK next \in {"publish_running", "prepare_failed"} : Goto(a, next)
      BY <1>3 DEF Stage
    <2>3. faults = 0
      BY <1>3, <1>c DEF Stage
    <2>4. volume.result = NoResult
      BY <1>s, <2>1 DEF PhaseInv, Preparing, Fresh
    <2>5. Progress(a) => Progress(a)'
      BY <1>p, <2>1, <2>2, <2>4, ChainSame DEF Progress
    <2> QED BY <1>m, <1>n, <1>q, <2>1, <2>2, <2>3, <2>5
  <1>4. CASE ScanPrimary(a)
    <2>1. /\ pc[a] = "scan_primary" /\ faults' = faults /\ UNCHANGED <<shared, seen, last>>
          /\ Goto(a, "executing")
      BY <1>4, <1>w DEF ScanPrimary
    <2>2. /\ volume'.claim = volume.claim /\ volume'.status = volume.status
          /\ volume'.stray = volume.stray /\ volume'.result = volume.result
      BY <1>s, <1>4 DEF ScanPrimary, VolumeShape
    <2>3. Progress(a) => Progress(a)'
      BY <1>p, <2>1, <2>2, ChainSame DEF Progress
    <2> QED BY <1>m, <1>q, <2>1, <2>2, <2>3
  <1>5. CASE Execute(a)
    <2>1. pc[a] = "executing" /\ UNCHANGED <<shared, volume, pc, seen, last, answer>>
      BY <1>5, <1>w DEF Execute, agentVars
    <2>2. Advance(a)
      BY <1>s, <1>5, ExecutorAdvance DEF Execute
    <2>3. faults = 0
      BY <1>s, <2>2 DEF Advance
    <2>4. Goto(a, "executing")
      BY <1>s, <2>1 DEF Goto
    <2>5. Progress(a) => Progress(a)'
      BY <2>1, ChainSame DEF Progress
    <2> QED BY <1>m, <1>n, <1>q, <2>1, <2>3, <2>4, <2>5
  <1>6. CASE CollectFiles(a)
    <2>1. /\ pc[a] = "executing" /\ faults' = faults /\ UNCHANGED <<shared, seen, last, exec>>
          /\ Goto(a, "cleanup")
      BY <1>6, <1>w DEF CollectFiles, execVars
    <2>2. /\ volume'.claim = volume.claim /\ volume'.status = volume.status
          /\ volume'.stray = volume.stray /\ volume'.result = volume.result
      BY <1>s, <1>6 DEF CollectFiles, VolumeShape
    <2>3. Progress(a) => Progress(a)'
      BY <1>p, <2>1, <2>2, ChainSame DEF Progress
    <2> QED BY <1>m, <1>q, <2>1, <2>2, <2>3
  <1>7. CASE CleanupWorkspace(a)
    <2>1. pc[a] = "cleanup" /\ UNCHANGED <<shared, volume, seen, last>>
      BY <1>7, <1>w DEF CleanupWorkspace
    <2>2. faults = 0
      BY <1>7, <1>c DEF CleanupWorkspace
    <2>3. volume.result = NoResult
      BY <1>s, <2>1 DEF PhaseInv, Unanswered
    <2>4. \/ exec[a].outcome \in Executed /\ Goto(a, "write_evidence")
          \/ Goto(a, "prepare_failed")
      BY <1>7 DEF CleanupWorkspace
    <2>5. CASE exec[a].outcome \in Executed /\ Goto(a, "write_evidence")
      <3>1. Progress(a) => Progress(a)'
        BY <1>p, <2>1, <2>5, ChainSame DEF Progress
      <3> QED BY <1>m, <1>n, <1>q, <2>1, <2>2, <2>5, <3>1
    <2>6. CASE Goto(a, "prepare_failed")
      <3>1. Progress(a) => Progress(a)'
        BY <1>p, <2>1, <2>3, <2>6, ChainSame DEF Progress
      <3> QED BY <1>m, <1>n, <1>q, <2>1, <2>2, <2>6, <3>1
    <2> QED BY <2>4, <2>5, <2>6
  <1>8. CASE WriteEvidence(a)
    <2>1. /\ pc[a] = "write_evidence" /\ faults' = faults /\ UNCHANGED <<shared, seen, last>>
          /\ volume' = [volume EXCEPT !.evidence = "complete"] /\ Goto(a, "write_result")
      BY <1>8, <1>w, <1>c DEF WriteEvidence
    <2>2. /\ volume'.claim = volume.claim /\ volume'.status = volume.status
          /\ volume'.stray = volume.stray /\ volume'.result = volume.result
      BY <1>s, <2>1 DEF VolumeShape
    <2>3. Progress(a) => Progress(a)'
      BY <1>p, <2>1, <2>2, ChainSame DEF Progress
    <2> QED BY <1>m, <1>q, <2>1, <2>2, <2>3
  <1>9. CASE PrepareFailed(a)
    <2>1. /\ pc[a] = "prepare_failed" /\ UNCHANGED <<shared, seen, last>>
          /\ \E next \in {"write_failed", "exited"} : Goto(a, next)
      BY <1>9, <1>w DEF PrepareFailed
    <2>2. /\ volume'.claim = volume.claim /\ volume'.status = volume.status
          /\ volume'.stray = volume.stray /\ volume'.result = volume.result
      BY <1>s, <1>9 DEF PrepareFailed, VolumeShape
    <2>3. faults = 0
      BY <1>9, <1>c DEF PrepareFailed
    <2>4. PICK next \in {"write_failed", "exited"} : Goto(a, next)
      BY <2>1
    <2>5. next \in ClaimedSteps /\ Progress(a) => Progress(a)'
      BY <1>m, <1>p, <2>1, <2>2, <2>4, ChainSame DEF Progress
    <2> QED BY <1>m, <1>q, <2>1, <2>2, <2>3, <2>4, <2>5
  <1> QED BY <1>1, <1>2, <1>3, <1>4, <1>5, <1>6, <1>7, <1>8, <1>9

\* An agent that finds the records finds all there are, or nothing it may act on.
LEMMA EnterCalm ==
  ASSUME AgentInv, CalmInv, faults' = 0, ~shared, NEW a \in Agents, Open(a) \/ Claim(a)
  PROVE  CalmInv'
PROOF
  <1>s. /\ Shape /\ HoldInv /\ volume \in VolumeShape /\ pc \in [Agents -> AgentSteps]
        /\ seen \in [Agents -> SUBSET ProtocolStates] /\ last \in [Agents -> Nat] /\ faults \in Nat
    BY DEF AgentInv, Shape
  <1>m. "open" \notin ClaimedSteps /\ "claim" \notin ClaimedSteps /\ "exited" \notin ClaimedSteps
    BY DEF ClaimedSteps
  <1>1. CASE Open(a)
    <2> DEFINE found == Published(volume) \cap HostStates
    <2>1. pc[a] = "open" /\ faults' = faults /\ UNCHANGED <<shared, volume, answer, exec>>
      BY <1>1 DEF Open, At, execVars
    <2>2. faults = 0 /\ Chain /\ seen[a] = {}
      BY <2>1 DEF CalmInv
    <2>3. \/ Goto(a, "exited") /\ UNCHANGED <<seen, last>>
          \/ /\ Published(volume) \cap GuestStates = {} /\ Goto(a, "claim")
             /\ seen' = [seen EXCEPT ![a] = @ \cup found]
             /\ last' = [last EXCEPT ![a] =
                           IF found = {} THEN @
                           ELSE CHOOSE n \in {volume.status[s].seq : s \in found} :
                                  \A s \in found : volume.status[s].seq <= n]
      BY <1>1 DEF Open, Observes
    <2>4. \A b \in Agents \ {a} : pc'[b] = pc[b] /\ seen'[b] = seen[b] /\ last'[b] = last[b]
      BY <1>s, <2>3 DEF Goto
    <2>5. \A b \in Agents \ {a} : (Abreast(b) => Abreast(b)') /\ (Progress(b) => Progress(b)')
      BY <2>1, <2>4 DEF Abreast, Progress, Unterminated, Concluded
    <2>6. Chain'
      BY <2>1, <2>2, ChainSame
    <2>7. pc'[a] = "claim" => Abreast(a)'
      <3> SUFFICES ASSUME pc'[a] = "claim" PROVE Abreast(a)'
        OBVIOUS
      <3>1. /\ Published(volume) \cap GuestStates = {}
            /\ seen' = [seen EXCEPT ![a] = @ \cup found]
            /\ last' = [last EXCEPT ![a] =
                          IF found = {} THEN @
                          ELSE CHOOSE n \in {volume.status[s].seq : s \in found} :
                                 \A s \in found : volume.status[s].seq <= n]
        BY <1>s, <2>3 DEF Goto
      <3>2. found = Published(volume)
        BY <3>1 DEF Published, ProtocolStates
      <3>3. found \in SUBSET ProtocolStates /\ "HostReady" \in found
        BY <2>2, <3>2 DEF Published, Chain
      <3> HIDE DEF found
      <3>4. last'[a] = CHOOSE n \in {volume.status[s].seq : s \in found} :
                              \A s \in found : volume.status[s].seq <= n
        BY <1>s, <3>1, <3>3
      <3>5. \A s \in found : volume.status[s].seq <= last'[a]
        BY <1>s, <3>3, <3>4, LastChosen
      <3>6. last'[a] \in Nat
        BY <1>s, <3>3, <3>4, LastChosen
      <3>7. \A s \in ProtocolStates : volume.status[s].seq <= last'[a]
        BY <1>s, <3>2, <3>5, <3>6 DEF Published, VolumeShape
      <3>8. seen'[a] = Published(volume)
        BY <1>s, <2>2, <3>1, <3>2
      <3> QED BY <2>1, <3>7, <3>8 DEF Abreast
    <2>8. pc'[a] \in {"exited", "claim"}
      BY <1>s, <2>3 DEF Goto
    <2>9. ~volume'.claim => Unterminated'
      BY <2>1, <2>2 DEF CalmInv, Unterminated
    <2> QED BY <1>m, <2>1, <2>2, <2>4, <2>5, <2>6, <2>7, <2>8, <2>9 DEF CalmInv
  <1>2. CASE Claim(a)
    <2>1. PICK w \in WriteNew(volume.claim) :
             /\ Spend(w.cost)
             /\ volume' = [volume EXCEPT !.claim = @ \/ w.linked, !.stray = @ \/ w.stray]
             /\ Goto(a, IF ~w.ok THEN "exited"
                        ELSE IF "CancelRequested" \in seen[a] THEN "write_cancelled"
                        ELSE "configure_nic")
      BY <1>2 DEF Claim
    <2>2. pc[a] = "claim" /\ UNCHANGED <<shared, seen, last, answer, exec>>
      BY <1>2 DEF Claim, At, execVars
    <2>3. /\ faults = 0
          /\ volume.claim => ~w.ok /\ ~w.stray
          /\ ~volume.claim => w.ok /\ w.linked /\ ~w.stray
      <3>1. volume.claim \in BOOLEAN
        BY <1>s DEF VolumeShape
      <3> QED BY <1>s, <2>1, <3>1, FaultlessWrite
    <2>4. /\ volume'.status = volume.status /\ volume'.stray = volume.stray
          /\ volume'.result = volume.result /\ (volume'.claim <=> volume.claim \/ w.linked)
      BY <1>s, <2>1, <2>3 DEF VolumeShape
    <2>5. Chain /\ Chain' /\ Published(volume') = Published(volume)
      BY <2>3, <2>4, ChainSame DEF CalmInv
    <2>6. \A b \in Agents : Abreast(b) => Abreast(b)'
      BY <2>2, <2>4, <2>5 DEF Abreast
    <2>7. \A b \in Agents \ {a} : pc'[b] = pc[b]
      BY <1>s, <2>1 DEF Goto
    <2>8. \A b \in Agents \ {a} : pc[b] \in ClaimedSteps => Progress(b)'
      <3> SUFFICES ASSUME NEW b \in Agents \ {a}, pc[b] \in ClaimedSteps PROVE Progress(b)'
        OBVIOUS
      <3>1. Progress(b)
        BY <2>3 DEF CalmInv
      <3> QED BY <2>2, <2>4, <2>5, <2>7, <3>1 DEF Progress, Unterminated, Concluded
    <2>9. CASE volume.claim
      <3>1. pc'[a] = "exited"
        BY <1>s, <2>1, <2>3, <2>9 DEF Goto
      <3> QED BY <1>m, <2>2, <2>3, <2>4, <2>5, <2>6, <2>7, <2>8, <2>9, <3>1 DEF CalmInv
    <2>10. CASE ~volume.claim
      <3>1. Abreast(a)
        BY <2>2, <2>3, <2>10 DEF CalmInv
      <3>2. pc'[a] = "configure_nic"
        BY <1>s, <2>1, <2>3, <2>5, <2>10, <3>1 DEF Goto, Chain, Abreast
      <3>3. volume'.claim
        BY <2>3, <2>4, <2>10
      <3>4. Unterminated
        BY <2>3, <2>10 DEF CalmInv
      <3>5. Progress(a)'
        BY <2>5, <3>2, <3>4 DEF Progress, Unterminated
      <3> QED BY <1>m, <2>2, <2>3, <2>5, <2>6, <2>7, <2>8, <3>1, <3>2, <3>3, <3>5 DEF CalmInv
    <2> QED BY <2>9, <2>10
  <1> QED BY <1>1, <1>2

LEMMA CalmInit == Init => CalmInv
PROOF
  <1> SUFFICES ASSUME Init, ~shared PROVE CalmInv
    BY DEF CalmInv
  <1>1. /\ volume.status = Staged(TRUE) /\ volume.stray = FALSE /\ volume.result = NoResult
        /\ \A a \in Agents : pc[a] = "open" /\ seen[a] = {}
    BY DEF Init
  <1>2. /\ volume.status["HostReady"].seq = 1 /\ volume.status["RequestWritten"].seq = 2
        /\ volume.status["StartAllowed"].seq = 3
        /\ \A s \in ProtocolStates :
              /\ volume.status[s].result = NoResult
              /\ s \notin {"HostReady", "RequestWritten", "StartAllowed"} => volume.status[s].seq = 0
    BY <1>1 DEF Staged, NoRecord, ProtocolStates, HostStates, GuestStates
  <1>3. Published(volume) = {"HostReady", "RequestWritten", "StartAllowed"}
    <2>1. {"HostReady", "RequestWritten", "StartAllowed"} \subseteq ProtocolStates
      BY DEF ProtocolStates, HostStates
    <2> HIDE DEF ProtocolStates
    <2>2. \A s \in ProtocolStates :
             volume.status[s].seq > 0 <=> s \in {"HostReady", "RequestWritten", "StartAllowed"}
      BY <1>2
    <2> QED BY <2>1, <2>2 DEF Published
  <1>4. ObservableInOrder(volume, Published(volume), {}, 0)
    <2> DEFINE P == {"HostReady", "RequestWritten", "StartAllowed"}
    <2>1. /\ Before(volume, P, "HostReady") = {}
          /\ Before(volume, P, "RequestWritten") = {"HostReady"}
          /\ Before(volume, P, "StartAllowed") = {"HostReady", "RequestWritten"}
      BY <1>2 DEF Before
    <2>2. /\ Prerequisites("HostReady", {} \cup Before(volume, P, "HostReady"))
          /\ Prerequisites("RequestWritten", {} \cup Before(volume, P, "RequestWritten"))
          /\ Prerequisites("StartAllowed", {} \cup Before(volume, P, "StartAllowed"))
      BY <2>1 DEF Prerequisites, Terminal
    <2>3. \A s \in P : /\ volume.status[s].seq > 0
                       /\ \A t \in P \ {s} : volume.status[t].seq # volume.status[s].seq
      BY <1>2
    <2> HIDE DEF P
    <2>4. \A s \in P : Prerequisites(s, {} \cup Before(volume, P, s))
      BY <2>2 DEF P
    <2>5. ObservableInOrder(volume, P, {}, 0)
      BY <2>3, <2>4 DEF ObservableInOrder
    <2> QED BY <1>3, <2>5 DEF P
  <1>5. Bound(volume) /\ Unterminated
    <2>1. \A s \in Published(volume) : s \notin ResultStates /\ volume.status[s].result = NoResult
      BY <1>2, <1>3 DEF ResultStates, ProtocolStates, HostStates
    <2> QED BY <2>1 DEF Bound, Unterminated
  <1> QED BY <1>1, <1>3, <1>4, <1>5 DEF CalmInv, Chain, ClaimedSteps

LEMMA CalmStep == AgentInv /\ CalmInv /\ [Next]_vars => CalmInv'
PROOF
  <1> SUFFICES ASSUME AgentInv, CalmInv, [Next]_vars, faults' = 0, ~shared' PROVE CalmInv'
    BY DEF CalmInv
  <1>s. faults \in Nat
    BY DEF AgentInv, Shape
  <1>h. ~shared
    BY DEF Next, Agent, Open, Claim, ConfigureNic, PublishReady, AwaitStart, Stage, PublishRunning,
           ScanPrimary, Execute, CollectFiles, CleanupWorkspace, WriteEvidence, WriteResult,
           PublishCompleted, PrepareFailed, WriteFailed, PublishFailed, WriteCancelled,
           PublishShutdown, Shutdown, Publish, PublishResult, TargetActs, AgentRestarts,
           GuestStops, HostPublishes, Collect, vars
  <1>d. ASSUME GuestGoesDown, UNCHANGED volume
        PROVE  CalmInv'
    <2>1. faults = 0 /\ \A a \in Agents : pc'[a] = "exited"
      BY <1>d DEF GuestGoesDown
    <2>2. Chain' /\ (~volume'.claim => Unterminated')
      BY <1>d, <1>h, <2>1, ChainSame DEF CalmInv
    <2> QED BY <2>1, <2>2 DEF CalmInv, ClaimedSteps
  <1>e. ASSUME UNCHANGED <<volume, pc, seen, last, answer, faults>>,
               \A a \in Agents : exec'[a].outcome = exec[a].outcome
        PROVE  CalmInv'
    <2>1. Chain' /\ (~volume'.claim => Unterminated')
      BY <1>e, <1>h, ChainSame DEF CalmInv
    <2>2. \A a \in Agents : (Abreast(a) => Abreast(a)') /\ (Progress(a) => Progress(a)')
      BY <1>e DEF Abreast, Progress, Unterminated, Concluded
    <2> QED BY <1>e, <1>h, <2>1, <2>2 DEF CalmInv
  <1>1. ASSUME NEW a \in Agents, Agent(a)
        PROVE  CalmInv'
    <2>1. CASE Shutdown(a)
      BY <1>d, <2>1 DEF Shutdown
    <2> QED BY <1>1, <1>h, <2>1, EnterCalm, WorkCalm, PublishCalm, ResultCalm DEF Agent
  <1>2. ASSUME NEW a \in Agents, TargetActs(a)
        PROVE  CalmInv'
    <2>1. UNCHANGED <<volume, pc, seen, last, answer>> /\ Target(a) /\ Shape /\ LifeInv(exec[a])
      BY <1>2 DEF TargetActs, agentVars, AgentInv
    <2>2. UNCHANGED faults /\ \A b \in Agents : exec'[b].outcome = exec[b].outcome
      BY <2>1, TargetAdvance
    <2> QED BY <1>e, <2>1, <2>2
  <1>3. ASSUME NEW a \in Agents, AgentRestarts(a)
        PROVE  FALSE
    BY <1>3, <1>s DEF AgentRestarts, Spend
  <1>4. ASSUME NEW state, HostPublishes(state)
        PROVE  FALSE
    BY <1>4, <1>h DEF HostPublishes
  <1>5. CASE GuestStops
    BY <1>d, <1>5 DEF GuestStops
  <1>6. CASE Collect
    BY <1>e, <1>6 DEF Collect, execVars
  <1>7. CASE UNCHANGED vars
    BY <1>e, <1>7 DEF vars, agentVars, execVars
  <1> QED BY <1>1, <1>2, <1>3, <1>4, <1>5, <1>6, <1>7 DEF Next

\* A chain that has been concluded is one the host accepts.
LEMMA ConcludedAcceptable ==
  ASSUME AgentInv, CalmInv, faults = 0, ~shared, NEW a \in Agents, pc[a] = "shutdown"
  PROVE  Acceptable(volume)
PROOF
  <1> DEFINE P == Published(volume)
  <1>1. Chain /\ Concluded /\ "ShutdownReady" \in P
    BY DEF CalmInv, Progress, ClaimedSteps
  <1>2. "Completed" \in P => volume.evidence = "complete"
    BY DEF AgentInv, VolumeInv, CompletedBacked
  <1>3. CASE volume.result \in Executed /\ {"GuestReady", "Running", "Completed"} \subseteq P
             /\ "Failed" \notin P
    <2>1. OutcomeMatches(volume.result, P)
      BY <1>1, <1>3 DEF OutcomeMatches, Chain
    <2> QED BY <1>1, <1>2, <1>3, <2>1 DEF Acceptable, StatusChainValid, Chain
  <1>4. CASE volume.result = "agent_failed" /\ "Failed" \in P /\ "Completed" \notin P
    <2>1. OutcomeMatches(volume.result, P)
      BY <1>1, <1>4 DEF OutcomeMatches, Chain
    <2> QED BY <1>1, <1>4, <2>1 DEF Acceptable, StatusChainValid, Chain
  <1> QED BY <1>1, <1>3, <1>4 DEF Concluded

\* A guest that no fault and no host disturbs, and that the agent shuts down, leaves a chain
\* of records the host accepts, whatever the network, the workspace or the target did
\* (runner.rs, result.rs against result_collector.rs).
THEOREM ShutdownAccepted == Spec => ShutdownIsConclusive
PROOF
  <1>1. AgentInv /\ CalmInv =>
           [\A a \in Agents : Shutdown(a) /\ faults = 0 /\ ~shared => Acceptable(volume)]_vars
    BY ConcludedAcceptable DEF Shutdown, At
  <1> QED BY <1>1, AgentInvAlways, CalmInit, CalmStep, PTL DEF Spec, ShutdownIsConclusive
=============================================================================
