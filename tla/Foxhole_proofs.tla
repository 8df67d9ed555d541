--------------------------- MODULE Foxhole_proofs ---------------------------
(***************************************************************************)
(* Proofs about the program as a whole, for every scenario: that the store *)
(* keeps its promises to the commands and the analysis that publish        *)
(* through it, that a command runs on the backend and the network it asked *)
(* for, that the reputation in an assessment is what the service said,     *)
(* that no behaviour and no evidence of a run is scored twice, that events *)
(* without a process are given to one that was alive, and that no run is   *)
(* called harmless before all of it has been seen.                         *)
(***************************************************************************)
EXTENDS Foxhole, ArtifactStore_proofs

-----------------------------------------------------------------------------
\* What is true of commands and of the analysis at every step.

Commands == [args : Arguments, capability : Capabilities, backend : {"none", "restricted", "hyperv"},
             policy : Policies \cup {"none"},
             step : {"destination", "backend", "request", "execute", "report", "over", "failed"}]

\* Until it is executed a command has begun no publication; when it gets past its first
\* step its report has a valid name.
CommandInv(w) ==
    /\ commands[w].step \in {"destination", "backend", "request", "execute"} => at[w] = "idle"
    /\ commands[w].step \in {"backend", "request", "execute"} /\ commands[w].args.report => ValidName(w)

CommandsInv ==
    /\ commands \in [Reporters -> Commands]
    /\ \A w \in Reporters : CommandInv(w)

Output(name) == [dir |-> "analysis", name |-> name]

\* An output that is yet to be written is not there as one of this analysis.
OutputsInv ==
    /\ ~New(Analyst) /\ \A w \in Reporters : New(w)
    /\ outputs \in Seq({"a", "b"})
    /\ \A i, j \in DOMAIN outputs : outputs[i] = outputs[j] => i = j
    /\ \A i \in DOMAIN outputs :
          /\ at[Analyst] # "idle" => outputs[i] # wants[Analyst].path.name
          /\ files[Output(outputs[i])].owner # Analyst

FoxholeInv == StoreInv /\ CeilingInv /\ CommandsInv /\ OutputsInv

-----------------------------------------------------------------------------
LEMMA InitInv == Init => FoxholeInv
<1> SUFFICES ASSUME Init PROVE FoxholeInv
  OBVIOUS
<1>1. PICK s \in Scenarios :
        /\ StoreInit(s)
        /\ commands = [w \in Reporters |->
               [args |-> s.args[w], capability |-> s.capability, backend |-> "none",
                policy |-> "none", step |-> IF s.commands THEN "destination" ELSE "over"]]
        /\ outputs = s.outputs
  BY DEF Init
<1>2. Possible(s)
  BY ScenarioAssumption
<1>3. wants = s.wants /\ files = s.files /\ (\A w \in Writers : at[w] = "idle" /\ result[w] = "none")
  BY <1>1 DEF StoreInit
<1>4. StoreTypes
  BY <1>1, <1>2 DEF StoreInit, StoreTypes, Possible, Steps
<1>5. /\ ~New(Analyst) /\ wants[Analyst].path.dir = "analysis"
      /\ \A w \in Reporters : New(w) /\ wants[w].path.dir # "analysis"
      /\ \A w \in Writers : w \in Reporters \/ w = Analyst
  BY <1>2, <1>3 DEF Possible, New, Reporters
<1>6. Apart
  BY <1>5 DEF Apart
<1>7. Kept
  BY <1>3 DEF Kept
<1>8. \A p \in Paths : ~Exists(p) \/ (files[p].owner = "earlier" /\ files[p].whole /\ p.name \notin Writers)
  BY <1>2, <1>3 DEF Possible, Exists
<1>9. ASSUME NEW p \in Paths PROVE FileInv(p) /\ files[p].owner \notin Writers
  <2>1. NoFile.owner = "none"
    BY DEF NoFile
  <2> QED
    BY <1>8, <2>1, WritersAssumption DEF FileInv, Exists
<1>10. ASSUME NEW w \in Writers PROVE WriterInv(w)
  <2>1. Uncounted(w) /\ Unread(w)
    BY <1>1 DEF StoreInit, Uncounted, Unread
  <2>2. ValidName(w) => ~Exists(Temporary(w)) /\ files[wants[w].path].owner # w
    BY <1>4, <1>8, <1>9, TemporaryPath
  <2> QED
    BY <1>3, <2>1, <2>2 DEF WriterInv
<1>11. StoreInv
  BY <1>4, <1>6, <1>7, <1>9, <1>10 DEF StoreInv
<1>12. CeilingInv
  <2>1. Admitted = {}
    BY <1>3 DEF Admitted
  <2>2. Covers(0, [w \in Writers |-> 0], [w \in Writers |-> {}])
    BY <2>1 DEF Covers
  <2> QED
    BY <2>2 DEF CeilingInv
<1>13. CommandsInv
  <2>1. ASSUME NEW w \in Reporters PROVE commands[w] \in Commands /\ CommandInv(w)
    <3>1. s.args[w] \in Arguments /\ s.capability \in Capabilities /\ at[w] = "idle"
      BY <1>2, <1>3 DEF Possible, Reporters
    <3>2. commands[w] = [args |-> s.args[w], capability |-> s.capability, backend |-> "none",
                         policy |-> "none", step |-> IF s.commands THEN "destination" ELSE "over"]
      BY <1>1
    <3> HIDE DEF Reporters
    <3>3. commands[w].step \in {"destination", "over"}
      BY <3>2
    <3>4. commands[w] \in Commands
      BY <3>1, <3>2 DEF Commands
    <3> QED
      BY <3>1, <3>3, <3>4 DEF CommandInv
  <2>2. commands \in [Reporters -> Commands]
    BY <1>1, <2>1
  <2> QED
    BY <2>1, <2>2 DEF CommandsInv
<1>14. OutputsInv
  <2>1. outputs \in Seq({"a", "b"}) /\ \A i, j \in DOMAIN outputs : outputs[i] = outputs[j] => i = j
    BY <1>1, <1>2 DEF Possible
  <2>2. Analyst \in Writers /\ at[Analyst] = "idle"
    BY <1>3, AnalystAssumption
  <2>3. "analysis" \in Directories
    BY <1>4, <1>5, <2>2 DEF StoreTypes, Wishes
  <2>4. \A i \in DOMAIN outputs : Output(outputs[i]) \in Paths
    BY <2>1, <2>3 DEF Output, Paths
  <2> QED
    BY <1>5, <1>9, <2>1, <2>2, <2>4 DEF OutputsInv
<1> QED
  BY <1>11, <1>12, <1>13, <1>14 DEF FoxholeInv

-----------------------------------------------------------------------------
\* The steps of the store, seen from the commands and the analysis.

\* Nothing wakes a publication but its command, and nothing gets an owner's name but what
\* that owner writes or moves.
LEMMA StoreSteps ==
    ASSUME StoreInv,
           \/ \E w \in Writers : Publish(w) \/ FailToWrite(w) \/ DieWriting(w)
           \/ \E c \in Cleaners : Clean(c)
    PROVE  /\ wants' = wants
           /\ \A v \in Writers : at'[v] = "idle" <=> at[v] = "idle"
           /\ \A v \in Writers, p \in Paths : files'[p].owner = v =>
                 \/ files[p].owner = v \/ p = Temporary(v)
                 \/ p = wants[v].path /\ at[v] # "idle"
<1>1. wants' = wants
  BY DEF Publish, PinDirectories, LookAtDestination, CreateTemporary, WriteSome, ListDirectory,
         CountEntry, AcceptUsage, MoveToName, FailToWrite, DieWriting, Clean, StartCleaning,
         RemoveOne, EndCleaning
<1>2. /\ at \in [Writers -> Steps] /\ files \in [Paths -> Contents]
      /\ NoFile.owner = "none" /\ "none" \notin Writers
  BY WritersAssumption DEF StoreInv, StoreTypes, NoFile
<1>3. CASE \E c \in Cleaners : Clean(c)
  <2>1. at' = at /\ (files' = files \/ \E p : Unlink(p))
    BY <1>3 DEF Clean, StartCleaning, RemoveOne, EndCleaning
  <2> QED
    BY <1>1, <1>2, <2>1 DEF Unlink
<1>4. ASSUME NEW w \in Writers, Publish(w) \/ FailToWrite(w) \/ DieWriting(w)
      PROVE  /\ \A v \in Writers : at'[v] = "idle" <=> at[v] = "idle"
             /\ \A v \in Writers, p \in Paths : files'[p].owner = v =>
                   \/ files[p].owner = v \/ p = Temporary(v)
                   \/ p = wants[v].path /\ at[v] # "idle"
  <2>1. \E to \in Steps \ {"idle"} : at' = [at EXCEPT ![w] = to] \/ at' = at
    BY <1>2, <1>4 DEF Publish, PinDirectories, LookAtDestination, CreateTemporary, WriteSome, ListDirectory,
           CountEntry, AcceptUsage, MoveToName, FailToWrite, DieWriting, Goes, Returns, Steps
  <2>2. at[w] # "idle"
    BY <1>4 DEF Publish, PinDirectories, LookAtDestination, CreateTemporary, WriteSome, ListDirectory,
           CountEntry, AcceptUsage, MoveToName, FailToWrite, DieWriting, Goes, PinnedSteps
  <2>3. \A v \in Writers : at'[v] = "idle" <=> at[v] = "idle"
    BY <1>2, <2>1, <2>2
  <2>4. ValidName(w) /\ Temporary(w) \in Paths /\ Temporary(w).name = w
    BY <2>2, TemporaryPath DEF StoreInv, WriterInv
  <2>5. \/ files' = files \/ Unlink(Temporary(w))
        \/ \E new : files' = [files EXCEPT ![Temporary(w)] = new] /\ new.owner \in {w, files[Temporary(w)].owner}
        \/ /\ Exists(Temporary(w))
           /\ files' = [files EXCEPT ![wants[w].path] = files[Temporary(w)], ![Temporary(w)] = NoFile]
    <3>1. CASE CreateTemporary(w)
      <4> DEFINE new == [owner |-> w, size |-> 0, whole |-> FALSE]
      <4>1. files' = [files EXCEPT ![Temporary(w)] = new] /\ new.owner = w
        BY <3>1 DEF CreateTemporary
      <4> HIDE DEF new
      <4> QED
        BY <4>1
    <3>2. CASE WriteSome(w)
      <4>1. files[Temporary(w)] \in Contents
        BY <1>2, <2>4
      <4>2. CASE files' = [files EXCEPT ![Temporary(w)].size = @ + 1]
        <5>1. files' = [files EXCEPT ![Temporary(w)] = [files[Temporary(w)] EXCEPT !.size = @ + 1]]
          BY <1>2, <2>4, <4>2
        <5>2. [files[Temporary(w)] EXCEPT !.size = @ + 1].owner = files[Temporary(w)].owner
          BY <4>1 DEF Contents
        <5> QED
          BY <5>1, <5>2
      <4>3. CASE files' = [files EXCEPT ![Temporary(w)].whole = TRUE]
        <5>1. files' = [files EXCEPT ![Temporary(w)] = [files[Temporary(w)] EXCEPT !.whole = TRUE]]
          BY <1>2, <2>4, <4>3
        <5>2. [files[Temporary(w)] EXCEPT !.whole = TRUE].owner = files[Temporary(w)].owner
          BY <4>1 DEF Contents
        <5> QED
          BY <5>1, <5>2
      <4> QED
        BY <3>2, <4>2, <4>3 DEF WriteSome
    <3>3. CASE MoveToName(w)
      BY <3>3 DEF MoveToName
    <3>4. CASE ~CreateTemporary(w) /\ ~WriteSome(w) /\ ~MoveToName(w)
      BY <1>4, <3>4 DEF Publish, PinDirectories, LookAtDestination, ListDirectory,
             CountEntry, AcceptUsage, FailToWrite, DieWriting
    <3> QED
      BY <3>1, <3>2, <3>3, <3>4
  <2>6. ASSUME NEW v \in Writers, NEW p \in Paths, files'[p].owner = v
        PROVE  files[p].owner = v \/ p = Temporary(v) \/ (p = wants[v].path /\ at[v] # "idle")
    <3>1. CASE files' = files \/ Unlink(Temporary(w))
      BY <1>2, <2>6, <3>1 DEF Unlink
    <3>2. CASE \E new : files' = [files EXCEPT ![Temporary(w)] = new] /\ new.owner \in {w, files[Temporary(w)].owner}
      BY <1>2, <2>6, <3>2
    <3>3. CASE /\ Exists(Temporary(w))
               /\ files' = [files EXCEPT ![wants[w].path] = files[Temporary(w)], ![Temporary(w)] = NoFile]
      <4>1. files[Temporary(w)].owner = w
        BY <2>4, <3>3 DEF StoreInv, FileInv
      <4> QED
        BY <1>2, <2>2, <2>6, <3>3, <4>1
    <3> QED
      BY <2>5, <3>1, <3>2, <3>3
  <2> QED
    BY <2>3, <2>6
<1> QED
  BY <1>1, <1>3, <1>4

LEMMA CommandsStay ==
    ASSUME CommandsInv, commands' = commands,
           \A w \in Reporters : /\ at[w] = "idle" => at'[w] = "idle"
                                /\ ValidName(w)' = ValidName(w)
    PROVE  CommandsInv'
<1>1. \A w \in Reporters : CommandInv(w)'
  BY DEF CommandsInv, CommandInv
<1> QED
  BY <1>1 DEF CommandsInv

LEMMA StoreKeeps ==
    ASSUME FoxholeInv, UNCHANGED <<commands, outputs>>,
           \/ \E w \in Writers : Publish(w) \/ FailToWrite(w) \/ DieWriting(w)
           \/ \E c \in Cleaners : Clean(c)
    PROVE  FoxholeInv'
<1>1. StoreInv'
  BY PublishStepKeeps, FaultKeeps, CleanKeeps DEF FoxholeInv
<1>2. CeilingInv'
  BY <1>1, PublishCovers, LossCovers DEF FoxholeInv
<1>3. CommandsInv'
  BY StoreSteps, CommandsStay DEF FoxholeInv, ValidName, Reporters
<1>4. OutputsInv'
  <2>1. wants' = wants /\ (at'[Analyst] = "idle" <=> at[Analyst] = "idle")
    BY StoreSteps, AnalystAssumption DEF FoxholeInv
  <2>2. ~New(Analyst)' /\ \A w \in Reporters : New(w)'
    BY <2>1 DEF FoxholeInv, OutputsInv, New
  <2>3. "analysis" \in Directories /\ wants[Analyst].path.dir = "analysis"
    BY AnalystAssumption DEF FoxholeInv, OutputsInv, StoreInv, StoreTypes, Wishes, Apart
  <2>4. ASSUME NEW i \in DOMAIN outputs
        PROVE  /\ at[Analyst] # "idle" => outputs[i] # wants[Analyst].path.name
               /\ files[Output(outputs[i])].owner # Analyst
               /\ Output(outputs[i]) \in Paths /\ Output(outputs[i]) # Temporary(Analyst)
               /\ Output(outputs[i]).name = outputs[i]
    <3>1. outputs[i] \in {"a", "b"}
      BY DEF FoxholeInv, OutputsInv
    <3>2. Analyst \notin {"a", "b"}
      BY AnalystAssumption, WritersAssumption
    <3> QED
      BY <2>3, <3>1, <3>2 DEF FoxholeInv, OutputsInv, Output, Paths, Temporary
  <2>5. \A i \in DOMAIN outputs : files'[Output(outputs[i])].owner # Analyst
    BY <2>4, StoreSteps, AnalystAssumption DEF FoxholeInv
  <2> QED
    BY <2>1, <2>2, <2>4, <2>5 DEF FoxholeInv, OutputsInv
<1> QED
  BY <1>1, <1>2, <1>3, <1>4 DEF FoxholeInv

LEMMA StoreUntouched ==
    ASSUME StoreInv, CeilingInv, UNCHANGED storeVars
    PROVE  /\ StoreInv' /\ CeilingInv'
<1> USE DEF storeVars
<1>1. /\ \A p \in Paths : Exists(p)' = Exists(p)
      /\ \A w \in Writers : /\ Temporary(w)' = Temporary(w) /\ New(w)' = New(w)
                            /\ ValidName(w)' = ValidName(w)
  BY DEF Exists, Temporary, New, ValidName
<1>2. \A p \in Paths : FileInv(p)'
  BY FileStays DEF StoreInv
<1>3. \A w \in Writers : WriterInv(w)'
  BY WriterStays DEF StoreInv
<1>4. StoreInv'
  BY <1>1, <1>2, <1>3 DEF StoreInv, StoreTypes, Apart, Kept, Untouched
<1>5. PICK clock, rank, seen : Covers(clock, rank, seen)
  BY DEF CeilingInv
<1>6. Admitted' = Admitted
  BY <1>1 DEF Admitted
<1>7. CeilingInv'
  BY <1>1, <1>5, <1>6, CoversStays DEF Admitted
<1> QED
  BY <1>4, <1>7

-----------------------------------------------------------------------------
LEMMA CommandDecides ==
    ASSUME NEW w \in Reporters, CommandsInv, NEW decided, decided \in Commands,
           commands' = [commands EXCEPT ![w] = decided],
           \A v \in Reporters \ {w} : at'[v] = at[v],
           \A v \in Reporters : ValidName(v)' = ValidName(v),
           decided.step \in {"destination", "backend", "request", "execute"} => at'[w] = "idle",
           decided.step \in {"backend", "request", "execute"} /\ decided.args.report => ValidName(w)
    PROVE  CommandsInv'
<1>1. commands' \in [Reporters -> Commands] /\ commands'[w] = decided
      /\ \A v \in Reporters \ {w} : commands'[v] = commands[v]
  BY DEF CommandsInv
<1>2. \A v \in Reporters : CommandInv(v)'
  BY <1>1 DEF CommandsInv, CommandInv
<1> QED
  BY <1>1, <1>2 DEF CommandsInv

\* What the selection and the request can be.
LEMMA SelectionTypes ==
    ASSUME NEW a \in Arguments, NEW capable
    PROVE  LET requested == RequestedBackend(a)
               selection == IF requested.ok THEN ResolveBackend(requested.backend, capable, a.fallback)
                            ELSE Refusal
           IN  selection.ok => selection.backend \in {"restricted", "hyperv"}
BY DEF RequestedBackend, ResolveBackend, Refusal, Selected

LEMMA PolicyTypes ==
    ASSUME NEW a \in Arguments, NEW backend
    PROVE  /\ PolicyOf(a) \in Policies
           /\ BuildSandboxRequest(a, backend).ok => BuildSandboxRequest(a, backend).policy = PolicyOf(a)
BY DEF Arguments, PolicyOf, Shortcut, Policies, BuildSandboxRequest, Refusal

LEMMA CommandKeeps ==
    ASSUME FoxholeInv, NEW w \in Reporters, Command(w)
    PROVE  FoxholeInv'
<1>1. /\ w \in Writers /\ w # Analyst /\ commands[w] \in Commands /\ CommandInv(w)
      /\ \A s \in {"destination", "backend", "request", "execute", "report", "over", "failed"} :
            At(w, s) \in Commands /\ At(w, s).step = s /\ At(w, s).args = commands[w].args
  BY DEF FoxholeInv, CommandsInv, Commands, Reporters, At
<1>2. ASSUME UNCHANGED storeVars, UNCHANGED outputs, CommandsInv' PROVE FoxholeInv'
  <2>1. StoreInv' /\ CeilingInv'
    BY <1>2, StoreUntouched DEF FoxholeInv
  <2>2. OutputsInv'
    BY <1>2 DEF FoxholeInv, OutputsInv, storeVars, New
  <2> QED
    BY <1>2, <2>1, <2>2 DEF FoxholeInv
<1>3. ASSUME NEW decided \in Commands, Decides(w, decided), UNCHANGED storeVars,
             decided.step \in {"destination", "backend", "request", "execute"} => at[w] = "idle",
             decided.step \in {"backend", "request", "execute"} /\ decided.args.report => ValidName(w)
      PROVE  FoxholeInv'
  <2>1. \A v \in Reporters : ValidName(v)' = ValidName(v)
    BY <1>3 DEF ValidName, storeVars
  <2>2. CommandsInv'
    BY <1>3, <2>1, CommandDecides DEF FoxholeInv, Decides, storeVars
  <2> QED
    BY <1>2, <1>3, <2>2 DEF Decides, analysisVars
<1>4. CASE ResolveDestination(w)
  <2>1. at[w] = "idle"
    BY <1>1, <1>4 DEF ResolveDestination, CommandInv
  <2> QED
    BY <1>1, <1>3, <1>4, <2>1 DEF ResolveDestination
<1>5. CASE ChooseBackend(w)
  <2>1. at[w] = "idle" /\ (commands[w].args.report => ValidName(w)) /\ commands[w].args \in Arguments
    BY <1>1, <1>5 DEF ChooseBackend, CommandInv, Commands
  <2>2. CASE Decides(w, At(w, "failed"))
    BY <1>1, <1>3, <1>5, <2>1, <2>2 DEF ChooseBackend
  <2>3. CASE \E b \in {"restricted", "hyperv"} : Decides(w, [At(w, "request") EXCEPT !.backend = b])
    <3>1. PICK b \in {"restricted", "hyperv"} : Decides(w, [At(w, "request") EXCEPT !.backend = b])
      BY <2>3
    <3>2. [At(w, "request") EXCEPT !.backend = b] \in Commands
          /\ [At(w, "request") EXCEPT !.backend = b].args = commands[w].args
      BY <1>1 DEF Commands
    <3> QED
      BY <1>3, <1>5, <2>1, <3>1, <3>2 DEF ChooseBackend
  <2> QED
    BY <1>5, <2>1, <2>2, <2>3, SelectionTypes DEF ChooseBackend
<1>6. CASE BuildRequest(w)
  <2>1. at[w] = "idle" /\ (commands[w].args.report => ValidName(w)) /\ commands[w].args \in Arguments
    BY <1>1, <1>6 DEF BuildRequest, CommandInv, Commands
  <2>2. CASE Decides(w, At(w, "failed"))
    BY <1>1, <1>3, <1>6, <2>1, <2>2 DEF BuildRequest
  <2>3. CASE \E p \in Policies : Decides(w, [At(w, "execute") EXCEPT !.policy = p])
    <3>1. PICK p \in Policies : Decides(w, [At(w, "execute") EXCEPT !.policy = p])
      BY <2>3
    <3>2. [At(w, "execute") EXCEPT !.policy = p] \in Commands
          /\ [At(w, "execute") EXCEPT !.policy = p].args = commands[w].args
      BY <1>1 DEF Commands
    <3> QED
      BY <1>3, <1>6, <2>1, <3>1, <3>2 DEF BuildRequest
  <2> QED
    BY <1>6, <2>1, <2>2, <2>3, PolicyTypes DEF BuildRequest
<1>7. CASE Execute(w)
  <2>1. at[w] = "idle" /\ (commands[w].args.report => ValidName(w))
    BY <1>1, <1>7 DEF Execute, CommandInv
  <2>2. CASE (Decides(w, At(w, "failed")) \/ Decides(w, At(w, "over"))) /\ UNCHANGED storeVars
    BY <1>1, <1>3, <2>2
  <2>3. CASE /\ commands[w].args.report /\ Decides(w, At(w, "report"))
             /\ at' = [at EXCEPT ![w] = "start"]
             /\ UNCHANGED <<wants, files, unread, listed, counted, result, cleaning>>
    <3>1. StoreInv'
      <4>1. "a" \in {"a", "b"}
        OBVIOUS
      <4> QED
        BY <1>1, <2>1, <2>3, <4>1, StartKeeps DEF FoxholeInv
    <3>2. Admitted' \subseteq Admitted /\ at \in [Writers -> Steps]
      BY <1>1, <2>3 DEF Admitted, New, FoxholeInv, StoreInv, StoreTypes
    <3>3. CeilingInv'
      <4>1. PICK clock, rank, seen : Covers(clock, rank, seen)
        BY DEF FoxholeInv, CeilingInv
      <4> QED
        BY <2>3, <3>2, <4>1, CoversStays DEF New, Temporary, FoxholeInv
    <3>4. CommandsInv'
      BY <1>1, <2>3, <3>2, CommandDecides DEF FoxholeInv, Decides, ValidName, Reporters
    <3>5. OutputsInv'
      BY <1>1, <2>3, <3>2, AnalystAssumption DEF FoxholeInv, OutputsInv, Decides, analysisVars, New
    <3> QED
      BY <3>1, <3>3, <3>4, <3>5 DEF FoxholeInv
  <2> QED
    BY <1>7, <2>2, <2>3 DEF Execute
<1>8. CASE ReportWritten(w)
  BY <1>1, <1>3, <1>8 DEF ReportWritten
<1> QED
  BY <1>4, <1>5, <1>6, <1>7, <1>8 DEF Command

\* The analysis takes its next output.
LEMMA WriteOutputKeeps ==
    ASSUME FoxholeInv, WriteOutput
    PROVE  FoxholeInv'
<1> USE DEF WriteOutput
<1>1. /\ Analyst \in Writers /\ ~New(Analyst) /\ ValidName(Analyst) /\ wants[Analyst].path.dir = "analysis"
      /\ at \in [Writers -> Steps] /\ wants \in [Writers -> Wishes]
      /\ result \in [Writers -> {"none", "published", "refused", "died"}]
  BY AnalystAssumption DEF FoxholeInv, OutputsInv, StoreInv, Apart, StoreTypes, ValidName
<1>2. /\ outputs \in Seq({"a", "b"}) /\ outputs # <<>> /\ 1 \in DOMAIN outputs /\ Head(outputs) = outputs[1]
      /\ Head(outputs) \in {"a", "b"}
  BY DEF FoxholeInv, OutputsInv
<1>3. files[Output(Head(outputs))].owner # Analyst
  BY <1>2 DEF FoxholeInv, OutputsInv
<1>4. StoreInv'
  BY <1>1, <1>2, <1>3, StartKeeps DEF FoxholeInv, Output
<1>5. \A v \in Writers \ {Analyst} : wants'[v] = wants[v] /\ at'[v] = at[v] /\ result'[v] = result[v]
  BY <1>1
<1>6. /\ wants'[Analyst] = [wants[Analyst] EXCEPT !.path = Output(Head(outputs))]
      /\ at'[Analyst] = "start" /\ wants[Analyst] \in Wishes
  BY <1>1 DEF Output
<1>7. /\ wants'[Analyst].path = Output(Head(outputs)) /\ wants'[Analyst].size = wants[Analyst].size
      /\ wants'[Analyst].manner = wants[Analyst].manner
      /\ Output(Head(outputs)).dir = "analysis" /\ Output(Head(outputs)).name = Head(outputs)
  BY <1>6 DEF Wishes, Output
<1>8. \A v \in Writers : /\ New(v)' = New(v) /\ wants'[v].size = wants[v].size
                         /\ Temporary(v)' = Temporary(v) /\ ValidName(v)' = ValidName(v)
  BY <1>1, <1>5, <1>7 DEF New, Temporary, ValidName
<1>9. CeilingInv'
  <2>1. PICK clock, rank, seen : Covers(clock, rank, seen)
    BY DEF FoxholeInv, CeilingInv
  <2>2. Admitted' \subseteq Admitted /\ Analyst \notin Admitted'
    BY <1>1, <1>5, <1>8 DEF Admitted
  <2> QED
    BY <1>8, <2>1, <2>2, CoversStays DEF FoxholeInv
<1>10. CommandsInv'
  BY <1>5, <1>8, CommandsStay DEF FoxholeInv, Reporters
<1>11. OutputsInv'
  <2>1. Tail(outputs) \in Seq({"a", "b"}) /\ DOMAIN Tail(outputs) = 1..(Len(outputs) - 1)
        /\ \A i \in 1..(Len(outputs) - 1) : Tail(outputs)[i] = outputs[i + 1] /\ i + 1 \in DOMAIN outputs
    BY <1>2
  <2>2. \A i, j \in DOMAIN outputs : outputs[i] = outputs[j] => i = j
    BY DEF FoxholeInv, OutputsInv
  <2>3. \A i, j \in DOMAIN outputs' : outputs'[i] = outputs'[j] => i = j
    BY <2>1, <2>2
  <2>4. \A i \in DOMAIN outputs' : outputs'[i] # Head(outputs)
    BY <1>2, <2>1, <2>2
  <2>5. \A i \in DOMAIN outputs' : files[Output(outputs'[i])].owner # Analyst
    BY <2>1 DEF FoxholeInv, OutputsInv
  <2> QED
    BY <1>1, <1>7, <1>8, <2>1, <2>3, <2>4, <2>5 DEF FoxholeInv, OutputsInv, Reporters
<1> QED
  BY <1>4, <1>9, <1>10, <1>11 DEF FoxholeInv

LEMMA NextInv == FoxholeInv /\ [Next]_vars => FoxholeInv'
<1> SUFFICES ASSUME FoxholeInv, [Next]_vars PROVE FoxholeInv'
  OBVIOUS
<1>1. ASSUME UNCHANGED <<storeVars, commands, outputs>> PROVE FoxholeInv'
  <2>1. StoreInv' /\ CeilingInv'
    BY <1>1, StoreUntouched DEF FoxholeInv
  <2>2. CommandsInv'
    BY <1>1, CommandsStay DEF FoxholeInv, storeVars, ValidName
  <2>3. OutputsInv'
    BY <1>1 DEF FoxholeInv, OutputsInv, storeVars, New
  <2> QED
    BY <2>1, <2>2, <2>3 DEF FoxholeInv
<1>2. CASE \E w \in Reporters : Command(w)
  BY <1>2, CommandKeeps
<1>3. CASE Analyze
  <2>1. CASE WriteOutput
    BY <2>1, WriteOutputKeeps
  <2>2. CASE ~WriteOutput
    BY <1>1, <1>3, <2>2 DEF Analyze, LoadRun, JudgeRun, LackSettings, AskVirusTotal, EndAsking,
                            ValidateOutputs, EndWriting
  <2> QED
    BY <2>1, <2>2
<1>4. CASE Store
  BY <1>4, StoreKeeps DEF Store, analysisVars
<1>5. CASE \E w \in Writers : Fault(w)
  BY <1>5, StoreKeeps DEF Fault, analysisVars
<1>6. CASE UNCHANGED vars
  BY <1>1, <1>6 DEF vars
<1> QED
  BY <1>2, <1>3, <1>4, <1>5, <1>6 DEF Next

LEMMA FoxholeInvariant == Spec => []FoxholeInv
BY InitInv, NextInv, PTL DEF Spec

-----------------------------------------------------------------------------
\* A name below the root holds what one writer has completely written, and whoever was
\* told that its file is published has it there until somebody cleans up: of two that
\* want one name, one is refused (secure_write_new, secure_replace_in).
THEOREM KeptReports == Spec => []ReportsKept
<1>1. FoxholeInv => ReportsKept
  <2> SUFFICES ASSUME StoreInv PROVE ReportsKept
    BY DEF FoxholeInv
  <2>1. \A p \in Existing : p.name \notin Writers => files[p].whole
    BY DEF Existing, StoreInv, FileInv
  <2>2. \A w \in Writers : result[w] = "refused" => files[wants[w].path].owner # w
    BY DEF StoreInv, WriterInv
  <2> QED
    BY <2>1, <2>2 DEF ReportsKept, StoreInv, Kept, Untouched
<1> QED
  BY <1>1, FoxholeInvariant, PTL

\* However many processes publish at once, and whoever cleans up in between, the reports
\* they leave stay within the two ceilings together (enforce_artifact_ceiling).
THEOREM CeilingKept == Spec => []CeilingHolds
<1>1. FoxholeInv => CeilingHolds
  BY CeilingFollows DEF FoxholeInv
<1> QED
  BY <1>1, FoxholeInvariant, PTL

-----------------------------------------------------------------------------
\* The backend and the network of a command.

\* What BackendChosen says of one command, and what is open until it is decided.
ChosenInv(w) ==
    LET c == commands[w]
    IN  /\ c.backend = "restricted" => WeakerIsolationAllowed(c.args, c.capability)
        /\ c.backend = "hyperv" => c.args.sandbox # "restricted" /\ c.capability = "available"
        /\ c.policy # "none" => NetworkAsked(c.args, c.policy)
        /\ c.policy = "host_server" \/ (c.policy # "none" /\ c.args.profile # "restricted")
               => c.backend = "hyperv"
        /\ c.step \in {"destination", "backend", "request"} => c.policy = "none"
        /\ c.step = "request" => c.backend # "none"

AllChosen == \A w \in Reporters : ChosenInv(w)

\* The restricted backend is selected where it was asked for or allowed, and Hyper-V only
\* where it is there: dispatcher.rs.
LEMMA SelectionHonest ==
    ASSUME NEW a \in Arguments, NEW capability \in Capabilities
    PROVE  LET requested == RequestedBackend(a)
               selection == IF requested.ok
                            THEN ResolveBackend(requested.backend, Capable(a, capability), a.fallback)
                            ELSE Refusal
           IN  /\ selection.ok /\ selection.backend = "restricted" => WeakerIsolationAllowed(a, capability)
               /\ selection.ok /\ selection.backend = "hyperv" =>
                     a.sandbox # "restricted" /\ capability = "available"
<1>1. a.sandbox \in {"none", "restricted", "hyperv", "auto"} /\ a.fallback \in BOOLEAN
  BY DEF Arguments
<1>2. RequestedBackend(a).ok => RequestedBackend(a).backend = a.sandbox /\ a.sandbox # "none"
  BY DEF RequestedBackend, Refusal
<1>3. ~Refusal.ok
  BY DEF Refusal
<1> QED
  BY <1>1, <1>2, <1>3 DEF ResolveBackend, Capable, Refusal, Selected, WeakerIsolationAllowed, Capabilities

\* A request has the network that the options ask for, and the backend can give: cli.rs.
LEMMA RequestHonest ==
    ASSUME NEW a \in Arguments, NEW backend \in {"restricted", "hyperv"},
           BuildSandboxRequest(a, backend).ok
    PROVE  LET policy == BuildSandboxRequest(a, backend).policy
           IN  /\ NetworkAsked(a, policy) /\ policy # "none"
               /\ policy = "host_server" \/ a.profile # "restricted" => backend = "hyperv"
<1>1. /\ a.hostServer \in BOOLEAN /\ a.external \in BOOLEAN /\ a.allowNetwork \in BOOLEAN
      /\ a.addresses \in BOOLEAN /\ a.policy \in Policies \cup {"none"}
  BY DEF Arguments
<1>2. /\ ~(a.hostServer /\ a.allowNetwork)
      /\ ~(Shortcut(a) # "none" /\ a.policy # "none" /\ a.policy # Shortcut(a))
      /\ ~(backend # "hyperv" /\ PolicyOf(a) = "host_server")
      /\ ~((PolicyOf(a) = "allow_list") # a.addresses)
      /\ ~(backend = "restricted" /\ a.profile # "restricted")
  BY DEF BuildSandboxRequest, Refusal
<1>3. BuildSandboxRequest(a, backend).policy = PolicyOf(a)
  BY PolicyTypes
<1>4. NetworkAsked(a, PolicyOf(a)) /\ PolicyOf(a) # "none"
  <2>1. CASE a.hostServer
    BY <1>1, <1>2, <2>1 DEF Shortcut, PolicyOf, NetworkAsked
  <2>2. CASE ~a.hostServer /\ (a.external \/ a.allowNetwork)
    BY <1>1, <1>2, <2>2 DEF Shortcut, PolicyOf, NetworkAsked
  <2>3. CASE ~a.hostServer /\ ~a.external /\ ~a.allowNetwork
    BY <1>1, <1>2, <2>3 DEF Shortcut, PolicyOf, NetworkAsked, Policies
  <2> QED
    BY <2>1, <2>2, <2>3
<1> QED
  BY <1>2, <1>3, <1>4

LEMMA CommandChosen ==
    ASSUME CommandsInv, NEW w \in Reporters, Command(w), \A v \in Reporters : ChosenInv(v)
    PROVE  \A v \in Reporters : ChosenInv(v)'
<1>1. /\ commands[w] \in Commands /\ commands[w].args \in Arguments /\ commands[w].capability \in Capabilities
      /\ commands[w].backend \in {"none", "restricted", "hyperv"} /\ ChosenInv(w)
  BY DEF CommandsInv, Commands
<1>2. \A v \in Reporters \ {w} : commands'[v] = commands[v]
  BY DEF CommandsInv, Command, ResolveDestination, ChooseBackend, BuildRequest, Execute, ReportWritten, Decides
<1>3. \A v \in Reporters \ {w} : ChosenInv(v)'
  BY <1>2 DEF ChosenInv
<1>4. \A s \in {"destination", "backend", "request", "execute", "report", "over", "failed"} :
          /\ At(w, s).step = s /\ At(w, s).args = commands[w].args /\ At(w, s).backend = commands[w].backend
          /\ At(w, s).capability = commands[w].capability /\ At(w, s).policy = commands[w].policy
          /\ At(w, s) \in Commands
  BY <1>1 DEF Commands, At
<1>5. ASSUME NEW s \in {"backend", "execute", "report", "over", "failed"}, Decides(w, At(w, s)),
             s = "backend" => commands[w].policy = "none"
      PROVE  ChosenInv(w)'
  <2>1. commands'[w] = At(w, s)
    BY <1>5 DEF Decides, CommandsInv
  <2> QED
    BY <1>1, <1>4, <1>5, <2>1 DEF ChosenInv
<1>6. CASE ResolveDestination(w)
  <2>1. commands[w].policy = "none"
    BY <1>1, <1>6 DEF ResolveDestination, ChosenInv
  <2>2. Decides(w, At(w, "failed")) \/ Decides(w, At(w, "backend"))
    BY <1>6 DEF ResolveDestination
  <2> QED
    BY <1>3, <1>5, <2>1, <2>2
<1>7. CASE ChooseBackend(w)
  <2> DEFINE a == commands[w].args
             requested == RequestedBackend(a)
             selection == IF requested.ok
                          THEN ResolveBackend(requested.backend, Capable(a, commands[w].capability), a.fallback)
                          ELSE Refusal
  <2>1. CASE ~selection.ok
    <3>1. Decides(w, At(w, "failed"))
      BY <1>7, <2>1 DEF ChooseBackend
    <3> HIDE DEF selection
    <3> QED
      BY <1>3, <1>5, <3>1
  <2>2. CASE selection.ok
    <3>1. Decides(w, [At(w, "request") EXCEPT !.backend = selection.backend])
      BY <1>7, <2>2 DEF ChooseBackend
    <3>2. selection.backend \in {"restricted", "hyperv"}
      BY <1>1, <2>2, SelectionTypes
    <3>3. /\ selection.backend = "restricted" => WeakerIsolationAllowed(a, commands[w].capability)
          /\ selection.backend = "hyperv" => a.sandbox # "restricted" /\ commands[w].capability = "available"
      BY <1>1, <2>2, SelectionHonest
    <3> HIDE DEF selection
    <3>4. commands'[w] = [At(w, "request") EXCEPT !.backend = selection.backend]
      BY <3>1 DEF Decides, CommandsInv
    <3>5. /\ commands'[w].step = "request" /\ commands'[w].args = a /\ commands'[w].backend = selection.backend
          /\ commands'[w].capability = commands[w].capability /\ commands'[w].policy = commands[w].policy
      BY <1>4, <3>4 DEF Commands
    <3>6. commands[w].policy = "none"
      BY <1>1, <1>7 DEF ChosenInv, ChooseBackend
    <3> QED
      BY <1>3, <3>2, <3>3, <3>5, <3>6 DEF ChosenInv
  <2> QED
    BY <2>1, <2>2
<1>8. CASE BuildRequest(w)
  <2> DEFINE request == BuildSandboxRequest(commands[w].args, commands[w].backend)
  <2>1. CASE ~request.ok
    <3>1. Decides(w, At(w, "failed"))
      BY <1>8, <2>1 DEF BuildRequest
    <3> HIDE DEF request
    <3> QED
      BY <1>3, <1>5, <3>1
  <2>2. CASE request.ok
    <3>1. Decides(w, [At(w, "execute") EXCEPT !.policy = request.policy])
      BY <1>8, <2>2 DEF BuildRequest
    <3>2. commands[w].backend \in {"restricted", "hyperv"}
      BY <1>1, <1>8 DEF ChosenInv, BuildRequest
    <3>3. /\ NetworkAsked(commands[w].args, request.policy) /\ request.policy # "none"
          /\ request.policy = "host_server" \/ commands[w].args.profile # "restricted"
                => commands[w].backend = "hyperv"
      BY <1>1, <2>2, <3>2, RequestHonest
    <3> HIDE DEF request
    <3>4. commands'[w] = [At(w, "execute") EXCEPT !.policy = request.policy]
      BY <3>1 DEF Decides, CommandsInv
    <3>5. /\ commands'[w].step = "execute" /\ commands'[w].args = commands[w].args
          /\ commands'[w].backend = commands[w].backend
          /\ commands'[w].capability = commands[w].capability /\ commands'[w].policy = request.policy
      BY <1>4, <3>4 DEF Commands
    <3> QED
      BY <1>1, <1>3, <3>2, <3>3, <3>5 DEF ChosenInv
  <2> QED
    BY <2>1, <2>2
<1>9. CASE Execute(w) \/ ReportWritten(w)
  <2>1. \E s \in {"report", "over", "failed"} : Decides(w, At(w, s))
    BY <1>9 DEF Execute, ReportWritten
  <2> QED
    BY <1>3, <1>5, <2>1
<1> QED
  BY <1>3, <1>6, <1>7, <1>8, <1>9 DEF Command

\* The weaker backend runs only what was to run there or was allowed to, the network is one
\* that an option asks for and the backend has, and no later step changes that.
THEOREM ChosenBackend == Spec => []BackendChosen
<1>1. Init => AllChosen
  <2> SUFFICES ASSUME Init, NEW w \in Reporters PROVE ChosenInv(w)
    BY DEF AllChosen
  <2>1. /\ commands[w].backend = "none" /\ commands[w].policy = "none"
        /\ commands[w].step \in {"destination", "over"}
    BY DEF Init
  <2> QED
    BY <2>1 DEF ChosenInv
<1>2. FoxholeInv /\ AllChosen /\ [Next]_vars => AllChosen'
  <2> SUFFICES ASSUME FoxholeInv, AllChosen, [Next]_vars PROVE AllChosen'
    OBVIOUS
  <2>1. CASE \E w \in Reporters : Command(w)
    BY <2>1, CommandChosen DEF FoxholeInv, AllChosen
  <2>2. CASE commands' = commands
    BY <2>2 DEF AllChosen, ChosenInv
  <2>3. commands' = commands \/ \E w \in Reporters : Command(w)
    BY DEF Next, Analyze, LoadRun, JudgeRun, LackSettings, AskVirusTotal, EndAsking, ValidateOutputs,
           WriteOutput, EndWriting, Store, Fault, vars
  <2> QED
    BY <2>1, <2>2, <2>3
<1>3. AllChosen => BackendChosen
  BY DEF AllChosen, ChosenInv, BackendChosen
<1> QED
  BY <1>1, <1>2, <1>3, FoxholeInvariant, PTL DEF Spec

-----------------------------------------------------------------------------
\* What the analysis says of the files' reputation.

Early == {"none", "load", "judge", "ask"}

NoAnswers == [files |-> {}, status |-> "none"]

AnalysisShape ==
    analysis = [archive |-> analysis.archive, run |-> analysis.run, findings |-> analysis.findings,
                verdict |-> analysis.verdict, iocs |-> analysis.iocs, answers |-> analysis.answers,
                queried |-> analysis.queried, phase |-> analysis.phase]

AskedInv ==
    /\ \E S : asked \in Seq(S)
    /\ Len(asked) <= MaxLookups
    /\ \A i, j \in DOMAIN asked : asked[i].digest = asked[j].digest => i = j
    /\ \A i \in DOMAIN asked : Refuses(asked[i].reply) => i = Len(asked) /\ refused

\* Digests that the service gave a report about.
Reported == {asked[i].digest : i \in {j \in DOMAIN asked : asked[j].reply = "report"}}

Honest(answers, run) ==
    /\ \A f \in answers.files : f.status = "available" <=> f.sha256 \in Reported
    /\ answers.status = "complete" => {f.sha256 : f \in run.files} \ {Absent} \subseteq Reported

ReputationInv ==
    /\ AnalysisShape /\ AskedInv
    /\ analysis.phase \in Early => analysis.answers = NoAnswers
    /\ Honest(analysis.answers, analysis.run)

LEMMA NothingSaid == ASSUME NEW run PROVE Honest(NoAnswers, run)
BY DEF Honest, NoAnswers

\* Each digest asked about once, its status is what the service said about it.
LEMMA StatusHonest ==
    ASSUME AskedInv, NEW digest
    PROVE  StatusOf(digest) = "available" <=> digest \in Reported
<1> DEFINE mine == {i \in DOMAIN asked : asked[i].digest = digest}
<1>1. CASE mine = {}
  <2>1. StatusOf(digest) = "not_queried"
    BY <1>1 DEF StatusOf
  <2> QED
    BY <1>1, <2>1 DEF Reported
<1>2. CASE mine # {}
  <2>1. PICK i \in mine : i = CHOOSE j \in mine : TRUE
    BY <1>2
  <2>2. \A j \in mine : j = i
    BY <2>1 DEF AskedInv
  <2>3. StatusOf(digest) = LookupResult(asked[i].reply)
    BY <1>2, <2>1 DEF StatusOf
  <2>4. LookupResult(asked[i].reply) = "available" <=> asked[i].reply = "report"
    BY DEF LookupResult
  <2>5. digest \in Reported <=> asked[i].reply = "report"
    BY <2>1, <2>2 DEF Reported
  <2> QED
    BY <2>3, <2>4, <2>5
<1> QED
  BY <1>1, <1>2

LEMMA AnswersHonest ==
    ASSUME AskedInv, NEW run, NEW queried
    PROVE  Honest(Answers(Candidates(run), queried), run)
<1> DEFINE answers == Answers(Candidates(run), queried)
           candidates == Candidates(run)
<1>1. \A f \in answers.files : \E c \in candidates : f.sha256 = c.sha256 /\ f.status = StatusOf(c.sha256)
  BY DEF Answers
<1>2. \A f \in answers.files : f.status = "available" <=> f.sha256 \in Reported
  BY <1>1, StatusHonest
<1>3. ASSUME answers.status = "complete", NEW f \in run.files, f.sha256 # Absent
      PROVE  f.sha256 \in Reported
  <2>1. {c \in candidates : StatusOf(c.sha256) = "available"} = candidates
    BY <1>3 DEF Answers
  <2>2. [role |-> 1, path |-> f.path, sha256 |-> f.sha256] \in candidates
    BY <1>3 DEF Candidates, Absent, NoDigest
  <2>3. StatusOf(f.sha256) = "available"
    BY <2>1, <2>2
  <2> QED
    BY <2>3, StatusHonest
<1> QED
  BY <1>2, <1>3 DEF Honest

LEMMA AskKeeps ==
    ASSUME AskedInv, NEW candidates, NEW paths, Ask(candidates, paths)
    PROVE  AskedInv'
<1>1. PICK c \in Unasked(candidates), reply \in Replies :
        /\ asked' = Append(asked, [digest |-> c.sha256, reply |-> reply])
        /\ refused' = Refuses(reply)
  BY DEF Ask
<1>2. PICK S : asked \in Seq(S)
  BY DEF AskedInv
<1>3. ~refused /\ Len(asked) < MaxLookups /\ \A i \in DOMAIN asked : asked[i].digest # c.sha256
  BY <1>1 DEF Unasked
<1> DEFINE new == [digest |-> c.sha256, reply |-> reply]
<1>4. new.digest = c.sha256 /\ new.reply = reply
  OBVIOUS
<1> HIDE DEF new
<1>5. asked \in Seq(S \cup {new})
  BY <1>2
<1>6. /\ asked' \in Seq(S \cup {new}) /\ Len(asked') = Len(asked) + 1 /\ Len(asked) \in Nat
      /\ DOMAIN asked = 1..Len(asked) /\ DOMAIN asked' = 1..(Len(asked) + 1)
      /\ asked'[Len(asked) + 1] = new /\ \A i \in 1..Len(asked) : asked'[i] = asked[i]
  <2>1. asked' = Append(asked, new)
    BY <1>1 DEF new
  <2> QED
    BY <1>5, <2>1
<1>7. Len(asked') <= MaxLookups
  BY <1>3, <1>6, LookupsAssumption
<1>8. \A i, j \in DOMAIN asked' : asked'[i].digest = asked'[j].digest => i = j
  BY <1>3, <1>4, <1>6 DEF AskedInv
<1>9. \A i \in DOMAIN asked' : Refuses(asked'[i].reply) => i = Len(asked') /\ refused'
  BY <1>1, <1>3, <1>4, <1>6 DEF AskedInv
<1> QED
  BY <1>6, <1>7, <1>8, <1>9 DEF AskedInv

\* A file has a report only if the service gave one about that very file, and the
\* reputation is complete only when every file with a digest has one; a digest is asked
\* about once, within the limit, and nothing after a refusal (virustotal.rs).
THEOREM HonestReputation == Spec => []ReputationHonest
<1>1. Init => ReputationInv
  <2> SUFFICES ASSUME Init PROVE ReputationInv
    OBVIOUS
  <2>1. asked = <<>> /\ refused = FALSE
    BY DEF Init, ReputationInit
  <2>2. AskedInv
    <3>1. asked \in Seq({}) /\ Len(asked) = 0 /\ DOMAIN asked = {}
      BY <2>1
    <3> QED
      BY <3>1, LookupsAssumption DEF AskedInv
  <2>3. AnalysisShape /\ analysis.answers = NoAnswers
    BY DEF Init, AnalysisShape, NoAnswers
  <2> QED
    BY <2>2, <2>3, NothingSaid DEF ReputationInv
<1>2. ReputationInv /\ [Next]_vars => ReputationInv'
  <2> SUFFICES ASSUME ReputationInv, [Next]_vars PROVE ReputationInv'
    OBVIOUS
  <2>1. CASE UNCHANGED <<analysis, reputationVars>>
    <3>1. AskedInv'
      BY <2>1 DEF ReputationInv, AskedInv, reputationVars
    <3>2. Honest(analysis.answers, analysis.run)'
      BY <2>1 DEF ReputationInv, Honest, Reported, reputationVars
    <3> QED
      BY <2>1, <3>1, <3>2 DEF ReputationInv, AnalysisShape
  <2>2. ASSUME NEW phase, analysis' = [analysis EXCEPT !.phase = phase], UNCHANGED reputationVars,
               phase \in Early => analysis.phase \in Early
        PROVE  ReputationInv'
    <3>1. AnalysisShape' /\ analysis'.answers = analysis.answers /\ analysis'.run = analysis.run
          /\ analysis'.phase = phase
      BY <2>2 DEF ReputationInv, AnalysisShape
    <3>2. AskedInv'
      BY <2>2 DEF ReputationInv, AskedInv, reputationVars
    <3>3. Honest(analysis.answers, analysis.run)'
      BY <2>2, <3>1 DEF ReputationInv, Honest, Reported, reputationVars
    <3> QED
      BY <2>2, <3>1, <3>2, <3>3 DEF ReputationInv
  <2>3. CASE LoadRun
    <3>1. CASE Analyzes("failed")
      BY <2>2, <2>3, <3>1 DEF LoadRun, Analyzes, Early
    <3>2. CASE \E run : analysis' = [analysis EXCEPT !.phase = "judge", !.run = run]
      <4>1. AnalysisShape' /\ analysis'.answers = analysis.answers /\ analysis'.phase = "judge"
        BY <3>2 DEF ReputationInv, AnalysisShape
      <4>2. analysis.answers = NoAnswers
        BY <2>3 DEF LoadRun, ReputationInv, Early
      <4>3. AskedInv'
        BY <2>3 DEF LoadRun, ReputationInv, AskedInv, reputationVars
      <4>4. Honest(analysis.answers, analysis.run)'
        BY <4>1, <4>2 DEF Honest, NoAnswers
      <4> QED
        BY <4>1, <4>2, <4>3, <4>4 DEF ReputationInv
    <3> QED
      BY <2>3, <3>1, <3>2 DEF LoadRun
  <2>4. CASE JudgeRun
    <3>1. PICK f, v, i : analysis' = [analysis EXCEPT !.phase = "ask", !.findings = f, !.verdict = v, !.iocs = i]
      BY <2>4 DEF JudgeRun
    <3>2. AnalysisShape' /\ analysis'.answers = analysis.answers /\ analysis'.run = analysis.run
      BY <3>1 DEF ReputationInv, AnalysisShape
    <3>3. analysis.phase = "judge" /\ UNCHANGED reputationVars
      BY <2>4 DEF JudgeRun
    <3>4. AskedInv'
      BY <3>3 DEF ReputationInv, AskedInv, reputationVars
    <3>5. Honest(analysis.answers, analysis.run)'
      BY <3>2, <3>3 DEF ReputationInv, Honest, Reported, reputationVars
    <3> QED
      BY <3>2, <3>3, <3>4, <3>5 DEF ReputationInv, Early
  <2>5. CASE LackSettings \/ ValidateOutputs \/ EndWriting
    <3>1. \E phase \in {"failed", "write", "over"} : analysis' = [analysis EXCEPT !.phase = phase]
      BY <2>5 DEF LackSettings, ValidateOutputs, EndWriting, Analyzes
    <3>2. UNCHANGED reputationVars
      BY <2>5 DEF LackSettings, ValidateOutputs, EndWriting
    <3> QED
      BY <2>2, <3>1, <3>2 DEF Early
  <2>6. CASE AskVirusTotal
    <3>1. analysis.phase = "ask" /\ analysis' = analysis /\ AskedInv'
      BY <2>6, AskKeeps DEF AskVirusTotal, ReputationInv
    <3>2. analysis.answers = NoAnswers
      BY <3>1 DEF ReputationInv, Early
    <3>3. Honest(analysis.answers, analysis.run)'
      BY <3>1, <3>2 DEF Honest, NoAnswers
    <3> QED
      BY <3>1, <3>2, <3>3 DEF ReputationInv, AnalysisShape
  <2>7. CASE EndAsking
    <3> DEFINE answers == Answers(Candidates(analysis.run), analysis.queried)
    <3>1. analysis' = [analysis EXCEPT !.phase = "validate", !.answers = answers] /\ UNCHANGED reputationVars
      BY <2>7 DEF EndAsking
    <3>2. Honest(answers, analysis.run)
      BY AnswersHonest DEF ReputationInv
    <3> HIDE DEF answers
    <3>3. AnalysisShape' /\ analysis'.answers = answers /\ analysis'.run = analysis.run
          /\ analysis'.phase = "validate"
      BY <3>1 DEF ReputationInv, AnalysisShape
    <3>4. AskedInv'
      BY <3>1 DEF ReputationInv, AskedInv, reputationVars
    <3>5. Honest(analysis.answers, analysis.run)'
      BY <3>1, <3>2, <3>3 DEF Honest, Reported, reputationVars
    <3> QED
      BY <3>3, <3>4, <3>5 DEF ReputationInv, Early
  <2>8. CASE WriteOutput \/ Store \/ (\E w \in Reporters : Command(w)) \/ (\E w \in Writers : Fault(w))
    BY <2>1, <2>8 DEF WriteOutput, Store, Fault, Command, ResolveDestination, ChooseBackend, BuildRequest,
           Execute, ReportWritten, Decides, analysisVars, reputationVars
  <2> QED
    BY <2>1, <2>3, <2>4, <2>5, <2>6, <2>7, <2>8 DEF Next, Analyze, vars
<1>3. ReputationInv => ReputationHonest
  BY DEF ReputationInv, AskedInv, Honest, Reported, ReputationHonest
<1> QED
  BY <1>1, <1>2, <1>3, PTL DEF Spec

-----------------------------------------------------------------------------
\* Scores.

\* Of natural numbers one is the least.
LEMMA LeastNumber ==
    ASSUME NEW S \in SUBSET Nat, S # {}
    PROVE  \E n \in S : \A m \in S : n <= m
<1>1. PICK k \in S : TRUE
  OBVIOUS
<1> DEFINE T == {n \in S : n <= k}
           rank == [n \in T |-> -n]
<1>2. IsFiniteSet(T)
  <2>1. \A n \in S : n \in Nat
    OBVIOUS
  <2>2. T \subseteq 0..k
    <3>1. ASSUME NEW n \in T PROVE n \in 0..k
      <4>1. n \in Nat /\ k \in Nat /\ n <= k
        BY <2>1
      <4> QED BY <4>1
    <3> QED BY <3>1
  <2>3. IsFiniteSet(0..k)
    BY <1>1, <2>1, FS_Interval
  <2> QED
    BY <2>2, <2>3, FS_Subset
<1>3. T # {} /\ \A n \in T : rank[n] \in Int
  BY <1>1
<1>4. PICK n \in T : \A m \in T : rank[m] <= rank[n]
  <2> HIDE DEF T, rank
  <2> QED BY <1>2, <1>3, LargestExists
<1>5. \A m \in T : n <= m
  BY <1>4
<1> QED
  BY <1>1, <1>5

\* The scores of the rules, and their order.
LEMMA RulesPlaced ==
    /\ DOMAIN Rules = 1..16
    /\ \A i \in 1..16 : Rules[i].id = RuleOrder[i] /\ Rules[i].score \in 1..50
BY DEF RuleOrder, Rules, Rule

LEMMA PlacesDiffer == DOMAIN RuleOrder = 1..29 /\ \A i, j \in 1..29 : RuleOrder[i] = RuleOrder[j] => i = j
BY DEF RuleOrder

PlaceOf(rule) == CHOOSE i \in 1..29 : RuleOrder[i] = rule

\* Findings as the rules make them: the ones that score are suspicious or malicious, and
\* each is the only one of its rule.
OfRules(findings) ==
    /\ \A f \in findings :
          /\ f = Finding(f.rule, f.about, f.group, f.score, f.severity, f.evidence)
          /\ f.score \in 0..70 /\ (f.severity = "informational" <=> f.score = 0)
          /\ f.score > 0 => \E i \in 1..29 : f.rule = RuleOrder[i]
    /\ \A f, g \in findings : f.score > 0 /\ g.score > 0 /\ f.rule = g.rule => f = g

\* By how many places a finding comes behind the strongest there could be.
Behind(f) == (70 - f.score) * 30 + PlaceOf(f.rule)

LEMMA StrongerIsEarlier ==
    ASSUME NEW findings, OfRules(findings), NEW f \in findings, NEW g \in findings,
           f.score > 0, g.score > 0
    PROVE  /\ Behind(f) \in Nat
           /\ Stronger(f, g) <=> Behind(f) < Behind(g)
           /\ Behind(f) = Behind(g) => f = g
<1>1. PICK i \in 1..29 : f.rule = RuleOrder[i]
  BY DEF OfRules
<1>2. PICK j \in 1..29 : g.rule = RuleOrder[j]
  BY DEF OfRules
<1>3. PlaceOf(f.rule) = i /\ PlaceOf(g.rule) = j
  BY <1>1, <1>2, PlacesDiffer DEF PlaceOf
<1>4. Precedes(f.rule, g.rule) <=> i < j
  BY <1>1, <1>2, PlacesDiffer DEF Precedes
<1>5. f.score \in 0..70 /\ g.score \in 0..70
  BY DEF OfRules
<1>6. Behind(f) = (70 - f.score) * 30 + i /\ Behind(g) = (70 - g.score) * 30 + j
  BY <1>3 DEF Behind
<1>7. /\ Behind(f) \in Nat
      /\ Behind(f) < Behind(g) <=> f.score > g.score \/ (f.score = g.score /\ i < j)
      /\ Behind(f) = Behind(g) => i = j
  <2> DEFINE a == f.score
             b == g.score
  <2>1. a \in 0..70 /\ b \in 0..70
    BY <1>5
  <2>2. Behind(f) = (70 - a) * 30 + i /\ Behind(g) = (70 - b) * 30 + j
    BY <1>6
  <2> HIDE DEF a, b
  <2>3. /\ (70 - a) * 30 + i \in Nat
        /\ (70 - a) * 30 + i < (70 - b) * 30 + j <=> a > b \/ (a = b /\ i < j)
        /\ (70 - a) * 30 + i = (70 - b) * 30 + j => i = j
    BY <2>1
  <2> QED
    BY <2>2, <2>3 DEF a, b
<1>8. i = j => f = g
  BY <1>1, <1>2 DEF OfRules
<1>9. Stronger(f, g) <=> Behind(f) < Behind(g)
  BY <1>4, <1>7 DEF Stronger
<1> QED
  BY <1>7, <1>8, <1>9

\* What DeduplicateScores looks for, of the findings in T.
Takes(S, T) ==
    /\ S \subseteq T
    /\ \A f \in T : f \in S <=> \A g \in S : Stronger(g, f) => g.evidence \cap f.evidence = {}

LEMMA ScoringExists ==
    ASSUME NEW findings, OfRules(findings)
    PROVE  Takes(Scoring(findings), Strongest(findings))
<1> DEFINE T == Strongest(findings)
           Upto(n) == {f \in T : Behind(f) < n}
           Bad == {n \in Nat : ~\E S : Takes(S, Upto(n))}
<1>1. \A f \in T : f \in findings /\ f.score > 0
  BY DEF Strongest
<1>2. \A f, g \in T : /\ Behind(f) \in Nat /\ (Stronger(f, g) <=> Behind(f) < Behind(g))
                      /\ Behind(f) = Behind(g) => f = g
  BY <1>1, StrongerIsEarlier
<1> HIDE DEF T
<1>3. Bad = {}
  <2> SUFFICES ASSUME Bad # {} PROVE FALSE
    OBVIOUS
  <2>1. PICK n \in Bad : \A m \in Bad : n <= m
    <3>1. Bad \in SUBSET Nat
      OBVIOUS
    <3> HIDE DEF Bad
    <3> QED BY <3>1, LeastNumber
  <2>2. CASE n = 0
    <3>1. Upto(0) = {}
      BY <1>2
    <3>2. Takes({}, Upto(0))
      BY <3>1 DEF Takes
    <3> QED
      BY <2>1, <2>2, <3>2
  <2>3. CASE n # 0
    <3>1. n - 1 \in Nat /\ n - 1 \notin Bad
      <4>1. n \in Nat
        OBVIOUS
      <4> HIDE DEF Bad
      <4> QED BY <2>1, <2>3, <4>1
    <3>2. PICK S : Takes(S, Upto(n - 1))
      BY <3>1
    <3>3. \A f \in Upto(n) : f \in Upto(n - 1) \/ Behind(f) = n - 1
      BY <1>2, <2>1
    <3>4. Upto(n - 1) \subseteq Upto(n)
      BY <1>2, <2>1
    <3> DEFINE more == {f \in Upto(n) : /\ Behind(f) = n - 1
                                        /\ \A g \in S : g.evidence \cap f.evidence = {}}
    <3>5. \A g \in S : g \in T /\ Behind(g) < n - 1
      BY <3>2 DEF Takes
    <3>6. \A g \in more : g \in T /\ Behind(g) = n - 1
      OBVIOUS
    <3>7. ASSUME NEW f \in Upto(n)
          PROVE  f \in S \cup more <=>
                    \A g \in S \cup more : Stronger(g, f) => g.evidence \cap f.evidence = {}
      <4>1. CASE f \in Upto(n - 1)
        <5>1. f \notin more /\ \A g \in more : ~Stronger(g, f)
          BY <1>2, <2>1, <3>6, <4>1
        <5>2. f \in S <=> \A g \in S : Stronger(g, f) => g.evidence \cap f.evidence = {}
          BY <3>2, <4>1 DEF Takes
        <5> HIDE DEF more
        <5> QED
          BY <5>1, <5>2
      <4>2. CASE Behind(f) = n - 1
        <5>1. f \notin S /\ (\A g \in S : Stronger(g, f)) /\ (\A g \in more : ~Stronger(g, f))
          BY <1>2, <2>1, <3>5, <3>6, <4>2
        <5> QED
          BY <5>1, <4>2
      <4> QED
        BY <3>3, <4>1, <4>2
    <3>8. S \cup more \subseteq Upto(n)
      BY <3>2, <3>4 DEF Takes
    <3>9. Takes(S \cup more, Upto(n))
      <4> HIDE DEF more, Upto
      <4> QED BY <3>7, <3>8 DEF Takes
    <3> QED
      BY <2>1, <3>9
  <2> QED
    BY <2>2, <2>3
<1>4. Upto(2200) = T
  <2>1. ASSUME NEW f \in T PROVE Behind(f) < 2200
    <3>1. f.score \in 0..70
      BY <1>1 DEF OfRules
    <3>2. PICK i \in 1..29 : f.rule = RuleOrder[i]
      BY <1>1 DEF OfRules
    <3>3. PlaceOf(f.rule) = i
      BY <3>2, PlacesDiffer DEF PlaceOf
    <3> QED
      BY <3>1, <3>3 DEF Behind
  <2> QED
    BY <2>1
<1>5. PICK S : Takes(S, T)
  <2>1. 2200 \in Nat /\ 2200 \notin Bad
    <3> HIDE DEF Bad
    <3> QED BY <1>3
  <2> QED
    BY <1>4, <2>1
<1>6. /\ S \in SUBSET T
      /\ \A f \in T : f \in S <=> \A g \in S : Stronger(g, f) => g.evidence \cap f.evidence = {}
  BY <1>5 DEF Takes
<1> QED
  BY <1>6 DEF Scoring, Takes, T

\* The recursion that applies the rules in their order, over the sets of their numbers.
Applies(it, index, events, S) ==
    it = [s \in SUBSET S |->
             IF s = {} THEN [checks |-> 0, findings |-> {}]
             ELSE ApplyRule(it[s \ {Max(s)}], Rules[Max(s)], index, events)]

LEMMA MaxNumber ==
    ASSUME NEW s \in SUBSET Nat, IsFiniteSet(s), s # {}
    PROVE  Max(s) \in s /\ \A i \in s : i <= Max(s)
<1> DEFINE rank == [i \in s |-> i]
<1>1. \A i \in s : i \in Nat /\ rank[i] = i /\ rank[i] \in Int
  OBVIOUS
<1>2. PICK m \in s : \A i \in s : rank[i] <= rank[m]
  <2> HIDE DEF rank
  <2> QED BY <1>1, LargestExists
<1>3. \A i \in s : m >= i
  BY <1>1, <1>2
<1>4. Max(s) \in s /\ \A i \in s : Max(s) >= i
  BY <1>3 DEF Max
<1> QED
  BY <1>1, <1>4

LEMMA AppliesUnique ==
    ASSUME NEW index, NEW events, NEW S \in SUBSET Nat, NEW T, NEW f, NEW g, IsFiniteSet(S),
           Applies(f, index, events, S), Applies(g, index, events, T)
    PROVE  \A s \in SUBSET (S \cap T) : f[s] = g[s]
<1> DEFINE Bad == {s \in SUBSET (S \cap T) : f[s] # g[s]}
<1> SUFFICES ASSUME Bad # {} PROVE FALSE
  OBVIOUS
<1>1. Bad \in SUBSET SUBSET S
  OBVIOUS
<1>2. PICK U \in Bad : \A V \in SUBSET U : V # U => V \notin Bad
  <2> HIDE DEF Bad
  <2> QED BY <1>1, MinimalSubset
<1>3. U # {}
  BY <1>2 DEF Applies
<1>4. Max(U) \in U
  <2>1. U \in SUBSET Nat /\ IsFiniteSet(U)
    BY FS_Subset
  <2> QED
    BY <1>3, <2>1, MaxNumber
<1> DEFINE c == Max(U)
<1> HIDE DEF c
<1>5. f[U \ {c}] = g[U \ {c}]
  BY <1>2, <1>4 DEF c
<1>6. /\ f[U] = ApplyRule(f[U \ {c}], Rules[c], index, events)
      /\ g[U] = ApplyRule(g[U \ {c}], Rules[c], index, events)
  BY <1>2, <1>3 DEF Applies, c
<1> QED
  BY <1>2, <1>5, <1>6

LEMMA AppliesExists ==
    ASSUME NEW index, NEW events, NEW S \in SUBSET Nat, IsFiniteSet(S)
    PROVE  \E it : Applies(it, index, events, S)
<1> DEFINE Bad == {s \in SUBSET S : ~\E it : Applies(it, index, events, s)}
<1> SUFFICES ASSUME Bad # {} PROVE FALSE
  OBVIOUS
<1>1. Bad \in SUBSET SUBSET S
  OBVIOUS
<1>2. PICK U \in Bad : \A V \in SUBSET U : V # U => V \notin Bad
  <2> HIDE DEF Bad
  <2> QED BY <1>1, MinimalSubset
<1> DEFINE Of(s) == CHOOSE it : Applies(it, index, events, s)
           WithLast(s, state) == ApplyRule(state, Rules[Max(s)], index, events)
           base == [checks |-> 0, findings |-> {}]
           new == [s \in SUBSET U |-> IF s = {} THEN base ELSE WithLast(s, Of(s \ {Max(s)})[s \ {Max(s)}])]
<1>3. \A V \in SUBSET U : V # U => Applies(Of(V), index, events, V)
  BY <1>2
<1>4. \A V \in SUBSET U : V # {} => Max(V) \in V
  <2> SUFFICES ASSUME NEW V \in SUBSET U, V # {} PROVE Max(V) \in V
    OBVIOUS
  <2>1. V \in SUBSET Nat /\ IsFiniteSet(V)
    BY FS_Subset
  <2> QED
    BY <2>1, MaxNumber
<1>5. \A V \in SUBSET U : V # U => Of(V)[V] = new[V]
  <2> SUFFICES ASSUME NEW V \in SUBSET U, V # U PROVE Of(V)[V] = new[V]
    OBVIOUS
  <2>1. CASE V = {}
    <3>1. Applies(Of(V), index, events, V)
      BY <1>3
    <3> HIDE DEF Of, WithLast
    <3> QED BY <2>1, <3>1 DEF Applies
  <2>2. CASE V # {}
    <3> DEFINE W == V \ {Max(V)}
    <3>1. W \in SUBSET U /\ W # U /\ W \in SUBSET (V \cap W)
      BY <1>4, <2>2
    <3>2. Applies(Of(V), index, events, V) /\ Applies(Of(W), index, events, W)
      BY <1>3, <3>1
    <3>3. V \in SUBSET Nat /\ IsFiniteSet(V)
      BY FS_Subset
    <3>4. Of(V)[W] = Of(W)[W]
      <4> HIDE DEF W, Of
      <4> QED BY <3>1, <3>2, <3>3, AppliesUnique
    <3>5. Of(V)[V] = WithLast(V, Of(V)[W])
      <4> HIDE DEF Of
      <4> QED BY <3>2, <2>2 DEF Applies
    <3>6. new[V] = WithLast(V, Of(W)[W])
      <4> HIDE DEF Of, WithLast
      <4> QED BY <2>2
    <3> HIDE DEF WithLast, Of, new
    <3> QED
      BY <3>4, <3>5, <3>6
  <2> QED
    BY <2>1, <2>2
<1>6. Applies(new, index, events, U)
  <2>1. \A s \in SUBSET U : s # {} => new[s] = WithLast(s, new[s \ {Max(s)}])
    <3> SUFFICES ASSUME NEW s \in SUBSET U, s # {} PROVE new[s] = WithLast(s, new[s \ {Max(s)}])
      OBVIOUS
    <3> DEFINE W == s \ {Max(s)}
    <3>1. W \in SUBSET U /\ W # U
      BY <1>4
    <3>2. Of(W)[W] = new[W]
      <4> HIDE DEF W, Of, new
      <4> QED BY <3>1, <1>5
    <3>3. new[s] = WithLast(s, Of(W)[W])
      <4> HIDE DEF Of, WithLast
      <4> QED OBVIOUS
    <3> HIDE DEF Of, WithLast, new
    <3> QED
      BY <3>2, <3>3
  <2>2. new[{}] = base
    <3> HIDE DEF Of, WithLast, base
    <3> QED OBVIOUS
  <2>3. new = [s \in SUBSET U |-> new[s]]
    <3> HIDE DEF Of, WithLast, base
    <3> QED OBVIOUS
  <2>4. new = [s \in SUBSET U |-> IF s = {} THEN base ELSE WithLast(s, new[s \ {Max(s)}])]
    <3> HIDE DEF new, WithLast, base
    <3> QED BY <2>1, <2>2, <2>3
  <2> HIDE DEF new
  <2> QED
    BY <2>4 DEF Applies
<1> QED
  BY <1>2, <1>6

\* The pairs of activities that a rule is about, and what it makes of some of them.
Matched(i, index, events) ==
    {p \in PairsOf(Rules[i], events) : Matches(Rules[i], index, events, p[1], p[2])}

FoundBy(i, pairs) ==
    Finding(Rules[i].id, <<>>, Rules[i].group, Rules[i].score, "suspicious", EvidenceOf(pairs))

\* After some of the rules, each has made at most one finding, with its score.
MadeBy(findings, n, index, events) ==
    /\ \A f \in findings : \E i \in 1..n : \E pairs \in SUBSET Matched(i, index, events) :
          pairs # {} /\ f = FoundBy(i, pairs)
    /\ \A f, g \in findings : f.rule = g.rule => f = g

LEMMA RulesMake ==
    ASSUME NEW index, NEW events
    PROVE  MadeBy(ApplyRules(index, events).findings, 16, index, events)
<1>1. ApplyRules(index, events) = (CHOOSE it : Applies(it, index, events, DOMAIN Rules))[DOMAIN Rules]
  BY DEF ApplyRules, FoldLeft, MapThenFoldSet, Applies
<1>2. DOMAIN Rules = 1..16
  BY RulesPlaced
<1> DEFINE it == CHOOSE f : Applies(f, index, events, 1..16)
<1>3. Applies(it, index, events, 1..16)
  <2>1. IsFiniteSet(1..16)
    <3> DEFINE n == 16
    <3>1. n \in Int
      OBVIOUS
    <3> HIDE DEF n
    <3>2. IsFiniteSet(1..n)
      BY <3>1, FS_Interval
    <3> QED
      BY <3>2 DEF n
  <2>2. 1..16 \in SUBSET Nat
    OBVIOUS
  <2>3. \E f : Applies(f, index, events, 1..16)
    BY <2>1, <2>2, AppliesExists
  <2> QED
    BY <2>3
<1> HIDE DEF it
<1>4. it[{}] = [checks |-> 0, findings |-> {}]
  BY <1>3 DEF Applies
<1>5. \A k \in 1..16 : it[1..k] = ApplyRule(it[1..(k - 1)], Rules[k], index, events)
  <2> SUFFICES ASSUME NEW k \in 1..16 PROVE it[1..k] = ApplyRule(it[1..(k - 1)], Rules[k], index, events)
    OBVIOUS
  <2>1. 1..k \in SUBSET (1..16) /\ 1..k # {} /\ IsFiniteSet(1..k) /\ 1..k \in SUBSET Nat
    <3>1. IsFiniteSet(1..k)
      BY FS_Interval
    <3>2. 1..k \in SUBSET (1..16) /\ 1..k # {} /\ 1..k \in SUBSET Nat
      OBVIOUS
    <3> QED
      BY <3>1, <3>2
  <2>2. Max(1..k) \in 1..k /\ \A i \in 1..k : i <= Max(1..k)
    BY <2>1, MaxNumber
  <2>3. Max(1..k) = k
    BY <2>2
  <2>4. (1..k) \ {k} = 1..(k - 1)
    OBVIOUS
  <2> QED
    BY <1>3, <2>1, <2>3, <2>4 DEF Applies
<1> DEFINE Bad == {n \in 0..16 : ~MadeBy(it[1..n].findings, n, index, events)}
<1>6. Bad = {}
  <2> SUFFICES ASSUME Bad # {} PROVE FALSE
    OBVIOUS
  <2>1. PICK n \in Bad : \A m \in Bad : n <= m
    <3>1. Bad \in SUBSET Nat
      OBVIOUS
    <3> HIDE DEF Bad
    <3> QED BY <3>1, LeastNumber
  <2>2. n # 0
    <3>1. it[1..0].findings = {}
      <4>1. 1..0 = {}
        OBVIOUS
      <4> QED BY <1>4, <4>1
    <3>2. MadeBy(it[1..0].findings, 0, index, events)
      BY <3>1 DEF MadeBy
    <3> QED
      BY <2>1, <3>2
  <2>3. n \in 1..16 /\ n - 1 \in 0..16 /\ n - 1 \notin Bad
    <3>1. n \in 0..16
      OBVIOUS
    <3> HIDE DEF Bad
    <3> QED BY <2>1, <2>2, <3>1
  <2>4. MadeBy(it[1..(n - 1)].findings, n - 1, index, events)
    BY <2>3
  <2> DEFINE F == it[1..(n - 1)].findings
  <2>5. PICK e \in SUBSET Matched(n, index, events) :
            \/ it[1..n].findings = F
            \/ e # {} /\ it[1..n].findings = F \cup {FoundBy(n, e)}
    <3>1. it[1..n] = ApplyRule(it[1..(n - 1)], Rules[n], index, events)
      BY <1>5, <2>3
    <3> DEFINE room == Max({0, MaxPairs - it[1..(n - 1)].checks})
               matching == {p \in Compared(PairsOf(Rules[n], events), room) :
                               Matches(Rules[n], index, events, p[1], p[2])}
               taken == Taken(matching)
    <3>2. it[1..n].findings = F \cup If(taken # {}, FoundBy(n, taken))
      BY <3>1 DEF ApplyRule, FoundBy
    <3>3. taken \in SUBSET Matched(n, index, events)
      BY DEF Taken, Compared, Matched
    <3> HIDE DEF taken, F
    <3>4. IF taken = {} THEN If(taken # {}, FoundBy(n, taken)) = {}
                        ELSE If(taken # {}, FoundBy(n, taken)) = {FoundBy(n, taken)}
      BY DEF If
    <3> QED
      BY <3>2, <3>3, <3>4
  <2>6. \A f \in F : \E i \in 1..(n - 1) : \E pairs \in SUBSET Matched(i, index, events) :
            pairs # {} /\ f = FoundBy(i, pairs)
    BY <2>4 DEF MadeBy
  <2>7. \A f, g \in F : f.rule = g.rule => f = g
    BY <2>4 DEF MadeBy
  <2>8. FoundBy(n, e).rule = Rules[n].id /\ \A f \in F : f.rule # Rules[n].id
    <3>1. \A i, pairs : FoundBy(i, pairs).rule = Rules[i].id
      BY DEF FoundBy, Finding
    <3>2. ASSUME NEW f \in F PROVE f.rule # Rules[n].id
      <4>1. PICK i \in 1..(n - 1) : f.rule = Rules[i].id
        BY <2>6, <3>1
      <4>2. i \in 1..16 /\ i \in 1..29 /\ n \in 1..29 /\ i # n
        BY <2>3
      <4>3. Rules[i].id = RuleOrder[i] /\ Rules[n].id = RuleOrder[n]
        BY <2>3, <4>2, RulesPlaced
      <4>4. RuleOrder[i] # RuleOrder[n]
        BY <4>2, PlacesDiffer
      <4> QED
        BY <4>1, <4>3, <4>4
    <3> QED
      BY <3>1, <3>2
  <2>9. /\ \A f \in F : \E i \in 1..n : \E pairs \in SUBSET Matched(i, index, events) :
               pairs # {} /\ f = FoundBy(i, pairs)
        /\ e # {} => \E i \in 1..n : \E pairs \in SUBSET Matched(i, index, events) :
               pairs # {} /\ FoundBy(n, e) = FoundBy(i, pairs)
    <3>1. 1..(n - 1) \subseteq 1..n /\ n \in 1..n
      BY <2>3
    <3> HIDE DEF F
    <3> QED
      BY <2>6, <3>1
  <2>10. \A f, g \in F \cup {FoundBy(n, e)} : f.rule = g.rule => f = g
    <3> HIDE DEF F
    <3> QED
      BY <2>7, <2>8
  <2>11. MadeBy(it[1..n].findings, n, index, events)
    <3> HIDE DEF F
    <3> QED
      BY <2>5, <2>7, <2>9, <2>10 DEF MadeBy
  <2> QED
    BY <2>1, <2>11
<1>7. MadeBy(it[1..16].findings, 16, index, events)
  <2>1. 16 \in 0..16 /\ 16 \notin Bad
    <3>1. 16 \in 0..16
      OBVIOUS
    <3> HIDE DEF Bad
    <3> QED BY <1>6, <3>1
  <2> QED
    BY <2>1
<1> QED
  BY <1>1, <1>2, <1>7 DEF it

-----------------------------------------------------------------------------
\* Of the findings of a run, no two that score share their behaviour or their evidence.

AllFindings(run) ==
    (IF run.detection.behavioral THEN ClassicFindings(run) ELSE {}) \cup Build(run) \cup ScannerFindings(run)

ClassicNames ==
    {"network_dns_request", "blocked_outbound_connection", "child_process_created",
     "ntfs_alternate_data_stream", "suspicious_registry_autostart", "script_interpreter_network",
     "process_injection", "credential_store_access", "mass_file_modification"}

\* A finding by itself, and one that does not score.
Plain(f) ==
    /\ f = Finding(f.rule, f.about, f.group, f.score, f.severity, f.evidence)
    /\ f.score \in 0..70 /\ (f.severity = "informational" <=> f.score = 0)

Unscored(f) == Plain(f) /\ f.score = 0

LEMMA ClassicPlain ==
    ASSUME NEW id, NEW severity \in {"informational", "suspicious", "malicious"}, NEW events
    PROVE  /\ \A f \in ClassicRule(id, severity, events) : Plain(f) /\ f.rule = id
           /\ \A f, g \in ClassicRule(id, severity, events) : f = g
<1> DEFINE score == CASE severity = "informational" -> 0
                      [] severity = "suspicious" -> 30
                      [] severity = "malicious" -> 70
           f == Finding(id, <<>>, "", score, severity, {e.id : e \in events})
<1>1. score \in 0..70 /\ (severity = "informational" <=> score = 0)
  OBVIOUS
<1>2. ClassicRule(id, severity, events) \subseteq {f}
  BY DEF ClassicRule, If
<1> HIDE DEF score
<1>3. /\ f.rule = id /\ f.about = <<>> /\ f.group = "" /\ f.score = score /\ f.severity = severity
      /\ f.evidence = {e.id : e \in events}
  BY DEF Finding
<1>4. Plain(f) /\ f.rule = id
  BY <1>1, <1>3 DEF Plain
<1> QED
  BY <1>2, <1>4

LEMMA ClassicsPlain ==
    ASSUME NEW run
    PROVE  /\ \A f \in ClassicFindings(run) : Plain(f) /\ f.rule \in ClassicNames
           /\ \A f, g \in ClassicFindings(run) : f.rule = g.rule => f = g
<1> DEFINE C(id, severity, events) == ClassicRule(id, severity, events)
           massive == IF Cardinality(Burst(run)) >= 2 * MassFiles THEN "malicious" ELSE "suspicious"
           c1 == C("network_dns_request", "informational", {n \in run.network : n.protocol = "dns"})
           c2 == C("blocked_outbound_connection", "informational", {n \in run.network : Refused(n)})
           c3 == C("child_process_created", "informational", ChildObservations(run))
           c4 == C("ntfs_alternate_data_stream", "suspicious", {f \in run.files : AlternateStream(f)})
           c5 == C("suspicious_registry_autostart", "suspicious",
                   {r \in run.registry : Writes(r.operation) /\ (Autostart(r.key) \/ Service(r.key, r.name))})
           c6 == C("script_interpreter_network", "suspicious",
                   {n \in run.network : \E p \in run.processes : p.pid = n.pid /\ Interpreter(p.image)})
           c7 == C("process_injection", "malicious",
                   {o \in Observations(run) : o.event = "process_injection"})
           c8 == C("credential_store_access", "suspicious",
                   {r \in run.registry : Reads(r.operation) /\ SecretKey(r.key)})
           c9 == C("mass_file_modification", massive, Burst(run))
           Of(c, id) == /\ \A f \in c : Plain(f) /\ f.rule = id
                        /\ \A f, g \in c : f = g
<1>1. ClassicFindings(run) = c1 \cup c2 \cup c3 \cup c4 \cup c5 \cup c6 \cup c7 \cup c8 \cup c9
  BY DEF ClassicFindings, MassFileFinding
<1>2. massive \in {"informational", "suspicious", "malicious"}
  OBVIOUS
<1> HIDE DEF massive
<1>3. /\ Of(c1, "network_dns_request") /\ Of(c2, "blocked_outbound_connection")
      /\ Of(c3, "child_process_created") /\ Of(c4, "ntfs_alternate_data_stream")
      /\ Of(c5, "suspicious_registry_autostart") /\ Of(c6, "script_interpreter_network")
      /\ Of(c7, "process_injection") /\ Of(c8, "credential_store_access")
      /\ Of(c9, "mass_file_modification")
  BY <1>2, ClassicPlain
<1> HIDE DEF c1, c2, c3, c4, c5, c6, c7, c8, c9
<1>4. \A f \in ClassicFindings(run) : Plain(f) /\ f.rule \in ClassicNames
  BY <1>1, <1>3 DEF ClassicNames
<1>5. \A f, g \in ClassicFindings(run) : f.rule = g.rule => f = g
  BY <1>1, <1>3
<1> QED
  BY <1>4, <1>5

\* A finding that only informs.
Informing(f, rule, about, evidence) == f = Finding(rule, about, "", 0, "informational", evidence)

LEMMA Informs ==
    ASSUME NEW f, NEW rule, NEW about, NEW evidence, Informing(f, rule, about, evidence)
    PROVE  Unscored(f) /\ f.rule = rule /\ f.about = about /\ f.evidence = evidence
<1> DEFINE group == ""
           score == 0
           severity == "informational"
<1>1. score \in 0..70 /\ score = 0 /\ (severity = "informational" <=> score = 0)
  OBVIOUS
<1>2. f = Finding(rule, about, group, score, severity, evidence)
  BY DEF Informing
<1> HIDE DEF group, score, severity
<1>3. /\ f.rule = rule /\ f.about = about /\ f.group = group /\ f.score = score /\ f.severity = severity
      /\ f.evidence = evidence
  BY <1>2 DEF Finding
<1>4. Unscored(f)
  BY <1>1, <1>2, <1>3 DEF Unscored, Plain
<1> QED
  BY <1>3, <1>4

\* What becomes of a capability.
ConfirmationOf(run, index, events, c) ==
    LET seen == {o.at : o \in {q \in UNION {p.observations : p \in {r \in run.processes : r.pid = run.root}} : q.at > 0}}
        confirming == {e \in events : /\ seen # {} /\ e.pid = run.root /\ Confirms(c, e)
                                      /\ e.time >= Min(seen) /\ e.time - Min(seen) <= 4
                                      /\ Through(index, run.root, Min(seen), e.time)}
        first == {e \in confirming : \A other \in confirming : ~Earlier(other, e)}
    IN  Finding(IF confirming = {} THEN "FH-B018" ELSE "FH-B017", <<c.id>>, "", 0, "informational",
                c.evidence \cup {e.id : e \in first})

LEMMA StaticMade ==
    ASSUME NEW run, NEW index, NEW events
    PROVE  \A f \in StaticConfirmation(run, index, events) : \E c \in PrimaryCapabilities(run) :
              /\ f = ConfirmationOf(run, index, events, c)
              /\ Unscored(f) /\ f.rule \in {"FH-B017", "FH-B018"} /\ f.about = <<c.id>>
              /\ \E E \in SUBSET events : f.evidence = c.evidence \cup {e.id : e \in E}
<1>1. StaticConfirmation(run, index, events) = {ConfirmationOf(run, index, events, c) : c \in PrimaryCapabilities(run)}
  BY DEF StaticConfirmation, ConfirmationOf
<1>2. ASSUME NEW c
      PROVE  LET f == ConfirmationOf(run, index, events, c)
             IN  /\ Unscored(f) /\ f.rule \in {"FH-B017", "FH-B018"} /\ f.about = <<c.id>>
                 /\ \E E \in SUBSET events : f.evidence = c.evidence \cup {e.id : e \in E}
  <2> DEFINE seen == {o.at : o \in {q \in UNION {p.observations : p \in {r \in run.processes : r.pid = run.root}} : q.at > 0}}
             confirming == {e \in events : /\ seen # {} /\ e.pid = run.root /\ Confirms(c, e)
                                           /\ e.time >= Min(seen) /\ e.time - Min(seen) <= 4
                                           /\ Through(index, run.root, Min(seen), e.time)}
             first == {e \in confirming : \A other \in confirming : ~Earlier(other, e)}
             rule == IF confirming = {} THEN "FH-B018" ELSE "FH-B017"
             ids == c.evidence \cup {e.id : e \in first}
             about == <<c.id>>
             f == ConfirmationOf(run, index, events, c)
  <2>1. Informing(f, rule, about, ids)
    BY DEF ConfirmationOf, Informing
  <2>2. first \in SUBSET events
    <3> HIDE DEF seen
    <3> QED OBVIOUS
  <2>3. rule \in {"FH-B017", "FH-B018"}
    OBVIOUS
  <2> HIDE DEF first, rule, about, f
  <2>4. Unscored(f) /\ f.rule = rule /\ f.about = about /\ f.evidence = ids
    <3> HIDE DEF ids
    <3> QED BY <2>1, Informs
  <2>5. \E E \in SUBSET events : f.evidence = c.evidence \cup {e.id : e \in E}
    BY <2>2, <2>4
  <2> QED
    BY <2>3, <2>4, <2>5 DEF f, about
<1> SUFFICES ASSUME NEW f \in StaticConfirmation(run, index, events)
             PROVE  \E c \in PrimaryCapabilities(run) :
                       /\ f = ConfirmationOf(run, index, events, c)
                       /\ Unscored(f) /\ f.rule \in {"FH-B017", "FH-B018"} /\ f.about = <<c.id>>
                       /\ \E E \in SUBSET events : f.evidence = c.evidence \cup {e.id : e \in E}
  OBVIOUS
<1>3. PICK c \in PrimaryCapabilities(run) : f = ConfirmationOf(run, index, events, c)
  BY <1>1
<1> QED
  BY <1>2, <1>3

LEMMA BuiltPlain ==
    ASSUME NEW run
    PROVE  /\ \A f \in Build(run) :
                 Plain(f) /\ (f.score > 0 => \E i \in 1..16 : f.rule = RuleOrder[i])
           /\ \A f, g \in Build(run) : f.score > 0 /\ g.score > 0 /\ f.rule = g.rule => f = g
<1>1. CASE ~run.detection.behavioral
  BY <1>1 DEF Build
<1>2. CASE run.detection.behavioral
  <2> DEFINE index == [pid \in Pids(run) |-> History(run, pid)]
             events == Activities(run)
             done == ApplyRules(index, events)
             made == done.findings
             partial == If(done.checks > MaxPairs /\ events # {}, Partial(events))
             rest == partial \cup StaticConfirmation(run, index, events)
  <2>1. Build(run) = made \cup rest
    BY <1>2 DEF Build, BuildFromEvents, FindingsOf
  <2>2. MadeBy(made, 16, index, events)
    BY RulesMake
  <2>3. \A f \in rest : Unscored(f)
    <3>4. \A f \in partial : Unscored(f)
      <4> SUFFICES ASSUME NEW f \in partial PROVE Unscored(f)
        OBVIOUS
      <4> HIDE DEF done, events
      <4> DEFINE about == <<>>
                 ids == {e.id : e \in First(events)}
      <4>1. Informing(f, "FH-COVERAGE-001", about, ids)
        BY DEF If, Partial, Informing
      <4> HIDE DEF about, ids, partial
      <4> QED
        BY <4>1, Informs
    <3>5. \A f \in StaticConfirmation(run, index, events) : Unscored(f)
      <4> HIDE DEF index, events
      <4> QED BY StaticMade
    <3> HIDE DEF partial, index, events
    <3> QED
      BY <3>4, <3>5
  <2> HIDE DEF made, rest
  <2>4. ASSUME NEW f \in made
        PROVE  Plain(f) /\ \E i \in 1..16 : f.rule = RuleOrder[i]
    <3> DEFINE about == <<>>
    <3>1. PICK i \in 1..16 : \E evidence :
            f = Finding(Rules[i].id, about, Rules[i].group, Rules[i].score, "suspicious", evidence)
      <4> HIDE DEF index, events
      <4> QED BY <2>2 DEF MadeBy, FoundBy
    <3> HIDE DEF about
    <3> PICK evidence : f = Finding(Rules[i].id, about, Rules[i].group, Rules[i].score, "suspicious", evidence)
      BY <3>1
    <3>2. Rules[i].id = RuleOrder[i] /\ Rules[i].score \in 1..50
      BY RulesPlaced
    <3>3. /\ f.rule = Rules[i].id /\ f.about = about /\ f.group = Rules[i].group /\ f.score = Rules[i].score
          /\ f.severity = "suspicious" /\ f.evidence = evidence
      BY DEF Finding
    <3> QED
      BY <3>1, <3>2, <3>3 DEF Plain
  <2>5. \A f \in rest : Plain(f) /\ ~(f.score > 0)
    BY <2>3 DEF Unscored
  <2> QED
    BY <2>1, <2>2, <2>4, <2>5 DEF MadeBy
<1> QED
  BY <1>1, <1>2

\* What scanners find informs, with all that is cited of it, and has a name of its own.
LEMMA ScannerSays ==
    ASSUME NEW run
    PROVE  /\ \A f \in ScannerFindings(run) :
                 /\ Unscored(f) /\ f.rule = "scanner"
                 /\ \E S \in SUBSET run.detection.stages : S # {} /\ f.evidence = UNION {s.evidence : s \in S}
           /\ \A f, g \in ScannerFindings(run) : f.about = g.about => f = g
<1> DEFINE named(s) == {<<s.scanner, s.hash, f.id>> : f \in s.findings}
           saying(name) == {s \in run.detection.stages : name \in named(s)}
           names == UNION {named(s) : s \in run.detection.stages}
           ids(name) == UNION {s.evidence : s \in saying(name)}
           said(name) == Finding("scanner", name, "", 0, "informational", ids(name))
<1>1. ScannerFindings(run) = {said(name) : name \in names}
  BY DEF ScannerFindings
<1>2. \A name \in names : saying(name) \in SUBSET run.detection.stages /\ saying(name) # {}
  <2> HIDE DEF named
  <2> QED OBVIOUS
<1> HIDE DEF names, saying
<1>3. \A name : said(name).about = name /\ said(name).evidence = UNION {s.evidence : s \in saying(name)}
                /\ said(name).rule = "scanner" /\ Unscored(said(name))
  <2> SUFFICES ASSUME NEW name
               PROVE  /\ said(name).about = name /\ said(name).evidence = ids(name)
                      /\ said(name).rule = "scanner" /\ Unscored(said(name))
    OBVIOUS
  <2>1. Informing(said(name), "scanner", name, ids(name))
    BY DEF Informing
  <2> HIDE DEF ids, said
  <2> QED
    BY <2>1, Informs
<1> HIDE DEF said
<1>4. \A f \in ScannerFindings(run) : \E name \in names : f = said(name)
  BY <1>1
<1> QED
  BY <1>2, <1>3, <1>4

LEMMA FindingsOfRules == ASSUME NEW run PROVE OfRules(AllFindings(run))
<1>1. \A f \in ScannerFindings(run) : Unscored(f)
  BY ScannerSays
<1>2. \A f \in AllFindings(run) : f \in ClassicFindings(run) \/ f \in Build(run) \/ f \in ScannerFindings(run)
  BY DEF AllFindings
<1>3. \A f \in ClassicFindings(run) : \E i \in 17..29 : f.rule = RuleOrder[i]
  <2>1. \A name \in ClassicNames : \E i \in 17..29 : name = RuleOrder[i]
    BY DEF ClassicNames, RuleOrder
  <2> QED
    BY <2>1, ClassicsPlain
<1>4. ASSUME NEW f \in AllFindings(run) PROVE Plain(f)
  BY <1>1, <1>2, ClassicsPlain, BuiltPlain DEF Unscored
<1>5. ASSUME NEW f \in AllFindings(run), f.score > 0 PROVE \E i \in 1..29 : f.rule = RuleOrder[i]
  <2>1. f \notin ScannerFindings(run)
    BY <1>1, <1>5 DEF Unscored
  <2>2. CASE f \in ClassicFindings(run)
    BY <1>3, <2>2
  <2>3. CASE f \in Build(run)
    BY <1>5, <2>3, BuiltPlain
  <2> QED
    BY <1>2, <2>1, <2>2, <2>3
<1>6. ASSUME NEW f \in AllFindings(run), NEW g \in AllFindings(run), f.score > 0, g.score > 0, f.rule = g.rule
      PROVE  f = g
  <2>1. f \notin ScannerFindings(run) /\ g \notin ScannerFindings(run)
    BY <1>1, <1>6 DEF Unscored
  <2>2. \A h \in Build(run) : h.score > 0 => \A c \in ClassicFindings(run) : c.rule # h.rule
    <3> SUFFICES ASSUME NEW h \in Build(run), h.score > 0, NEW c \in ClassicFindings(run), c.rule = h.rule
                 PROVE  FALSE
      OBVIOUS
    <3>1. PICK i \in 1..16 : h.rule = RuleOrder[i]
      BY BuiltPlain
    <3>2. PICK j \in 17..29 : c.rule = RuleOrder[j]
      BY <1>3
    <3>3. i \in 1..29 /\ j \in 1..29 /\ i # j
      OBVIOUS
    <3> QED
      BY <3>1, <3>2, <3>3, PlacesDiffer
  <2> QED
    BY <1>2, <1>6, <2>1, <2>2, ClassicsPlain, BuiltPlain
<1> QED
  BY <1>4, <1>5, <1>6 DEF OfRules, Plain

\* The property of the findings that the theorem is about.
Once(findings) ==
    LET Shares(f, g) == ScoreGroup(f) = ScoreGroup(g) \/ f.evidence \cap g.evidence # {}
    IN  /\ \A f, g \in Scored(findings) : f # g => ~Shares(f, g)
        /\ \A f \in Weighty(findings) \ Scored(findings) :
              \E g \in Weighty(findings) \ {f} : Shares(f, g)
        /\ Weighty(findings) # {} => Scored(findings) # {}

\* What becomes of a finding.
Settled(scoring, f) == IF f \in scoring THEN f ELSE [f EXCEPT !.score = 0]

LEMMA SettledKeeps ==
    ASSUME NEW f, f = Finding(f.rule, f.about, f.group, f.score, f.severity, f.evidence), NEW scoring
    PROVE  LET h == Settled(scoring, f)
           IN  /\ h.rule = f.rule /\ h.about = f.about /\ h.group = f.group /\ h.evidence = f.evidence
               /\ h.severity = f.severity /\ ScoreGroup(h) = ScoreGroup(f)
               /\ h.score = IF f \in scoring THEN f.score ELSE 0
<1> DEFINE h == Settled(scoring, f)
<1>1. /\ h.rule = f.rule /\ h.about = f.about /\ h.group = f.group /\ h.evidence = f.evidence
      /\ h.severity = f.severity /\ h.score = IF f \in scoring THEN f.score ELSE 0
  <2>1. CASE f \in scoring
    BY <2>1 DEF Settled
  <2>2. CASE f \notin scoring
    <3>1. [f EXCEPT !.score = 0] = Finding(f.rule, f.about, f.group, 0, f.severity, f.evidence)
      BY DEF Finding
    <3>2. h = Finding(f.rule, f.about, f.group, 0, f.severity, f.evidence)
      BY <2>2, <3>1 DEF Settled
    <3> QED
      BY <2>2, <3>2 DEF Finding
  <2> QED
    BY <2>1, <2>2
<1> HIDE DEF h
<1>2. ScoreGroup(h) = ScoreGroup(f)
  BY <1>1 DEF ScoreGroup
<1> QED
  BY <1>1, <1>2 DEF h

LEMMA DeduplicatedOnce ==
    ASSUME NEW findings, OfRules(findings)
    PROVE  Once(DeduplicateScores(findings))
<1> DEFINE S == Scoring(findings)
           T == Strongest(findings)
           H(f) == Settled(S, f)
           D == DeduplicateScores(findings)
           Shares(f, g) == ScoreGroup(f) = ScoreGroup(g) \/ f.evidence \cap g.evidence # {}
<1>1. D = {H(f) : f \in findings}
  BY DEF DeduplicateScores, Settled
<1>2. Takes(S, T)
  BY ScoringExists
<1>3. \A f \in T : /\ f \in findings /\ f.score > 0
                   /\ \A g \in findings : ScoreGroup(g) = ScoreGroup(f) => ~Stronger(g, f)
  BY DEF Strongest
<1>4. \A f \in S : f \in T
  BY <1>2 DEF Takes
<1>5. \A f \in T : f \in S <=> \A g \in S : Stronger(g, f) => g.evidence \cap f.evidence = {}
  BY <1>2 DEF Takes
<1>6. \A f \in findings : f.score > 0 /\ f \notin T =>
          \E g \in findings : ScoreGroup(g) = ScoreGroup(f) /\ Stronger(g, f)
  BY DEF Strongest
<1>7. ASSUME NEW f \in findings
      PROVE  /\ H(f).evidence = f.evidence /\ H(f).severity = f.severity /\ H(f).rule = f.rule
             /\ ScoreGroup(H(f)) = ScoreGroup(f)
             /\ H(f).score = IF f \in S THEN f.score ELSE 0
  <2>1. f = Finding(f.rule, f.about, f.group, f.score, f.severity, f.evidence)
    BY DEF OfRules
  <2> QED
    BY <2>1, SettledKeeps
<1>8. ASSUME NEW f \in findings, NEW g \in findings, f.score > 0, g.score > 0
      PROVE  /\ Behind(f) \in Nat /\ Behind(g) \in Nat
             /\ Stronger(f, g) <=> Behind(f) < Behind(g)
             /\ Behind(f) = Behind(g) => f = g
  BY <1>8, StrongerIsEarlier
<1>9. \A f \in findings : /\ f.severity # "informational" <=> f.score > 0
                          /\ f.score \in Nat
  BY DEF OfRules
<1>10. \A f, g \in findings : Stronger(g, f) => (f.score > 0 => g.score > 0)
  BY <1>9 DEF Stronger
<1> HIDE DEF S, T, H, D
<1>11. \A h \in Scored(D) : \E f \in S : h = H(f)
  <2> SUFFICES ASSUME NEW h \in Scored(D) PROVE \E f \in S : h = H(f)
    OBVIOUS
  <2>1. PICK f \in findings : h = H(f)
    BY <1>1 DEF Scored
  <2>2. h.score > 0
    BY DEF Scored
  <2>3. f \in S
    BY <1>7, <2>1, <2>2
  <2> QED
    BY <2>1, <2>3
<1>12. ASSUME NEW f \in S, NEW g \in S, f # g
       PROVE  ~Shares(H(f), H(g))
  <2>1. f \in findings /\ g \in findings /\ f.score > 0 /\ g.score > 0 /\ f \in T /\ g \in T
    BY <1>3, <1>4
  <2>2. Stronger(f, g) \/ Stronger(g, f)
    BY <1>8, <1>12, <2>1
  <2>3. ScoreGroup(f) # ScoreGroup(g)
    BY <1>3, <2>1, <2>2
  <2>4. f.evidence \cap g.evidence = {}
    BY <1>5, <2>1, <2>2
  <2> QED
    BY <1>7, <2>1, <2>3, <2>4
<1>13. \A f, g \in Scored(D) : f # g => ~Shares(f, g)
  BY <1>11, <1>12
<1>14. ASSUME NEW h \in Weighty(D) \ Scored(D)
       PROVE  \E k \in Weighty(D) \ {h} : Shares(h, k)
  <2>1. PICK f \in findings : h = H(f)
    BY <1>1 DEF Weighty
  <2>2. f.score > 0 /\ f \notin S
    <3>1. f.severity # "informational" /\ ~(H(f).score > 0)
      BY <1>7, <1>14, <2>1 DEF Weighty, Scored
    <3>2. f.score > 0
      BY <1>9, <3>1
    <3>3. f \notin S
      BY <1>7, <3>1, <3>2
    <3> QED
      BY <3>2, <3>3
  <2>3. PICK g \in findings : Stronger(g, f) /\ Shares(f, g)
    <3>1. CASE f \notin T
      BY <1>6, <2>2, <3>1
    <3>2. CASE f \in T
      <4>1. PICK g \in S : Stronger(g, f) /\ g.evidence \cap f.evidence # {}
        BY <1>5, <2>2, <3>2
      <4> QED
        BY <1>3, <1>4, <4>1
    <3> QED
      BY <3>1, <3>2
  <2>4. g.score > 0
    BY <1>10, <2>2, <2>3
  <2>5. g # f
    BY <1>8, <2>2, <2>3
  <2>6. H(g) # h
    <3>1. g.rule # f.rule
      BY <2>2, <2>4, <2>5 DEF OfRules
    <3> QED
      BY <1>7, <2>1, <3>1
  <2>7. H(g) \in Weighty(D)
    <3>1. H(g) \in D
      BY <1>1
    <3>2. H(g).severity # "informational"
      BY <1>7, <1>9, <2>4
    <3> QED
      BY <3>1, <3>2 DEF Weighty
  <2>8. Shares(h, H(g))
    BY <1>7, <2>1, <2>3
  <2> QED
    BY <2>6, <2>7, <2>8
<1>15. ASSUME Weighty(D) # {} PROVE Scored(D) # {}
  <2>1. PICK f \in findings : f.score > 0
    <3>1. PICK h \in Weighty(D) : TRUE
      BY <1>15
    <3>2. PICK f \in findings : h = H(f)
      BY <1>1 DEF Weighty
    <3>3. f.severity # "informational"
      BY <1>7, <3>1, <3>2 DEF Weighty
    <3> QED
      BY <1>9, <3>3
  <2> DEFINE ranks == {Behind(g) : g \in {e \in findings : e.score > 0}}
  <2>2. ranks \in SUBSET Nat /\ ranks # {}
    BY <1>8, <2>1
  <2>3. PICK n \in ranks : \A m \in ranks : n <= m
    <3> HIDE DEF ranks
    <3> QED BY <2>2, LeastNumber
  <2>4. PICK g \in findings : g.score > 0 /\ Behind(g) = n
    BY <2>3
  <2>5. \A e \in findings : ~Stronger(e, g)
    <3> SUFFICES ASSUME NEW e \in findings, Stronger(e, g) PROVE FALSE
      OBVIOUS
    <3>1. e.score > 0
      BY <1>10, <2>4
    <3>2. Behind(e) \in Nat /\ Behind(g) \in Nat /\ Behind(e) < Behind(g)
      BY <1>8, <2>4, <3>1
    <3>3. Behind(e) \in ranks
      BY <3>1
    <3> QED
      BY <2>3, <2>4, <3>2, <3>3
  <2>6. g \in T
    BY <2>4, <2>5 DEF T, Strongest
  <2>7. g \in S
    BY <1>3, <1>4, <1>5, <2>5, <2>6
  <2>8. H(g) \in D /\ H(g).score > 0
    BY <1>1, <1>7, <2>4, <2>7
  <2> QED
    BY <2>8 DEF Scored
<1> QED
  BY <1>13, <1>14, <1>15 DEF Once, D

\* At most one finding of a behaviour scores and no evidence scores twice, and what does
\* not score for all its severity shares its behaviour or evidence with another
\* (correlation.rs, deduplicate_scores), whatever the rules found.
THEOREM OnceScored == Spec => []ScoredOnce
<1> DEFINE Inv == AnalysisShape /\ Once(analysis.findings)
<1>1. Init => Inv
  <2> SUFFICES ASSUME Init PROVE Inv
    OBVIOUS
  <2>1. AnalysisShape /\ analysis.findings = {}
    BY DEF Init, AnalysisShape
  <2>2. Scored({}) = {} /\ Weighty({}) = {}
    BY DEF Scored, Weighty
  <2> QED
    BY <2>1, <2>2 DEF Once
<1>2. Inv /\ [Next]_vars => Inv'
  <2> SUFFICES ASSUME Inv, [Next]_vars PROVE Inv'
    OBVIOUS
  <2>1. ASSUME AnalysisShape', analysis'.findings = analysis.findings PROVE Inv'
    BY <2>1 DEF Once, Scored, Weighty
  <2>2. CASE JudgeRun
    <3> DEFINE findings == Findings(analysis.run)
    <3>1. findings = DeduplicateScores(AllFindings(analysis.run))
      BY DEF Findings, AllFindings
    <3>2. Once(findings)
      BY <3>1, FindingsOfRules, DeduplicatedOnce
    <3>3. PICK v, i : analysis' = [analysis EXCEPT !.phase = "ask", !.findings = findings,
                                                   !.verdict = v, !.iocs = i]
      BY <2>2 DEF JudgeRun
    <3> HIDE DEF findings
    <3>4. AnalysisShape' /\ analysis'.findings = findings
      BY <3>3 DEF AnalysisShape
    <3> QED
      BY <3>2, <3>4 DEF Once, Scored, Weighty
  <2>3. CASE LoadRun
    <3>1. \/ \E phase : analysis' = [analysis EXCEPT !.phase = phase]
          \/ \E run : analysis' = [analysis EXCEPT !.phase = "judge", !.run = run]
      BY <2>3 DEF LoadRun, Analyzes
    <3>2. AnalysisShape' /\ analysis'.findings = analysis.findings
      BY <3>1 DEF AnalysisShape
    <3> QED
      BY <2>1, <3>2
  <2>4. CASE LackSettings \/ ValidateOutputs \/ EndWriting
    <3>1. \E phase : analysis' = [analysis EXCEPT !.phase = phase]
      BY <2>4 DEF LackSettings, ValidateOutputs, EndWriting, Analyzes
    <3>2. AnalysisShape' /\ analysis'.findings = analysis.findings
      BY <3>1 DEF AnalysisShape
    <3> QED
      BY <2>1, <3>2
  <2>5. CASE EndAsking
    <3>1. \E a : analysis' = [analysis EXCEPT !.phase = "validate", !.answers = a]
      BY <2>5 DEF EndAsking
    <3>2. AnalysisShape' /\ analysis'.findings = analysis.findings
      BY <3>1 DEF AnalysisShape
    <3> QED
      BY <2>1, <3>2
  <2>6. CASE analysis' = analysis
    BY <2>1, <2>6 DEF AnalysisShape
  <2>7. CASE \/ AskVirusTotal \/ WriteOutput \/ Store
             \/ (\E w \in Reporters : Command(w)) \/ (\E w \in Writers : Fault(w))
    BY <2>6, <2>7 DEF AskVirusTotal, WriteOutput, Store, Fault, Command, ResolveDestination, ChooseBackend,
           BuildRequest, Execute, ReportWritten, Decides, analysisVars
  <2> QED
    BY <2>2, <2>3, <2>4, <2>5, <2>6, <2>7 DEF Next, Analyze, vars
<1>3. Inv => ScoredOnce
  BY DEF Once, ScoredOnce
<1> HIDE DEF Inv
<1> QED
  BY <1>1, <1>2, <1>3, PTL DEF Spec

-----------------------------------------------------------------------------
\* What the analysis keeps, and the run it has loaded.

RunOf(archive) ==
    LET run == Load(archive)
    IN  [run EXCEPT !.detection = Import(run, archive)]

Judged ==
    /\ analysis.findings = Findings(analysis.run)
    /\ analysis.verdict = VerdictOf(analysis.run, analysis.findings)
    /\ analysis.iocs = ExtractIocs(analysis.run)

RunKnown == Load(analysis.archive).loaded /\ analysis.run = RunOf(analysis.archive)

\* A run that is there is that of the archive, and what is said of it is about that run.
AnalysisInv ==
    /\ AnalysisShape
    /\ \/ analysis.phase \in {"none", "load", "failed"} /\ analysis.run = NoRun
          /\ analysis.findings = {} /\ analysis.verdict = "none" /\ analysis.iocs = {}
       \/ analysis.phase = "judge" /\ RunKnown
          /\ analysis.findings = {} /\ analysis.verdict = "none" /\ analysis.iocs = {}
       \/ analysis.phase \in {"ask", "validate", "write", "over", "failed"} /\ RunKnown /\ Judged
    /\ analysis.phase # "none" => Recordable(analysis.archive)

LEMMA AnalysisFollows == Spec => []AnalysisInv
<1>1. Init => AnalysisInv
  <2> SUFFICES ASSUME Init PROVE AnalysisInv
    OBVIOUS
  <2>1. PICK s \in Scenarios :
           analysis = [archive |-> s.archive, run |-> NoRun, findings |-> {}, verdict |-> "none",
                       iocs |-> {}, answers |-> [files |-> {}, status |-> "none"], queried |-> s.queried,
                       phase |-> IF s.analyzes THEN "load" ELSE "none"]
    BY DEF Init
  <2>2. s.analyzes => Recordable(s.archive)
    BY ScenarioAssumption DEF Possible
  <2> QED
    BY <2>1, <2>2 DEF AnalysisInv, AnalysisShape
<1>2. AnalysisInv /\ [Next]_vars => AnalysisInv'
  <2> SUFFICES ASSUME AnalysisInv, [Next]_vars PROVE AnalysisInv'
    OBVIOUS
  <2> USE DEF AnalysisInv
  <2>1. CASE analysis' = analysis
    BY <2>1 DEF AnalysisShape, RunKnown, Judged
  <2>2. ASSUME NEW phase, analysis' = [analysis EXCEPT !.phase = phase]
        PROVE  /\ AnalysisShape' /\ analysis'.archive = analysis.archive /\ analysis'.run = analysis.run
               /\ analysis'.findings = analysis.findings /\ analysis'.verdict = analysis.verdict
               /\ analysis'.iocs = analysis.iocs /\ analysis'.phase = phase
    BY <2>2 DEF AnalysisShape
  <2>3. CASE LoadRun
    <3>1. analysis.phase = "load"
      BY <2>3 DEF LoadRun
    <3>2. CASE Analyzes("failed")
      BY <2>2, <3>1, <3>2 DEF Analyzes
    <3>3. CASE Load(analysis.archive).loaded
      <4>1. analysis' = [analysis EXCEPT !.phase = "judge", !.run = RunOf(analysis.archive)]
        BY <2>3, <3>3 DEF LoadRun, RunOf
      <4> QED
        BY <3>1, <3>3, <4>1 DEF AnalysisShape, RunKnown
    <3> QED
      BY <2>3, <3>2, <3>3 DEF LoadRun
  <2>4. CASE JudgeRun
    <3>1. analysis.phase = "judge" /\ RunKnown
      BY <2>4 DEF JudgeRun
    <3> DEFINE f == Findings(analysis.run)
               v == VerdictOf(analysis.run, f)
               i == ExtractIocs(analysis.run)
    <3>2. analysis' = [analysis EXCEPT !.phase = "ask", !.findings = f, !.verdict = v, !.iocs = i]
      BY <2>4 DEF JudgeRun
    <3>3. /\ AnalysisShape' /\ analysis'.archive = analysis.archive /\ analysis'.run = analysis.run
          /\ analysis'.findings = f /\ analysis'.verdict = v /\ analysis'.iocs = i /\ analysis'.phase = "ask"
      <4> HIDE DEF f, v, i
      <4> QED BY <3>2 DEF AnalysisShape
    <3> QED
      BY <3>1, <3>3 DEF RunKnown, Judged
  <2>5. CASE LackSettings \/ ValidateOutputs \/ EndWriting
    <3>1. /\ analysis.phase \in {"ask", "validate", "write"}
          /\ \E phase \in {"failed", "write", "over"} : analysis' = [analysis EXCEPT !.phase = phase]
      BY <2>5 DEF LackSettings, ValidateOutputs, EndWriting, Analyzes
    <3> QED
      BY <2>2, <3>1 DEF RunKnown, Judged
  <2>6. CASE EndAsking
    <3>1. PICK a : analysis.phase = "ask" /\ analysis' = [analysis EXCEPT !.phase = "validate", !.answers = a]
      BY <2>6 DEF EndAsking
    <3>2. /\ AnalysisShape' /\ analysis'.archive = analysis.archive /\ analysis'.run = analysis.run
          /\ analysis'.findings = analysis.findings /\ analysis'.verdict = analysis.verdict
          /\ analysis'.iocs = analysis.iocs /\ analysis'.phase = "validate"
      BY <3>1 DEF AnalysisShape
    <3> QED
      BY <3>1, <3>2 DEF RunKnown, Judged
  <2>7. CASE \/ AskVirusTotal \/ WriteOutput \/ Store
             \/ (\E w \in Reporters : Command(w)) \/ (\E w \in Writers : Fault(w))
    BY <2>1, <2>7 DEF AskVirusTotal, WriteOutput, Store, Fault, Command, ResolveDestination, ChooseBackend,
           BuildRequest, Execute, ReportWritten, Decides, analysisVars
  <2> QED
    BY <2>1, <2>3, <2>4, <2>5, <2>6, <2>7 DEF Next, Analyze, vars
<1> QED
  BY <1>1, <1>2, PTL DEF Spec

\* A run that is loaded, part by part: what its files held, what their cost was before,
\* and what was imported of telemetry.
Parts(archive, spent, imported) ==
    LET run == RunOf(archive)
        events == LoadAll(spent, archive)
        rows == events.rows
        processes == Processes(rows.process)
        artifacts == Artifacts(archive)
    IN  /\ run.loaded = TRUE /\ run.root = archive.root /\ run.hash = archive.hash
        /\ run.processes = {AddObservations(p, imported) : p \in processes}
        /\ run.files = FileEvents(archive, processes, rows.filesystem)
                       \cup ImportedFiles(processes, imported)
        /\ run.registry = RegistryEvents(archive, processes, rows.registry)
                          \cup ImportedRegistry(processes, imported)
        /\ run.network = NetworkEvents(archive, processes, rows.network)
                         \cup ImportedNetwork(processes, imported)
        /\ run.artifacts = artifacts /\ run.hashes = TargetHashes(archive)
        /\ run.complete = archive.complete
        /\ run.warnings = events.warnings \cup (UNION {RowWarnings(k, rows[k]) : k \in Kinds})
                          \cup ArtifactWarnings(archive) \cup HealthWarnings(archive)
                          \cup TelemetryWarnings(archive, artifacts)
        /\ run.detection = Import(Load(archive), archive)
        /\ Load(archive).artifacts = artifacts /\ Load(archive).hash = archive.hash
        /\ Load(archive).network = run.network
        /\ imported = Imported(archive, artifacts, processes)

LEMMA RunParts ==
    ASSUME NEW archive, Load(archive).loaded
    PROVE  \E spent, imported : Parts(archive, spent, imported)
<1> DEFINE found == Discover(archive)
           report == Read(found.spent, (CHOOSE c \in found.runs : TRUE).file)
           guest == Read(report.spent, archive.result)
           events == LoadAll(guest.spent, archive)
           rows == events.rows
           processes == Processes(rows["process"])
           artifacts == Artifacts(archive)
           imported == Imported(archive, artifacts, processes)
           fileEvents == FileEvents(archive, processes, rows["filesystem"]) \cup ImportedFiles(processes, imported)
           registryEvents == RegistryEvents(archive, processes, rows["registry"]) \cup ImportedRegistry(processes, imported)
           networkEvents == NetworkEvents(archive, processes, rows["network"]) \cup ImportedNetwork(processes, imported)
           warned == events.warnings \cup (UNION {RowWarnings(k, rows[k]) : k \in Kinds})
                     \cup ArtifactWarnings(archive) \cup HealthWarnings(archive)
                     \cup TelemetryWarnings(archive, artifacts)
           made == {AddObservations(p, imported) : p \in processes}
           run == [loaded |-> TRUE, root |-> archive.root, hash |-> archive.hash, processes |-> made,
                   files |-> fileEvents, registry |-> registryEvents, network |-> networkEvents,
                   artifacts |-> artifacts, repeated |-> Repeated(archive, artifacts),
                   hashes |-> TargetHashes(archive), health |-> Health(archive),
                   complete |-> archive.complete, detection |-> NotImported, warnings |-> warned]
<1>1. Load(archive) = run
  <2>1. Load(archive) # Unreadable
    BY DEF Unreadable
  <2> QED
    BY <2>1 DEF Load
<1>2. ASSUME NEW d
      PROVE  LET r == [run EXCEPT !.detection = d]
             IN  /\ r.loaded = TRUE /\ r.root = archive.root /\ r.hash = archive.hash /\ r.processes = made
                 /\ r.files = fileEvents /\ r.registry = registryEvents /\ r.network = networkEvents
                 /\ r.artifacts = artifacts /\ r.hashes = TargetHashes(archive)
                 /\ r.complete = archive.complete /\ r.warnings = warned /\ r.detection = d
  <2> DEFINE again == Repeated(archive, artifacts)
             hashes == TargetHashes(archive)
             health == Health(archive)
  <2> HIDE DEF made, fileEvents, registryEvents, networkEvents, artifacts, warned, again, hashes, health
  <2> QED OBVIOUS
<1>3. RunOf(archive) = [run EXCEPT !.detection = Import(run, archive)]
  <2> HIDE DEF run
  <2> QED BY <1>1 DEF RunOf
<1>4. /\ RunOf(archive).loaded = TRUE /\ RunOf(archive).root = archive.root /\ RunOf(archive).hash = archive.hash
      /\ RunOf(archive).processes = made /\ RunOf(archive).files = fileEvents /\ RunOf(archive).registry = registryEvents
      /\ RunOf(archive).network = networkEvents /\ RunOf(archive).artifacts = artifacts
      /\ RunOf(archive).hashes = TargetHashes(archive) /\ RunOf(archive).complete = archive.complete
      /\ RunOf(archive).warnings = warned /\ RunOf(archive).detection = Import(Load(archive), archive)
  <2> HIDE DEF made, fileEvents, registryEvents, networkEvents, artifacts, warned
  <2>1. RunOf(archive).detection = Import(run, archive)
    BY <1>2, <1>3
  <2> QED BY <1>1, <1>2, <1>3, <2>1
<1>6. /\ Load(archive).artifacts = artifacts /\ Load(archive).hash = archive.hash
      /\ Load(archive).network = networkEvents
  <2> DEFINE again == Repeated(archive, artifacts)
             hashes == TargetHashes(archive)
             health == Health(archive)
  <2> HIDE DEF made, fileEvents, registryEvents, networkEvents, artifacts, warned, again, hashes, health
  <2> QED BY <1>1
<1>5. Parts(archive, guest.spent, imported)
  BY <1>4, <1>6 DEF Parts
<1> QED
  BY <1>5

\* The file of a kind was used, or the run warns that it was not.
LEMMA RowsUsed ==
    ASSUME NEW archive, NEW spent, NEW imported, Parts(archive, spent, imported), NEW kind \in Kinds
    PROVE  LoadAll(spent, archive).rows[kind] =
              IF \E code \in {"missing_event_artifact", "malformed_artifact"} :
                     Warning(code, kind) \in RunOf(archive).warnings
              THEN archive.fallback[kind] ELSE archive.events[kind].rows
<1> DEFINE events == LoadAll(spent, archive)
           Unused == {"missing_event_artifact", "malformed_artifact"}
           others == (UNION {RowWarnings(k, events.rows[k]) : k \in Kinds})
                     \cup ArtifactWarnings(archive) \cup HealthWarnings(archive)
                     \cup TelemetryWarnings(archive, Artifacts(archive))
<1>1. \A w \in others : w[1] \notin Unused
  <2>1. ASSUME NEW k, NEW rows, NEW w \in RowWarnings(k, rows) PROVE w[1] \notin Unused
    BY DEF RowWarnings, Warning
  <2>2. \A w \in ArtifactWarnings(archive) : w[1] \notin Unused
    BY DEF ArtifactWarnings, Warning
  <2>3. \A w \in HealthWarnings(archive) : w[1] \notin Unused
    BY DEF HealthWarnings, Warning
  <2>4. \A w \in TelemetryWarnings(archive, Artifacts(archive)) : w[1] \notin Unused
    BY DEF TelemetryWarnings, Warning
  <2> QED
    BY <2>1, <2>2, <2>3, <2>4
<1>2. RunOf(archive).warnings = events.warnings \cup others
  BY DEF Parts
<1>3. \A s, k : LET loaded == LoadEvents(s, archive, k)
                IN  \/ loaded.rows = archive.events[k].rows /\ loaded.warnings = {}
                    \/ /\ loaded.rows = archive.fallback[k]
                       /\ \E code \in Unused : loaded.warnings = {Warning(code, k)}
  BY DEF LoadEvents
<1> DEFINE process == LoadEvents(spent, archive, "process")
           network == LoadEvents(process.spent, archive, "network")
           filesystem == LoadEvents(network.spent, archive, "filesystem")
           registry == LoadEvents(filesystem.spent, archive, "registry")
<1>4. /\ events.warnings = process.warnings \cup network.warnings
                            \cup filesystem.warnings \cup registry.warnings
      /\ events.rows = [process |-> process.rows, network |-> network.rows,
                        filesystem |-> filesystem.rows, registry |-> registry.rows]
  BY DEF LoadAll
<1>5. ASSUME NEW k \in Kinds
      PROVE  \/ events.rows[k] = archive.events[k].rows /\ \A w \in events.warnings : w[2] # k
             \/ events.rows[k] = archive.fallback[k]
                /\ \E code \in Unused : Warning(code, k) \in events.warnings
  <2> HIDE DEF events, process, network, filesystem, registry, Unused
  <2>1. /\ \A w \in process.warnings : w[2] = "process"
        /\ \A w \in network.warnings : w[2] = "network"
        /\ \A w \in filesystem.warnings : w[2] = "filesystem"
        /\ \A w \in registry.warnings : w[2] = "registry"
    BY <1>3 DEF Warning, process, network, filesystem, registry
  <2>2. CASE k = "process"
    BY <1>3, <1>4, <2>1, <2>2 DEF process
  <2>3. CASE k = "network"
    BY <1>3, <1>4, <2>1, <2>3 DEF network
  <2>4. CASE k = "filesystem"
    BY <1>3, <1>4, <2>1, <2>4 DEF filesystem
  <2>5. CASE k = "registry"
    BY <1>3, <1>4, <2>1, <2>5 DEF registry
  <2> QED
    BY <2>2, <2>3, <2>4, <2>5 DEF Kinds
<1> HIDE DEF events, others
<1>6. \A code \in Unused : Warning(code, kind) \in RunOf(archive).warnings <=> Warning(code, kind) \in events.warnings
  <2>1. \A code : Warning(code, kind)[1] = code
    BY DEF Warning
  <2> QED
    BY <1>1, <1>2, <2>1
<1>7. \A code : Warning(code, kind)[2] = kind
  BY DEF Warning
<1> QED
  BY <1>5, <1>6, <1>7 DEF events

-----------------------------------------------------------------------------
\* Processes and the times they are known to be alive.

LEMMA MinNumber ==
    ASSUME NEW S \in SUBSET Nat, S # {}
    PROVE  Min(S) \in S /\ \A n \in S : Min(S) <= n
BY LeastNumber DEF Min

LEMMA LatestTime == Forever \in Nat
BY SMT DEF Forever

\* Rows of processes that can be used: a time and a number each.
Timed(rows) == \A r \in rows : r.at \in 0..Forever /\ r.pid \in Nat

\* As far as the rows tell (see Alive of Foxhole).
AliveIn(rows, pid, time) ==
    LET ends == {r.at : r \in {s \in rows : s.pid = pid /\ s.status = "terminated"}}
        starts == {r.at : r \in {s \in rows : s.pid = pid /\ s.status # "terminated"}}
    IN  /\ IF starts = {} THEN time \in ends ELSE Min(starts) <= time
        /\ \A end \in ends : time <= end

LEMMA AliveWithin ==
    ASSUME NEW rows, Timed(rows), NEW pid \in {r.pid : r \in rows}, NEW time \in 0..Forever
    PROVE  LET p == ProcessOf(pid, rows)
           IN  /\ Started(p) \in Nat /\ Ended(p) \in 0..Forever
               /\ AliveIn(rows, pid, time) <=> Started(p) <= time /\ time <= Ended(p)
<1> DEFINE p == ProcessOf(pid, rows)
           seen == {Observation(r) : r \in {q \in rows : q.pid = pid}}
           times == {o.at : o \in seen}
           ends == {r.at : r \in {s \in rows : s.pid = pid /\ s.status = "terminated"}}
           starts == {r.at : r \in {s \in rows : s.pid = pid /\ s.status # "terminated"}}
<1>1. p.observations = seen /\ p.at = Min(times)
  BY DEF ProcessOf
<1>2. \A r : Observation(r).at = r.at /\ Observation(r).status = r.status
  BY DEF Observation
<1>3. times = ends \cup starts /\ times # {}
  BY <1>2
<1>4. ends \subseteq 0..Forever /\ starts \subseteq 0..Forever
  BY DEF Timed
<1>5. Terminations(p) = {o \in seen : o.status = "terminated"}
  BY <1>1 DEF Terminations
<1> DEFINE mine == {q \in rows : q.pid = pid}
<1>16. /\ Terminations(p) = {Observation(r) : r \in {q \in mine : q.status = "terminated"}}
       /\ p.observations \ Terminations(p) = {Observation(r) : r \in {q \in mine : q.status # "terminated"}}
  BY <1>1, <1>2, <1>5
<1>6. {o.at : o \in Terminations(p)} = ends /\ (Terminations(p) = {} <=> ends = {})
  <2>1. {o.at : o \in Terminations(p)} = {Observation(r).at : r \in {q \in mine : q.status = "terminated"}}
    BY <1>16
  <2>2. {Observation(r).at : r \in {q \in mine : q.status = "terminated"}} = ends
    <3>1. \A r \in mine : Observation(r).at = r.at
      BY <1>2
    <3> QED BY <3>1
  <2>3. Terminations(p) = {} <=> ends = {}
    BY <2>1, <2>2
  <2> QED
    BY <2>1, <2>2, <2>3
<1>7. {o.at : o \in p.observations \ Terminations(p)} = starts
  <2>1. {o.at : o \in p.observations \ Terminations(p)}
           = {Observation(r).at : r \in {q \in mine : q.status # "terminated"}}
    BY <1>16
  <2> QED
    BY <1>2, <2>1
<1>8. Started(p) = IF starts = {} THEN Min(times) ELSE Min(starts)
  BY <1>1, <1>7 DEF Started
<1>9. Ended(p) = IF ends = {} THEN Forever ELSE Min(ends)
  BY <1>6 DEF Ended
<1>10. AliveIn(rows, pid, time) <=> /\ IF starts = {} THEN time \in ends ELSE Min(starts) <= time
                                   /\ \A end \in ends : time <= end
  BY DEF AliveIn
<1>11. /\ starts # {} => Min(starts) \in starts
       /\ ends # {} => Min(ends) \in ends /\ \A n \in ends : Min(ends) <= n
  <2> HIDE DEF starts, ends
  <2> QED BY <1>4, MinNumber
<1> HIDE DEF p, seen, times, ends, starts
<1>17. /\ \A n \in ends : n \in Nat /\ n <= Forever
       /\ \A n \in starts : n \in Nat
       /\ time \in Nat /\ time <= Forever
  BY <1>4, LatestTime
<1>12. Started(p) \in Nat /\ Ended(p) \in 0..Forever
  <2>1. Started(p) \in Nat
    <3>1. CASE starts = {}
      <4>1. times = ends /\ Started(p) = Min(ends) /\ ends # {}
        BY <1>3, <1>8, <3>1
      <4> QED BY <1>11, <1>17, <4>1
    <3>2. CASE starts # {}
      BY <1>8, <1>11, <1>17, <3>2
    <3> QED BY <3>1, <3>2
  <2>2. Ended(p) \in Nat /\ Ended(p) <= Forever
    <3>1. CASE ends = {}
      BY <1>9, <3>1, LatestTime
    <3>2. CASE ends # {}
      BY <1>9, <1>11, <1>17, <3>2
    <3> QED BY <3>1, <3>2
  <2> QED BY <2>1, <2>2, LatestTime
<1>13. (\A end \in ends : time <= end) <=> time <= Ended(p)
  <2>1. CASE ends = {}
    BY <1>9, <1>17, <2>1
  <2>2. CASE ends # {}
    <3>1. Ended(p) \in ends /\ \A n \in ends : Ended(p) <= n
      BY <1>9, <1>11, <2>2
    <3> QED BY <1>17, <3>1
  <2> QED BY <2>1, <2>2
<1>14. starts = {} => Started(p) = Ended(p) /\ Ended(p) \in ends
  BY <1>3, <1>8, <1>9, <1>11
<1>15. starts = {} => (time \in ends /\ time <= Ended(p) <=> Started(p) <= time /\ time <= Ended(p))
  <2> SUFFICES ASSUME starts = {} PROVE time \in ends /\ time <= Ended(p) <=> Started(p) <= time /\ time <= Ended(p)
    OBVIOUS
  <2>1. Started(p) = Ended(p) /\ Ended(p) \in ends /\ \A n \in ends : Ended(p) <= n
    BY <1>9, <1>11, <1>14
  <2> QED BY <1>17, <2>1
<1> QED
  BY <1>8, <1>10, <1>12, <1>13, <1>15 DEF p

LEMMA PairBounds ==
    ASSUME NEW a \in Nat, NEW b \in Nat
    PROVE  /\ Max({a, b}) \in Nat /\ \A t \in Nat : Max({a, b}) <= t <=> a <= t /\ b <= t
           /\ Min({a, b}) \in {a, b} /\ \A t \in Nat : t <= Min({a, b}) <=> t <= a /\ t <= b
<1>1. Min({a, b}) \in {a, b} /\ Min({a, b}) <= a /\ Min({a, b}) <= b
  BY MinNumber
<1>2. Max({a, b}) \in {a, b} /\ a <= Max({a, b}) /\ b <= Max({a, b})
  <2>1. \E x \in {a, b} : \A y \in {a, b} : x >= y
    OBVIOUS
  <2>2. Max({a, b}) \in {a, b} /\ \A y \in {a, b} : Max({a, b}) >= y
    BY <2>1 DEF Max
  <2> QED BY <2>2
<1> QED
  BY <1>1, <1>2

\* Sightings of the processes that were alive.
AliveRows(rows, time) == {r \in rows : AliveIn(rows, r.pid, time)}

ProcessesOf(rows) == {ProcessOf(pid, rows) : pid \in {r.pid : r \in rows}}

\* An interval in which to look stands for a sighting at its time or before, or behind it.
BeforeOf(rows, i, time) == \E r \in AliveRows(rows, time) : i.pid = r.pid /\ i.observed = r.at /\ r.at <= time
AfterOf(rows, i, time) == \E r \in AliveRows(rows, time) : i.pid = r.pid /\ i.observed = r.at /\ time <= r.at

LEMMA IntervalsOfAlive ==
    ASSUME NEW rows, Timed(rows), NEW time \in 0..Forever
    PROVE  /\ \A i \in Active(Before(ProcessesOf(rows)), time) : BeforeOf(rows, i, time)
           /\ \A i \in Active(After(ProcessesOf(rows)), time) : AfterOf(rows, i, time)
           /\ \A r \in AliveRows(rows, time) :
                 \/ \E i \in Active(Before(ProcessesOf(rows)), time) : i.pid = r.pid /\ i.observed = r.at
                 \/ \E i \in Active(After(ProcessesOf(rows)), time) : i.pid = r.pid /\ i.observed = r.at
           /\ Unobserved(ProcessesOf(rows)) = {}
<1> DEFINE P == ProcessesOf(rows)
<1>1. \A p \in P : \E r \in rows : p = ProcessOf(r.pid, rows)
  BY DEF ProcessesOf
<1>2. \A r \in rows : ProcessOf(r.pid, rows) \in P
  BY DEF ProcessesOf
<1>3. ASSUME NEW pid
      PROVE  /\ ProcessOf(pid, rows).pid = pid
             /\ \A o \in ProcessOf(pid, rows).observations :
                   \E r \in rows : r.pid = pid /\ o.at = r.at
             /\ \A r \in rows : r.pid = pid => \E o \in ProcessOf(pid, rows).observations : o.at = r.at
  <2>1. \A r : Observation(r).at = r.at
    BY DEF Observation
  <2>2. ProcessOf(pid, rows).observations = {Observation(r) : r \in {q \in rows : q.pid = pid}}
        /\ ProcessOf(pid, rows).pid = pid
    BY DEF ProcessOf
  <2> QED
    BY <2>1, <2>2
<1>4. \A r \in rows : LET p == ProcessOf(r.pid, rows)
                      IN  /\ Started(p) \in Nat /\ Ended(p) \in 0..Forever
                          /\ AliveIn(rows, r.pid, time) <=> Started(p) <= time /\ time <= Ended(p)
  BY AliveWithin
<1>5. \A r \in rows : r.at \in Nat /\ r.at <= Forever /\ r.pid \in Nat
  BY LatestTime DEF Timed
<1>6. time \in Nat /\ time <= Forever /\ Forever \in Nat /\ \A n \in 0..Forever : n \in Nat /\ n <= Forever
  BY LatestTime
<1>7. \A s, e, o, p : LET i == Interval(s, e, o, p)
                      IN  i.start = s /\ i.end = e /\ i.observed = o /\ i.pid = p.pid
  BY DEF Interval
<1> HIDE DEF P
<1>8. ASSUME NEW i \in Active(Before(P), time) PROVE BeforeOf(rows, i, time)
  <2> PICK p \in Living(P) : \E o \in p.observations :
           o.at <= Ended(p) /\ i = Interval(Max({Started(p), o.at}), Ended(p), o.at, p)
    BY <1>8 DEF Active, Before
  <2>1. PICK o \in p.observations :
           o.at <= Ended(p) /\ i = Interval(Max({Started(p), o.at}), Ended(p), o.at, p)
    OBVIOUS
  <2>2. PICK q \in rows : p = ProcessOf(q.pid, rows)
    BY <1>1, <2>1 DEF Living
  <2>3. PICK r \in rows : r.pid = q.pid /\ o.at = r.at
    BY <1>3, <2>2
  <2>4. i.pid = r.pid /\ i.observed = r.at /\ i.start = Max({Started(p), r.at}) /\ i.end = Ended(p)
    BY <1>3, <1>7, <2>1, <2>2, <2>3
  <2>5. Started(p) \in Nat /\ Ended(p) \in Nat /\ Ended(p) <= Forever /\ r.at \in Nat
    BY <1>4, <1>5, <1>6, <2>2
  <2>6. i.start <= time /\ (i.end + 1 <= Forever => time < i.end + 1)
    BY <1>8 DEF Active
  <2>10. Max({Started(p), r.at}) <= time <=> Started(p) <= time /\ r.at <= time
    BY <1>6, <2>5, PairBounds
  <2>7. Started(p) <= time /\ r.at <= time
    BY <2>4, <2>6, <2>10
  <2>8. time <= Ended(p)
    BY <1>6, <2>4, <2>5, <2>6
  <2>9. r \in AliveRows(rows, time)
    BY <1>4, <2>2, <2>3, <2>7, <2>8 DEF AliveRows
  <2> QED
    BY <2>4, <2>7, <2>9 DEF BeforeOf
<1>9. ASSUME NEW i \in Active(After(P), time) PROVE AfterOf(rows, i, time)
  <2> PICK p \in Living(P) : \E o \in p.observations :
           Started(p) <= o.at /\ i = Interval(Started(p), Min({Ended(p), o.at}), o.at, p)
    BY <1>9 DEF Active, After
  <2>1. PICK o \in p.observations :
           Started(p) <= o.at /\ i = Interval(Started(p), Min({Ended(p), o.at}), o.at, p)
    OBVIOUS
  <2>2. PICK q \in rows : p = ProcessOf(q.pid, rows)
    BY <1>1, <2>1 DEF Living
  <2>3. PICK r \in rows : r.pid = q.pid /\ o.at = r.at
    BY <1>3, <2>2
  <2>4. i.pid = r.pid /\ i.observed = r.at /\ i.start = Started(p) /\ i.end = Min({Ended(p), r.at})
    BY <1>3, <1>7, <2>1, <2>2, <2>3
  <2>5. /\ Started(p) \in Nat /\ Ended(p) \in Nat /\ Ended(p) <= Forever
        /\ r.at \in Nat /\ r.at <= Forever
    BY <1>4, <1>5, <1>6, <2>2
  <2>6. i.start <= time /\ (i.end + 1 <= Forever => time < i.end + 1)
    BY <1>9 DEF Active
  <2>7. i.end \in {Ended(p), r.at} /\ (time <= i.end <=> time <= Ended(p) /\ time <= r.at)
    <3>1. Min({Ended(p), r.at}) \in {Ended(p), r.at}
          /\ (time <= Min({Ended(p), r.at}) <=> time <= Ended(p) /\ time <= r.at)
      BY <1>6, <2>5, PairBounds
    <3> QED BY <2>4, <3>1
  <2>8. time <= i.end
    BY <1>6, <2>5, <2>6, <2>7
  <2>9. r \in AliveRows(rows, time)
    BY <1>4, <2>2, <2>3, <2>4, <2>6, <2>7, <2>8 DEF AliveRows
  <2> QED
    BY <2>4, <2>7, <2>8, <2>9 DEF AfterOf
<1>10. ASSUME NEW r \in AliveRows(rows, time)
       PROVE  \/ \E i \in Active(Before(P), time) : i.pid = r.pid /\ i.observed = r.at
              \/ \E i \in Active(After(P), time) : i.pid = r.pid /\ i.observed = r.at
  <2> DEFINE p == ProcessOf(r.pid, rows)
  <2>1. r \in rows /\ p \in P /\ p.pid = r.pid
    BY <1>2, <1>3 DEF AliveRows
  <2>2. /\ Started(p) \in Nat /\ Ended(p) \in Nat /\ Ended(p) <= Forever
        /\ Started(p) <= time /\ time <= Ended(p) /\ r.at \in Nat /\ r.at <= Forever
    BY <1>4, <1>5, <1>6, <2>1 DEF AliveRows
  <2>3. PICK o \in p.observations : o.at = r.at
    BY <1>3, <2>1
  <2> HIDE DEF p
  <2>4. p \in Living(P)
    BY <1>6, <2>1, <2>2 DEF Living
  <2>5. CASE r.at <= time
    <3> DEFINE i == Interval(Max({Started(p), o.at}), Ended(p), o.at, p)
    <3>1. o.at <= Ended(p)
      BY <1>6, <2>2, <2>3, <2>5
    <3>2. i \in Before(P)
      <4>1. o \in {q \in p.observations : q.at <= Ended(p)}
        BY <2>3, <3>1
      <4> DEFINE of(l) == {Interval(Max({Started(l), q.at}), Ended(l), q.at, l) :
                              q \in {n \in l.observations : n.at <= Ended(l)}}
      <4>2. i \in of(p)
        BY <4>1
      <4>3. Before(P) = UNION {of(l) : l \in Living(P)}
        BY DEF Before
      <4> HIDE DEF of, i
      <4> QED BY <2>4, <4>2, <4>3
    <3>3. i.start = Max({Started(p), r.at}) /\ i.end = Ended(p) /\ i.observed = r.at /\ i.pid = r.pid
      BY <1>7, <2>1, <2>3
    <3> HIDE DEF i
    <3>4. i.start <= time
      <4>1. Max({Started(p), r.at}) <= time
        BY <1>6, <2>2, <2>5, PairBounds
      <4> QED BY <3>3, <4>1
    <3>5. i.end + 1 <= Forever => time < i.end + 1
      BY <1>6, <2>2, <3>3
    <3>6. i \in Active(Before(P), time)
      BY <3>2, <3>4, <3>5 DEF Active
    <3> QED BY <3>3, <3>6
  <2>6. CASE time <= r.at
    <3> DEFINE i == Interval(Started(p), Min({Ended(p), o.at}), o.at, p)
    <3>1. Started(p) <= o.at
      BY <1>6, <2>2, <2>3, <2>6
    <3>2. i \in After(P)
      <4>1. o \in {q \in p.observations : Started(p) <= q.at}
        BY <2>3, <3>1
      <4> DEFINE of(l) == {Interval(Started(l), Min({Ended(l), q.at}), q.at, l) :
                              q \in {n \in l.observations : Started(l) <= n.at}}
      <4>2. i \in of(p)
        BY <4>1
      <4>3. After(P) = UNION {of(l) : l \in Living(P)}
        BY DEF After
      <4> HIDE DEF of, i
      <4> QED BY <2>4, <4>2, <4>3
    <3>3. i.start = Started(p) /\ i.end = Min({Ended(p), r.at}) /\ i.observed = r.at /\ i.pid = r.pid
      BY <1>7, <2>1, <2>3
    <3> HIDE DEF i
    <3>4. time <= i.end /\ i.end \in Nat
      <4>1. time <= Min({Ended(p), r.at}) /\ Min({Ended(p), r.at}) \in {Ended(p), r.at}
        BY <1>6, <2>2, <2>6, PairBounds
      <4> QED BY <2>2, <3>3, <4>1
    <3>5. i.end + 1 <= Forever => time < i.end + 1
      BY <1>6, <3>4
    <3>6. i \in Active(After(P), time)
      BY <2>2, <3>2, <3>3, <3>5 DEF Active
    <3> QED BY <3>3, <3>6
  <2> QED
    BY <1>6, <2>2, <2>5, <2>6
<1>11. Unobserved(P) = {}
  <2>1. ASSUME NEW p \in Living(P) PROVE p.observations # {}
    BY <1>1, <1>3 DEF Living
  <2> QED
    BY <2>1 DEF Unobserved
<1> QED
  BY <1>8, <1>9, <1>10, <1>11 DEF P

\* The least by two numbers.
LEMMA LeastPair ==
    ASSUME NEW S, S # {}, NEW F \in [S -> Nat], NEW G \in [S -> Nat]
    PROVE  \E x \in S : \A y \in S : F[x] < F[y] \/ (F[x] = F[y] /\ G[x] <= G[y])
<1> DEFINE Values == {F[x] : x \in S}
<1>1. PICK n \in Values : \A m \in Values : n <= m
  <2>1. Values \in SUBSET Nat /\ Values # {}
    OBVIOUS
  <2> HIDE DEF Values
  <2> QED BY <2>1, LeastNumber
<1> DEFINE Seconds == {G[x] : x \in {z \in S : F[z] = n}}
<1>2. PICK k \in Seconds : \A m \in Seconds : k <= m
  <2>1. Seconds \in SUBSET Nat /\ Seconds # {}
    OBVIOUS
  <2> HIDE DEF Seconds
  <2> QED BY <2>1, LeastNumber
<1>3. PICK x \in S : F[x] = n /\ G[x] = k
  OBVIOUS
<1>4. \A y \in S : n <= F[y] /\ (F[y] = n => k <= G[y]) /\ F[y] \in Nat
  BY <1>1, <1>2
<1> QED
  BY <1>3, <1>4

\* The nearest sighting of those that were alive wins, of the least number if there are several.
NearestRow(rows, pid, time) ==
    \E r \in AliveRows(rows, time) :
        /\ r.pid = pid
        /\ \A s \in AliveRows(rows, time) :
              \/ Distance(r.at, time) < Distance(s.at, time)
              \/ Distance(r.at, time) = Distance(s.at, time) /\ r.pid <= s.pid

LEMMA NearestWins ==
    ASSUME NEW rows, Timed(rows), NEW time \in 0..Forever, NEW root
    PROVE  LET owner == Associate(ProcessesOf(rows), NoPid, time, root)
           IN  /\ AliveRows(rows, time) = {} => owner.pid = root
               /\ AliveRows(rows, time) # {} => NearestRow(rows, owner.pid, time)
<1> DEFINE P == ProcessesOf(rows)
           A == AliveRows(rows, time)
           B == Active(Before(P), time)
           F == Active(After(P), time)
           near == Nearest(P, time)
           WB == Winners(Before(P), TRUE, time)
           WF == Winners(After(P), FALSE, time)
           entry(i) == [distance |-> Distance(i.observed, time), pid |-> i.pid]
           nearer(n, m) == n.distance < m.distance \/ (n.distance = m.distance /\ n.pid <= m.pid)
<1>1. /\ \A i \in B : BeforeOf(rows, i, time)
      /\ \A i \in F : AfterOf(rows, i, time)
      /\ \A r \in A : \/ \E i \in B : i.pid = r.pid /\ i.observed = r.at
                      \/ \E i \in F : i.pid = r.pid /\ i.observed = r.at
      /\ Unobserved(P) = {}
  BY IntervalsOfAlive
<1>2. /\ \A r \in A : r.at \in Nat /\ r.at <= Forever /\ r.pid \in Nat
      /\ time \in Nat /\ Forever \in Nat
  BY LatestTime DEF Timed, AliveRows
<1>3. near = {entry(i) : i \in WB \cup WF}
  <2>1. Winners({}, FALSE, time) = {}
    BY DEF Winners, Active
  <2> QED BY <1>1, <2>1 DEF Nearest
<1>4. /\ \A i \in B : i.pid \in Nat /\ i.observed \in Nat /\ i.observed <= time /\ i.observed <= Forever
      /\ \A i \in F : i.pid \in Nat /\ i.observed \in Nat /\ time <= i.observed /\ i.observed <= Forever
  BY <1>1, <1>2 DEF BeforeOf, AfterOf
<1>5. /\ WB = {i \in B : \A j \in B : \/ Forever - i.observed < Forever - j.observed
                                      \/ Forever - i.observed = Forever - j.observed /\ i.pid <= j.pid}
      /\ WF = {i \in F : \A j \in F : \/ i.observed < j.observed
                                      \/ i.observed = j.observed /\ i.pid <= j.pid}
  BY DEF Winners, Rank
<1> HIDE DEF A, B, F, P, near, WB, WF
<1>6. \A i \in B \cup F : \E w \in WB \cup WF : nearer(entry(w), entry(i))
  <2>1. ASSUME NEW i \in B PROVE \E w \in WB : nearer(entry(w), entry(i))
    <3> DEFINE first == [j \in B |-> Forever - j.observed]
               second == [j \in B |-> j.pid]
    <3>1. first \in [B -> Nat] /\ second \in [B -> Nat]
      BY <1>2, <1>4
    <3>2. \A j \in B : first[j] = Forever - j.observed /\ second[j] = j.pid
      OBVIOUS
    <3>3. PICK w \in B : \A j \in B : first[w] < first[j] \/ (first[w] = first[j] /\ second[w] <= second[j])
      <4> HIDE DEF first, second
      <4> QED BY <2>1, <3>1, LeastPair
    <3>4. w \in WB
      BY <1>5, <3>2, <3>3
    <3>5. /\ Distance(w.observed, time) = time - w.observed /\ Distance(i.observed, time) = time - i.observed
          /\ w.observed \in Nat /\ i.observed \in Nat /\ w.pid \in Nat /\ i.pid \in Nat
      BY <1>2, <1>4, <2>1 DEF Distance
    <3>6. \/ Forever - w.observed < Forever - i.observed
          \/ Forever - w.observed = Forever - i.observed /\ w.pid <= i.pid
      BY <2>1, <3>2, <3>3
    <3>7. nearer(entry(w), entry(i))
      BY <1>2, <3>5, <3>6
    <3> QED
      BY <3>4, <3>7
  <2>2. ASSUME NEW i \in F PROVE \E w \in WF : nearer(entry(w), entry(i))
    <3> DEFINE first == [j \in F |-> j.observed]
               second == [j \in F |-> j.pid]
    <3>1. first \in [F -> Nat] /\ second \in [F -> Nat]
      BY <1>2, <1>4
    <3>2. \A j \in F : first[j] = j.observed /\ second[j] = j.pid
      OBVIOUS
    <3>3. PICK w \in F : \A j \in F : first[w] < first[j] \/ (first[w] = first[j] /\ second[w] <= second[j])
      <4> HIDE DEF first, second
      <4> QED BY <2>2, <3>1, LeastPair
    <3>4. w \in WF
      BY <1>5, <3>2, <3>3
    <3>5. /\ Distance(w.observed, time) = w.observed - time /\ Distance(i.observed, time) = i.observed - time
          /\ w.observed \in Nat /\ i.observed \in Nat /\ w.pid \in Nat /\ i.pid \in Nat
      BY <1>2, <1>4, <2>2 DEF Distance
    <3>6. \/ w.observed < i.observed
          \/ w.observed = i.observed /\ w.pid <= i.pid
      BY <2>2, <3>2, <3>3
    <3>7. nearer(entry(w), entry(i))
      BY <1>2, <3>5, <3>6
    <3> QED
      BY <3>4, <3>7
  <2> QED
    BY <2>1, <2>2
<1>7. ASSUME NEW w \in WB \cup WF
      PROVE  \E r \in A : r.pid = w.pid /\ r.at = w.observed
  <2>1. w \in B \cup F
    BY <1>5
  <2> QED
    BY <1>1, <2>1 DEF BeforeOf, AfterOf, A
<1>8. A = {} <=> near = {}
  <2>1. A = {} => WB \cup WF = {}
    BY <1>7
  <2>2. WB \cup WF = {} => A = {}
    BY <1>1, <1>6
  <2> QED
    BY <1>3, <2>1, <2>2
<1>9. CASE A = {}
  <2>1. Associate(P, NoPid, time, root) = ForPid(P, root, TRUE, "root_target_fallback")
    BY <1>8, <1>9 DEF Associate, near
  <2> QED
    BY <1>9, <2>1 DEF ForPid, A, P
<1>10. CASE A # {}
  <2> DEFINE best == CHOOSE n \in near : \A m \in near : nearer(n, m)
  <2>1. \A n \in near : n.distance \in Nat /\ n.pid \in Nat
    <3>1. \A r \in A : Distance(r.at, time) \in Nat
      BY <1>2 DEF Distance
    <3> QED
      BY <1>2, <1>3, <1>7, <3>1
  <2>2. \E n \in near : \A m \in near : nearer(n, m)
    <3> DEFINE first == [n \in near |-> n.distance]
               second == [n \in near |-> n.pid]
    <3>1. first \in [near -> Nat] /\ second \in [near -> Nat]
      BY <2>1
    <3>2. PICK n \in near : \A m \in near : first[n] < first[m] \/ (first[n] = first[m] /\ second[n] <= second[m])
      <4> HIDE DEF first, second
      <4> QED BY <1>8, <1>10, <3>1, LeastPair
    <3> QED
      BY <3>2
  <2>3. best \in near /\ \A m \in near : nearer(best, m)
    BY <2>2
  <2>4. Associate(P, NoPid, time, root) = ForPid(P, best.pid, TRUE, "nearest_process_lifetime")
    BY <1>8, <1>10 DEF Associate, near
  <2>5. Associate(P, NoPid, time, root).pid = best.pid
    BY <2>4 DEF ForPid
  <2> HIDE DEF best
  <2>6. PICK w \in WB \cup WF : best = entry(w)
    BY <1>3, <2>3
  <2>7. PICK r \in A : r.pid = w.pid /\ r.at = w.observed
    BY <1>7
  <2>8. best.distance = Distance(r.at, time) /\ best.pid = r.pid
    BY <2>6, <2>7
  <2>9. ASSUME NEW s \in A
        PROVE  \/ Distance(r.at, time) < Distance(s.at, time)
               \/ Distance(r.at, time) = Distance(s.at, time) /\ r.pid <= s.pid
    <3>1. PICK i \in B \cup F : i.pid = s.pid /\ i.observed = s.at
      BY <1>1
    <3>2. PICK v \in WB \cup WF : nearer(entry(v), entry(i))
      BY <1>6
    <3>3. entry(v) \in near
      BY <1>3
    <3>4. nearer(best, entry(v))
      BY <2>3, <3>3
    <3>5. /\ entry(i).distance = Distance(s.at, time) /\ entry(i).pid = s.pid
          /\ Distance(s.at, time) \in Nat /\ s.pid \in Nat
      BY <1>2, <3>1 DEF Distance
    <3>6. /\ entry(v).distance \in Nat /\ entry(v).pid \in Nat /\ best.distance \in Nat /\ best.pid \in Nat
      BY <2>1, <2>3, <3>3
    <3> HIDE DEF entry
    <3> QED
      BY <2>8, <3>2, <3>4, <3>5, <3>6
  <2>10. NearestRow(rows, best.pid, time)
    BY <2>8, <2>9 DEF NearestRow, A
  <2> QED
    BY <1>10, <2>5, <2>10 DEF A, P
<1> QED
  BY <1>9, <1>10

LEMMA UsableTimed ==
    ASSUME NEW archive, Recordable(archive), NEW kind \in Kinds, NEW spent, NEW imported,
           Parts(archive, spent, imported)
    PROVE  \A r \in Usable(kind, LoadAll(spent, archive).rows[kind]) :
              r.at \in 0..Forever /\ r.pid \in Int /\ (kind = "process" => r.pid \in Nat)
<1>1. LoadAll(spent, archive).rows[kind] \in {archive.events[kind].rows, archive.fallback[kind]}
  BY RowsUsed
<1>2. ASSUME NEW r \in Usable(kind, LoadAll(spent, archive).rows[kind])
      PROVE  r.at \in Int /\ r.at <= Forever /\ r.pid \in Int /\ r.at >= 0 /\ (kind = "process" => r.pid >= 0)
  <2>1. r \in archive.events[kind].rows \cup archive.fallback[kind]
    BY <1>1 DEF Usable
  <2> QED
    BY <2>1 DEF Recordable, EventRow, Usable, Required
<1> QED
  BY <1>2, LatestTime

LEMMA AssociateEvent ==
    ASSUME NEW processes, NEW row, NEW archive, row.pid \in Int
    PROVE  LET owner == Owner(archive, processes, row)
           IN  owner.inferred => owner = Associate(processes, NoPid, row.at, archive.root)
<1>1. Explicit(row.pid) # NoPid => Owner(archive, processes, row).inferred = FALSE
  BY DEF Owner, Associate, ForPid
<1> QED
  BY <1>1 DEF Owner

\* An event that names no process goes to one that was alive at its time, of those to the one
\* seen nearest to it, or to the target if none was (process_index.rs, associate), whatever
\* was observed.
THEOREM Attributed == Spec => []Attribution
<1>1. AnalysisInv => Attribution
  <2> SUFFICES ASSUME AnalysisInv, Loaded,
                      NEW e \in analysis.run.files \cup analysis.run.registry, e.inferred
               PROVE  LET near == {r \in Usable("process", RowsOf("process")) : Alive(r.pid, e.at)}
                      IN  IF near = {} THEN e.pid = analysis.archive.root
                          ELSE \E r \in near : /\ r.pid = e.pid
                                               /\ \A s \in near :
                                                     \/ Distance(r.at, e.at) < Distance(s.at, e.at)
                                                     \/ Distance(r.at, e.at) = Distance(s.at, e.at) /\ r.pid <= s.pid
    BY DEF Attribution
  <2> DEFINE archive == analysis.archive
  <2>1. RunKnown /\ Recordable(archive)
    BY DEF AnalysisInv, Loaded, NoRun
  <2>2. PICK spent, imported : Parts(archive, spent, imported)
    BY <2>1, RunParts DEF RunKnown
  <2> DEFINE rows == LoadAll(spent, archive).rows
             U == Usable("process", rows["process"])
             processes == Processes(rows["process"])
  <2>3. analysis.run = RunOf(archive)
    BY <2>1 DEF RunKnown
  <2>4. RowsOf("process") = rows["process"]
    BY <2>2, <2>3, RowsUsed DEF RowsOf, Kinds
  <2>5. Timed(U)
    BY <2>1, <2>2, UsableTimed DEF Timed, Kinds
  <2>6. processes = ProcessesOf(U)
    BY DEF Processes, ProcessesOf
  <2>7. PICK r, kind : /\ kind \in Kinds /\ r \in Usable(kind, rows[kind]) /\ e.at = r.at
                       /\ e.pid = Owner(archive, processes, r).pid /\ Owner(archive, processes, r).inferred
    <3>1. \/ e \in FileEvents(archive, processes, rows["filesystem"])
          \/ e \in RegistryEvents(archive, processes, rows["registry"])
      <4>1. \A f \in ImportedFiles(processes, imported) : f.inferred = FALSE
        BY DEF ImportedFiles
      <4>2. \A f \in ImportedRegistry(processes, imported) : f.inferred = FALSE
        BY DEF ImportedRegistry
      <4> QED
        BY <2>2, <2>3, <4>1, <4>2 DEF Parts
    <3>2. \A f \in FileEvents(archive, processes, rows["filesystem"]) :
             \E r \in Usable("filesystem", rows["filesystem"]) :
                /\ f.at = r.at /\ f.pid = Owner(archive, processes, r).pid
                /\ f.inferred = Owner(archive, processes, r).inferred
      BY DEF FileEvents
    <3>3. \A f \in RegistryEvents(archive, processes, rows["registry"]) :
             \E r \in Usable("registry", rows["registry"]) :
                /\ f.at = r.at /\ f.pid = Owner(archive, processes, r).pid
                /\ f.inferred = Owner(archive, processes, r).inferred
      BY DEF RegistryEvents
    <3> QED
      BY <3>1, <3>2, <3>3 DEF Kinds
  <2>8. r.at \in 0..Forever /\ r.pid \in Int
    BY <2>1, <2>2, <2>7, UsableTimed
  <2>9. e.pid = Associate(ProcessesOf(U), NoPid, e.at, archive.root).pid
    BY <2>6, <2>7, <2>8, AssociateEvent
  <2>10. \A pid : Alive(pid, e.at) <=> AliveIn(U, pid, e.at)
    <3>1. \A pid : {s \in Sightings(pid) : s.status = "terminated"} = {s \in U : s.pid = pid /\ s.status = "terminated"}
                   /\ {s \in Sightings(pid) : s.status # "terminated"} = {s \in U : s.pid = pid /\ s.status # "terminated"}
      BY <2>4 DEF Sightings
    <3> QED
      BY <3>1 DEF Alive, AliveIn
  <2>11. {s \in Usable("process", RowsOf("process")) : Alive(s.pid, e.at)} = AliveRows(U, e.at)
    BY <2>4, <2>10 DEF AliveRows
  <2> HIDE DEF U
  <2>12. /\ AliveRows(U, e.at) = {} => e.pid = archive.root
         /\ AliveRows(U, e.at) # {} => NearestRow(U, e.pid, e.at)
    BY <2>5, <2>7, <2>8, <2>9, NearestWins
  <2> QED
    BY <2>11, <2>12 DEF NearestRow
<1> QED
  BY <1>1, AnalysisFollows, PTL

-----------------------------------------------------------------------------
\* What must have been seen for a run to be called harmless.

\* A row that is usable is in the run.
LEMMA UsableSeen ==
    ASSUME NEW archive, NEW spent, NEW imported, Parts(archive, spent, imported), NEW k \in Kinds,
           NEW u \in Usable(k, LoadAll(spent, archive).rows[k])
    PROVE  u.id \in EventIds(RunOf(archive))
<1> DEFINE run == RunOf(archive)
           rows == LoadAll(spent, archive).rows
           U == Usable("process", rows["process"])
           processes == Processes(rows["process"])
<1>1. ASSUME NEW r \in Usable("process", rows["process"]) PROVE r.id \in EventIds(run)
  <2>1. r \in U
    BY <1>1
  <2>2. ProcessOf(r.pid, U) \in processes
    BY <2>1 DEF Processes
  <2>3. Observation(r) \in ProcessOf(r.pid, U).observations /\ Observation(r).id = r.id
    BY <2>1 DEF ProcessOf, Observation
  <2> DEFINE p == AddObservations(ProcessOf(r.pid, U), imported)
  <2>4. p \in run.processes
    BY <2>2 DEF Parts
  <2>5. Observation(r) \in p.observations
    <3>1. ProcessOf(r.pid, U) = [pid |-> ProcessOf(r.pid, U).pid, parent |-> ProcessOf(r.pid, U).parent,
                                 image |-> ProcessOf(r.pid, U).image, at |-> ProcessOf(r.pid, U).at,
                                 observations |-> ProcessOf(r.pid, U).observations]
      BY DEF ProcessOf
    <3> DEFINE q == ProcessOf(r.pid, U)
    <3> HIDE DEF q
    <3>2. \A X : [q EXCEPT !.observations = @ \cup X].observations = q.observations \cup X
      BY <3>1 DEF q
    <3>3. q.observations \subseteq AddObservations(q, imported).observations
      BY <3>2 DEF AddObservations
    <3> QED
      BY <2>3, <3>3 DEF q
  <2>6. Observation(r) \in Observations(run)
    BY <2>4, <2>5 DEF Observations
  <2> QED
    BY <2>3, <2>6 DEF EventIds
<1>2. ASSUME NEW r \in Usable("filesystem", rows["filesystem"]) PROVE r.id \in EventIds(run)
  <2>1. \E f \in FileEvents(archive, processes, rows["filesystem"]) : f.id = r.id
    <3> DEFINE owner == Owner(archive, processes, r)
               f == [id |-> r.id, pid |-> owner.pid, parent |-> owner.parent, inferred |-> owner.inferred,
                    at |-> r.at, path |-> r.path, action |-> r.action,
                    sha256 |-> IF r.sha256 = Invalid THEN Absent ELSE r.sha256]
    <3>2. f \in FileEvents(archive, processes, rows["filesystem"])
      BY <1>2 DEF FileEvents
    <3>3. f.id = r.id
      OBVIOUS
    <3> QED
      BY <3>2, <3>3
  <2> QED
    BY <2>1 DEF Parts, EventIds
<1>3. ASSUME NEW r \in Usable("registry", rows["registry"]) PROVE r.id \in EventIds(run)
  <2>1. \E f \in RegistryEvents(archive, processes, rows["registry"]) : f.id = r.id
    <3> DEFINE owner == Owner(archive, processes, r)
               f == [id |-> r.id, pid |-> owner.pid, parent |-> owner.parent, inferred |-> owner.inferred,
                    at |-> r.at, key |-> r.key, name |-> r.name, data |-> r.data, operation |-> r.operation]
    <3>2. f \in RegistryEvents(archive, processes, rows["registry"])
      BY <1>3 DEF RegistryEvents
    <3>3. f.id = r.id
      OBVIOUS
    <3> QED
      BY <3>2, <3>3
  <2> QED
    BY <2>1 DEF Parts, EventIds
<1>4. ASSUME NEW r \in Usable("network", rows["network"]) PROVE r.id \in EventIds(run)
  <2>1. \E f \in NetworkEvents(archive, processes, rows["network"]) : f.id = r.id
    <3> DEFINE owner == Owner(archive, processes, r)
               dns == r.protocol = "dns" /\ Given(r.remote)
               f == [id |-> r.id, pid |-> owner.pid, parent |-> owner.parent,
                    inferred |-> owner.inferred \/ r.attributed, at |-> r.at, protocol |-> r.protocol,
                    direction |-> r.direction, state |-> r.state, local |-> r.local,
                    remote |-> IF dns THEN "" ELSE r.remote, domain |-> IF dns THEN r.remote ELSE r.domain,
                    answers |-> r.answers, guid |-> r.guid, flow |-> r.flow]
    <3>2. f \in NetworkEvents(archive, processes, rows["network"])
      BY <1>4 DEF NetworkEvents
    <3>3. f.id = r.id
      OBVIOUS
    <3> QED
      BY <3>2, <3>3
  <2> QED
    BY <2>1 DEF Parts, EventIds
<1> HIDE DEF rows, run
<1> QED
  BY <1>1, <1>2, <1>3, <1>4 DEF Kinds, run, rows

\* A run without a warning used every file of events, and every row of them.
LEMMA AllSeen ==
    ASSUME NEW archive, NEW spent, NEW imported, Parts(archive, spent, imported),
           RunOf(archive).warnings = {}
    PROVE  \A k \in Kinds :
              /\ archive.events[k].state = "whole"
              /\ {r.id : r \in archive.events[k].rows} \subseteq EventIds(RunOf(archive))
<1> DEFINE run == RunOf(archive)
           events == LoadAll(spent, archive)
           rows == events.rows
<1>1. events.warnings = {} /\ \A k \in Kinds : RowWarnings(k, rows[k]) = {}
  BY DEF Parts
<1>2. \A k \in Kinds : archive.events[k].state = "whole"
  <2> DEFINE process == LoadEvents(spent, archive, "process")
             network == LoadEvents(process.spent, archive, "network")
             filesystem == LoadEvents(network.spent, archive, "filesystem")
             registry == LoadEvents(filesystem.spent, archive, "registry")
  <2>1. ASSUME NEW s, NEW k, LoadEvents(s, archive, k).warnings = {} PROVE archive.events[k].state = "whole"
    BY <2>1 DEF LoadEvents, Read
  <2>2. process.warnings = {} /\ network.warnings = {} /\ filesystem.warnings = {} /\ registry.warnings = {}
    BY <1>1 DEF LoadAll
  <2> HIDE DEF events
  <2> QED
    BY <2>1, <2>2 DEF Kinds
<1>3. \A k \in Kinds : rows[k] = archive.events[k].rows
  BY RowsUsed
<1>4. \A k \in Kinds : \A r \in rows[k] : r \in Usable(k, rows[k])
  <2>1. ASSUME NEW k \in Kinds, NEW r \in rows[k], r \notin Usable(k, rows[k]) PROVE FALSE
    <3>1. Warning("malformed_event", r.id) \in RowWarnings(k, rows[k])
      BY <2>1 DEF RowWarnings
    <3> QED BY <1>1, <3>1
  <2> QED BY <2>1
<1> QED
  BY <1>2, <1>3, <1>4, UsableSeen

\* Without a warning every entry of the manifest describes a file as it is.
LEMMA AllVerified ==
    ASSUME NEW archive, NEW spent, NEW imported, Parts(archive, spent, imported), Recordable(archive),
           RunOf(archive).warnings = {}, NEW e \in archive.manifest
    PROVE  /\ e.intact /\ e.path \in DOMAIN archive.stored /\ archive.stored[e.path] = e.sha256
           /\ e.kind = "telemetry" =>
                 \A r \in Range(archive.telemetry[e.path]) : r.intact /\ r.known
           /\ \E a \in Artifacts(archive) :
                 /\ a.id = e.id /\ a.path = e.path /\ a.kind = e.kind /\ a.sha256 = e.sha256 /\ a.verified
<1>1. ArtifactWarnings(archive) = {} /\ TelemetryWarnings(archive, Artifacts(archive)) = {}
  BY DEF Parts
<1>2. e.intact
  <2>1. ~e.intact => Warning("malformed_event", e.id) \in ArtifactWarnings(archive)
    BY DEF ArtifactWarnings
  <2> QED BY <1>1, <2>1
<1>3. e.sha256 = Stored(archive, e)
  <2>1. e.intact /\ e.sha256 # Stored(archive, e) => Warning("artifact_not_verified", e.id) \in ArtifactWarnings(archive)
    BY DEF ArtifactWarnings
  <2> QED BY <1>1, <1>2, <2>1
<1>4. e.sha256 # NoPid
  BY <1>2 DEF Recordable, NoPid
<1>5. e.path \in DOMAIN archive.stored /\ archive.stored[e.path] = e.sha256
  BY <1>3, <1>4 DEF Stored
<1> DEFINE a == [id |-> e.id, path |-> e.path, kind |-> e.kind, sha256 |-> e.sha256, size |-> e.size,
                 verified |-> e.sha256 = Stored(archive, e)]
<1>6. a \in Artifacts(archive) /\ a.verified
  BY <1>2, <1>3 DEF Artifacts
<1>7. /\ a.id = e.id /\ a.path = e.path /\ a.kind = e.kind /\ a.sha256 = e.sha256
  OBVIOUS
<1> HIDE DEF a
<1>8. ASSUME e.kind = "telemetry", NEW r \in Range(archive.telemetry[e.path])
      PROVE  r.intact /\ r.known
  <2>1. Telemetry(archive, a).whole
    <3>1. ~Telemetry(archive, a).whole =>
             Warning("structured_telemetry_incomplete", a.id) \in TelemetryWarnings(archive, Artifacts(archive))
      BY <1>6, <1>7, <1>8 DEF TelemetryWarnings
    <3> QED BY <1>1, <3>1
  <2>2. PICK i \in DOMAIN archive.telemetry[a.path] : r = archive.telemetry[a.path][i]
    BY <1>7, <1>8 DEF Range
  <2>3. /\ \A j \in DOMAIN archive.telemetry[a.path] : archive.telemetry[a.path][j].intact
        /\ \A j \in DOMAIN archive.telemetry[a.path] : archive.telemetry[a.path][j].known
    BY <1>6, <2>1 DEF Telemetry
  <2> QED
    BY <2>2, <2>3
<1> QED
  BY <1>2, <1>5, <1>6, <1>7, <1>8

\* What the results of the scanners become.
StagesOf(run, archive) ==
    {StageOf(run, EffectiveConfig(archive.config), archive.results, a) : a \in ResultFiles(run)}

LEMMA ImportParts ==
    ASSUME NEW run, NEW archive
    PROVE  /\ StagesOf(run, archive) \subseteq Import(run, archive).stages
           /\ \A s \in Import(run, archive).stages :
                 s \in StagesOf(run, archive) \/ (VerifiedTarget(run) /\ s.evidence = {run.hash} /\ s.findings = {})
           /\ Import(run, archive).owners = SummarizeNetwork(run, StagesOf(run, archive)).owners
           /\ \A s \in ScannerNames :
                 Import(run, archive).coverage[s]
                    = CoverageOf(EffectiveConfig(archive.config), StagesOf(run, archive), s)
           /\ archive.guestWarned => Import(run, archive).cautions # {}
           /\ archive.config.state = "invalid" => Import(run, archive).cautions # {}
<1> DEFINE config == EffectiveConfig(archive.config)
           stages == {StageOf(run, config, archive.results, a) : a \in ResultFiles(run)}
           coverage == [s \in ScannerNames |-> CoverageOf(config, stages, s)]
           missing == {s \in ScannerNames : ~\E t \in stages : t.scanner = s}
           summary == SummarizeNetwork(run, stages)
           all == stages \cup
             (IF VerifiedTarget(run)
              THEN {Stage(s, TRUE, run.hash, IF s \in config.enabled THEN "Unavailable" ELSE "Disabled",
                          NoFindings, {run.hash}) : s \in missing}
              ELSE {})
           cautions ==
             If(archive.guestWarned, "guest_detection_collection_incomplete")
             \cup If(archive.config.state = "invalid", "invalid_detection_configuration")
             \cup If(config.behavioral /\ ~TelemetryComplete(run), "telemetry_incomplete")
             \cup If(missing # {} /\ ~VerifiedTarget(run), "unavailable_without_verified_target")
             \cup If(summary.cut, "packet_correlation_budget_exhausted")
           d == [behavioral |-> config.behavioral, coverage |-> coverage, stages |-> all,
                 owners |-> summary.owners, cautions |-> cautions]
<1>1. Import(run, archive) = d
  BY DEF Import
<1>2. /\ archive.guestWarned => cautions # {}
      /\ archive.config.state = "invalid" => cautions # {}
  BY DEF If
<1>3. \A s \in ScannerNames : coverage[s] = CoverageOf(config, stages, s)
  OBVIOUS
<1>4. stages \subseteq all /\ \A s \in all : s \in stages \/ (VerifiedTarget(run) /\ s.evidence = {run.hash} /\ s.findings = {})
  <2>1. \A s, status : /\ Stage(s, TRUE, run.hash, status, NoFindings, {run.hash}).evidence = {run.hash}
                       /\ Stage(s, TRUE, run.hash, status, NoFindings, {run.hash}).findings = {}
    BY DEF Stage, NoFindings, Deduplicated
  <2> HIDE DEF config, stages, missing
  <2> QED BY <2>1
<1>5. d.coverage = coverage /\ d.stages = all /\ d.cautions = cautions /\ d.owners = summary.owners
  <2> DEFINE owners == summary.owners
             behavioral == config.behavioral
  <2> HIDE DEF config, coverage, all, cautions, owners, behavioral
  <2> QED OBVIOUS
<1> HIDE DEF coverage, all, cautions, d
<1>6. Import(run, archive).coverage = coverage /\ Import(run, archive).stages = all
      /\ Import(run, archive).cautions = cautions /\ Import(run, archive).owners = summary.owners
  BY <1>1, <1>5
<1> HIDE DEF config, stages
<1>7. /\ stages \subseteq Import(run, archive).stages
      /\ \A s \in Import(run, archive).stages : s \in stages \/ (VerifiedTarget(run) /\ s.evidence = {run.hash} /\ s.findings = {})
      /\ Import(run, archive).owners = SummarizeNetwork(run, stages).owners
      /\ \A s \in ScannerNames : Import(run, archive).coverage[s] = CoverageOf(config, stages, s)
      /\ archive.guestWarned => Import(run, archive).cautions # {}
      /\ archive.config.state = "invalid" => Import(run, archive).cautions # {}
  BY <1>2, <1>3, <1>4, <1>6
<1> QED
  BY <1>7 DEF config, stages, StagesOf

\* A result that leaves nothing open was accepted, and says so itself.
LEMMA CoveredStage ==
    ASSUME NEW run, NEW config, NEW results, NEW a
    PROVE  /\ StageOf(run, config, results, a).scanner = a.kind
           /\ Covered(StageOf(run, config, results, a).status) =>
                 /\ Acceptable(run, config, results, a)
                 /\ Covered(results[Place(results, a)].status)
<1>1. \A scanner, primary, hash, status, found, evidence :
         /\ Stage(scanner, primary, hash, status, found, evidence).scanner = scanner
         /\ Stage(scanner, primary, hash, status, found, evidence).status = status
  BY DEF Stage
<1>2. \/ /\ Acceptable(run, config, results, a)
         /\ \E primary, hash, found, evidence :
               StageOf(run, config, results, a) =
                  Stage(a.kind, primary, hash, results[Place(results, a)].status, found, evidence)
      \/ \E primary, hash, found, evidence :
            StageOf(run, config, results, a) = Stage(a.kind, primary, hash, "InvalidOutput", found, evidence)
  BY DEF StageOf
<1>3. ~Covered("InvalidOutput")
  BY DEF Covered
<1> QED
  BY <1>1, <1>2, <1>3

LEMMA Harmless ==
    ASSUME AnalysisInv, analysis.verdict \in {"benign", "informational"}
    PROVE  /\ RunKnown /\ Recordable(analysis.archive)
           /\ ~Inconclusive(analysis.run, analysis.findings)
<1>1. RunKnown /\ Judged /\ Recordable(analysis.archive)
  BY DEF AnalysisInv
<1>2. VerdictOf(analysis.run, analysis.findings) \in {"benign", "informational"}
  BY <1>1 DEF Judged
<1>3. ~Inconclusive(analysis.run, analysis.findings)
  BY <1>2 DEF VerdictOf
<1> QED
  BY <1>1, <1>3

\* A run is called harmless only if every row of the guest has been taken in, every artifact
\* is the one the manifest describes, all structured telemetry could be read, and every
\* scanner that was to look at the target has said of that very file that it did (verdict.rs
\* with loader.rs and detection.rs).
THEOREM HonestVerdict == Spec => []VerdictHonest
<1>1. AnalysisInv => VerdictHonest
  <2> DEFINE archive == analysis.archive
             run == analysis.run
             config == EffectiveConfig(archive.config)
             loaded == Load(archive)
             stages == {StageOf(loaded, config, archive.results, a) : a \in ResultFiles(loaded)}
  <2> SUFFICES ASSUME AnalysisInv, analysis.verdict \in {"benign", "informational"}
               PROVE  /\ archive.complete = Channels /\ ~archive.guestWarned /\ archive.health.malformed = {}
                      /\ \A k \in Kinds :
                            /\ archive.events[k].state = "whole"
                            /\ {r.id : r \in archive.events[k].rows} \subseteq EventIds(run)
                      /\ \A e \in archive.manifest :
                            /\ e.intact /\ e.path \in DOMAIN archive.stored /\ archive.stored[e.path] = e.sha256
                            /\ e.kind = "telemetry" =>
                                  \A r \in Range(archive.telemetry[e.path]) : r.intact /\ r.known
                            /\ e.kind \in ScannerNames =>
                                  Conclusive(archive, e.kind, archive.results[Place(archive.results, e)])
                      /\ archive.config.state # "invalid"
                      /\ \A s \in ScannerNames \cap config.enabled : \E e \in archive.manifest : e.kind = s
    BY DEF VerdictHonest
  <2>1. RunKnown /\ Recordable(archive) /\ ~Inconclusive(run, analysis.findings)
    BY Harmless
  <2>2. run = RunOf(archive)
    BY <2>1 DEF RunKnown
  <2>3. PICK spent, imported : Parts(archive, spent, imported)
    BY <2>1, RunParts DEF RunKnown
  <2>4. /\ run.complete = Channels /\ run.warnings = {} /\ run.detection.cautions = {}
        /\ \A s \in ScannerNames : Covered(run.detection.coverage[s])
        /\ \A s \in run.detection.stages : Covered(s.status)
    BY <2>1 DEF Inconclusive, TelemetryComplete
  <2>5. /\ run.complete = archive.complete /\ run.detection = Import(loaded, archive)
        /\ loaded.artifacts = Artifacts(archive) /\ loaded.hash = archive.hash
        /\ HealthWarnings(archive) \subseteq run.warnings
    BY <2>2, <2>3 DEF Parts
  <2>6. archive.health.malformed = {}
    BY <2>4, <2>5 DEF HealthWarnings
  <2>7. /\ stages \subseteq run.detection.stages
        /\ \A s \in ScannerNames : run.detection.coverage[s] = CoverageOf(config, stages, s)
        /\ ~archive.guestWarned /\ archive.config.state # "invalid"
    <3>1. stages = StagesOf(loaded, archive)
      BY DEF StagesOf
    <3> HIDE DEF stages, config, loaded
    <3> QED
      BY <2>4, <2>5, <3>1, ImportParts DEF config
  <2>8. \A k \in Kinds :
           /\ archive.events[k].state = "whole"
           /\ {r.id : r \in archive.events[k].rows} \subseteq EventIds(run)
    BY <2>2, <2>3, <2>4, AllSeen
  <2>9. ASSUME NEW e \in archive.manifest
        PROVE  /\ e.intact /\ e.path \in DOMAIN archive.stored /\ archive.stored[e.path] = e.sha256
               /\ e.kind = "telemetry" =>
                     \A r \in Range(archive.telemetry[e.path]) : r.intact /\ r.known
               /\ \E a \in Artifacts(archive) :
                     /\ a.id = e.id /\ a.path = e.path /\ a.kind = e.kind /\ a.sha256 = e.sha256 /\ a.verified
    BY <2>1, <2>2, <2>3, <2>4, AllVerified
  <2>10. ASSUME NEW e \in archive.manifest, e.kind \in ScannerNames
         PROVE  Conclusive(archive, e.kind, archive.results[Place(archive.results, e)])
    <3>1. PICK a \in Artifacts(archive) : a.path = e.path /\ a.kind = e.kind
      BY <2>9
    <3> DEFINE said == archive.results[Place(archive.results, a)]
    <3>2. Place(archive.results, a) = Place(archive.results, e)
      BY <3>1 DEF Place
    <3>3. a \in ResultFiles(loaded)
      BY <2>5, <2>10, <3>1 DEF ResultFiles
    <3>4. Acceptable(loaded, config, archive.results, a) /\ Covered(said.status)
      BY <2>4, <2>7, <3>3, CoveredStage
    <3>5. /\ TargetOf(loaded, said) # Absent /\ said.hash = TargetOf(loaded, said)
          /\ Parses(loaded, config, a.kind, said)
      BY <3>4 DEF Acceptable
    <3> HIDE DEF said
    <3>6. said.hash = IF said.target = "primary" THEN archive.hash ELSE archive.stored[said.target]
      <4>1. CASE said.target = "primary"
        BY <2>5, <3>5, <4>1 DEF TargetOf
      <4>2. CASE said.target # "primary"
        <5> DEFINE named == {b \in loaded.artifacts : b.path = said.target /\ b.verified}
        <5>1. named # {} /\ said.hash = (CHOOSE b \in named : TRUE).sha256
          BY <3>5, <4>2 DEF TargetOf
        <5>2. PICK b \in named : said.hash = b.sha256
          BY <5>1
        <5>3. PICK m \in archive.manifest : b.path = m.path /\ b.sha256 = m.sha256
          BY <2>5, <5>2 DEF Artifacts
        <5> QED
          BY <2>9, <4>2, <5>2, <5>3
      <4> QED
        BY <4>1, <4>2
    <3>7. /\ said.json /\ said.scanner = a.kind /\ said.pinned /\ said.sameLimits
          /\ said.status = "Completed" => ~said.truncated /\ ~said.warned
          /\ said.scanner = "pe" \/ said.status # "Completed" \/ "builtin" \in said.packs
      BY <3>5 DEF Parses, Bounded, Identified, StatusHolds, PacksHold
    <3>8. Conclusive(archive, e.kind, said)
      BY <3>1, <3>4, <3>6, <3>7 DEF Conclusive, Covered
    <3> QED
      BY <3>2, <3>8 DEF said
  <2>11. ASSUME NEW s \in ScannerNames \cap config.enabled
         PROVE  \E e \in archive.manifest : e.kind = s
    <3>1. {t.status : t \in {t \in stages : t.scanner = s}} # {}
      <4> HIDE DEF stages, config
      <4>1. Covered(CoverageOf(config, stages, s))
        BY <2>4, <2>7
      <4>2. ~Covered("Unavailable")
        BY DEF Covered
      <4> QED
        BY <4>1, <4>2 DEF CoverageOf
    <3>2. PICK a \in ResultFiles(loaded) : StageOf(loaded, config, archive.results, a).scanner = s
      BY <3>1
    <3>3. a \in Artifacts(archive) /\ a.kind = s
      BY <2>5, <3>2, CoveredStage DEF ResultFiles
    <3> QED
      BY <3>3 DEF Artifacts
  <2> QED
    BY <2>4, <2>5, <2>6, <2>7, <2>8, <2>9, <2>10, <2>11
<1> QED
  BY <1>1, AnalysisFollows, PTL

-----------------------------------------------------------------------------
\* What the analysis says comes from evidence of the run.

\* Evidence that is there and of the run, and such that numbers tell.
Cites(run, ids) == ids # {} /\ ids \subseteq Resolved(run)

Traced(run, ids) == ids \in SUBSET Nat /\ Cites(run, ids)

\* The ids of what is no event: the target and the entries of the manifest.
ThingIds(archive) == {archive.hash} \cup {e.id : e \in archive.manifest}

\* What a scanner says cites the target or an artifact of the run.
LEMMA StagesTraced ==
    ASSUME NEW archive, NEW spent, NEW imported, Parts(archive, spent, imported), Recordable(archive)
    PROVE  \A s \in RunOf(archive).detection.stages :
              Traced(RunOf(archive), s.evidence) /\ s.evidence \subseteq ThingIds(archive)
<1> DEFINE run == RunOf(archive)
           loaded == Load(archive)
           config == EffectiveConfig(archive.config)
           Good(id) == id \in Nat /\ id \in Resolved(run) /\ id \in ThingIds(archive)
<1>1. /\ run.detection = Import(loaded, archive) /\ loaded.artifacts = Artifacts(archive)
      /\ run.artifacts = Artifacts(archive) /\ loaded.hash = archive.hash /\ run.hash = archive.hash
  BY DEF Parts
<1>2. ASSUME NEW a \in Artifacts(archive) PROVE Good(a.id)
  <2>1. a.id \in Nat
    BY DEF Artifacts, Recordable
  <2>2. a.id \in ThingIds(archive)
    BY DEF Artifacts, ThingIds
  <2> QED
    BY <1>1, <2>1, <2>2 DEF Resolved
<1>3. VerifiedTarget(loaded) => Good(archive.hash)
  BY <1>1 DEF VerifiedTarget, Recordable, Resolved, ThingIds
<1> HIDE DEF loaded, run, config, Good
<1>4. ASSUME NEW alias \in Aliases(loaded) PROVE Good(IdOf(loaded, alias))
  <2> DEFINE named == {a \in loaded.artifacts : a.path = alias /\ a.verified}
  <2>1. CASE named = {}
    <3>1. VerifiedTarget(loaded)
      BY <2>1 DEF Aliases
    <3> QED
      BY <1>1, <1>3, <2>1, <3>1 DEF IdOf
  <2>2. CASE named # {}
    <3>1. IdOf(loaded, alias) = (CHOOSE a \in named : TRUE).id
      BY <2>2 DEF IdOf
    <3>2. (CHOOSE a \in named : TRUE) \in named
      BY <2>2
    <3> QED
      BY <1>1, <1>2, <3>1, <3>2
  <2> QED
    BY <2>1, <2>2
<1>5. ASSUME NEW a \in ResultFiles(loaded)
      PROVE  /\ a.id \in StageOf(loaded, config, archive.results, a).evidence
             /\ \A id \in StageOf(loaded, config, archive.results, a).evidence : Good(id)
  <2> DEFINE said == archive.results[Place(archive.results, a)]
             cited == {IdOf(loaded, alias) : alias \in Range(said.cites)} \cup {a.id}
  <2>1. a \in Artifacts(archive)
    BY <1>1 DEF ResultFiles
  <2>3. \/ /\ Acceptable(loaded, config, archive.results, a)
           /\ StageOf(loaded, config, archive.results, a).evidence = cited
        \/ StageOf(loaded, config, archive.results, a).evidence = {a.id}
    <3> DEFINE kept == Stage(a.kind, said.target = "primary", said.hash, said.status,
                           said.found, cited)
               dropped == Stage(a.kind, FALSE, a.sha256, "InvalidOutput", NoFindings, {a.id})
    <3>1. \/ Acceptable(loaded, config, archive.results, a) /\ StageOf(loaded, config, archive.results, a) = kept
          \/ StageOf(loaded, config, archive.results, a) = dropped
      BY DEF StageOf
    <3>2. kept.evidence = cited /\ dropped.evidence = {a.id}
      BY DEF Stage
    <3> HIDE DEF kept, dropped, cited
    <3> QED
      BY <3>1, <3>2
  <2>4. Acceptable(loaded, config, archive.results, a) => Range(said.cites) \subseteq Aliases(loaded)
    BY DEF Acceptable, Parses, ResolvesIn
  <2>5. Good(a.id)
    BY <1>2, <2>1
  <2> HIDE DEF said
  <2> QED
    BY <1>4, <2>3, <2>4, <2>5
<1>6. ASSUME NEW s \in run.detection.stages
      PROVE  s.evidence # {} /\ \A id \in s.evidence : Good(id)
  <2>1. \/ \E a \in ResultFiles(loaded) : s = StageOf(loaded, config, archive.results, a)
        \/ VerifiedTarget(loaded) /\ s.evidence = {loaded.hash}
    <3>1. s \in StagesOf(loaded, archive) \/ (VerifiedTarget(loaded) /\ s.evidence = {loaded.hash})
      BY <1>1, ImportParts
    <3> QED
      BY <3>1 DEF StagesOf, config
  <2> QED
    BY <1>1, <1>3, <1>5, <2>1
<1> QED
  BY <1>6 DEF run, Good, Traced, Cites

\* A packet that is given to a process cites connections of the run as well.
LEMMA OwnersTraced ==
    ASSUME NEW archive, NEW spent, NEW imported, Parts(archive, spent, imported), Recordable(archive)
    PROVE  \A o \in RunOf(archive).detection.owners : Cites(RunOf(archive), o.evidence)
<1> DEFINE run == RunOf(archive)
           loaded == Load(archive)
           stages == StagesOf(loaded, archive)
<1>1. /\ run.detection = Import(loaded, archive) /\ loaded.network = run.network
      /\ run.detection.owners = SummarizeNetwork(loaded, stages).owners
      /\ stages \subseteq run.detection.stages
  <2>1. run.detection = Import(loaded, archive) /\ loaded.network = run.network
    BY DEF Parts
  <2> HIDE DEF loaded, run
  <2> QED
    BY <2>1, ImportParts
<1>2. \A s \in stages : Traced(run, s.evidence)
  BY <1>1, StagesTraced
<1> HIDE DEF loaded, run, stages
<1>3. ASSUME NEW o \in SummarizeNetwork(loaded, stages).owners
      PROVE  \E s \in stages : \E p : o.evidence = s.evidence \cup {n.id : n \in Near(loaded, p)}
  <2> DEFINE packets == UNION {{<<s, p>> : p \in s.packets} : s \in stages}
             timed == {x \in packets : x[2].at # Absent /\ OnFlow(loaded, x[2]) # {}}
             before(x) == {y \in timed : \/ y[1].hash < x[1].hash
                                         \/ y[1].hash = x[1].hash /\ PacketOrder(y[2], x[2])}
             matches(x) == Cardinality(Near(loaded, x[2]))
             crowded == {x \in timed : matches(x) > MaxMatches}
             clear == {x \in timed \ crowded : Cardinality(Identities(loaded, x[2])) = 1}
             late == {x \in timed : \/ MapThenSumSet(matches, before(x) \cup {x}) > MaxChecks
                                    \/ Cardinality(before(x) \cap clear) >= MaxCorrelations}
             owner(x) == [packet |-> x[2].id, pid |-> (CHOOSE i \in Identities(loaded, x[2]) : TRUE)[1],
                          evidence |-> x[1].evidence \cup {n.id : n \in Near(loaded, x[2])}]
  <2>1. SummarizeNetwork(loaded, stages).owners = {owner(x) : x \in clear \ late}
    <3> DEFINE owners == {owner(x) : x \in clear \ late}
               cut == crowded \cup late # {}
    <3>1. SummarizeNetwork(loaded, stages) = [owners |-> owners, cut |-> cut]
      BY DEF SummarizeNetwork
    <3> HIDE DEF owners, cut
    <3> QED
      BY <3>1 DEF owners
  <2>2. PICK x \in packets : o = owner(x)
    <3>1. clear \ late \subseteq packets
      <4> HIDE DEF packets
      <4> QED OBVIOUS
    <3> HIDE DEF packets, clear, late, owner
    <3> QED
      BY <1>3, <2>1, <3>1
  <2>3. o.evidence = x[1].evidence \cup {n.id : n \in Near(loaded, x[2])}
    <3> HIDE DEF packets
    <3> QED BY <2>2
  <2>4. x[1] \in stages
    BY <2>2
  <2> QED
    BY <2>3, <2>4
<1>4. ASSUME NEW p PROVE {n.id : n \in Near(loaded, p)} \subseteq Resolved(run)
  <2>1. Near(loaded, p) \subseteq run.network
    BY <1>1 DEF Near, OnFlow
  <2> QED
    BY <2>1 DEF Resolved, EventIds
<1>5. \A o \in run.detection.owners : Cites(run, o.evidence)
  <2> SUFFICES ASSUME NEW o \in run.detection.owners PROVE Cites(run, o.evidence)
    OBVIOUS
  <2>1. PICK s \in stages : \E p : o.evidence = s.evidence \cup {n.id : n \in Near(loaded, p)}
    BY <1>1, <1>3
  <2>2. PICK p : o.evidence = s.evidence \cup {n.id : n \in Near(loaded, p)}
    BY <2>1
  <2> QED
    BY <1>2, <1>4, <2>2 DEF Traced, Cites
<1> QED
  BY <1>5 DEF run

-----------------------------------------------------------------------------
\* The events of a run, and where they come from.

\* A row of telemetry that comes before all that is wrong with its file.
Broken(rows) == {i \in DOMAIN rows : ~rows[i].known \/ \E j \in 1..(i - 1) : rows[j].id = rows[i].id}

InOrder(rows, r) == \E i \in DOMAIN rows : r = rows[i] /\ \A b \in Broken(rows) : i < b

LEMMA TelemetryRows ==
    ASSUME NEW archive, NEW spent, NEW imported, Parts(archive, spent, imported), Recordable(archive)
    PROVE  \A r \in imported :
              /\ r.id \in Nat /\ r.at \in Nat \ {0} /\ r.pid \in Nat
              /\ \E e \in archive.manifest :
                    e.path \in DOMAIN archive.telemetry /\ InOrder(archive.telemetry[e.path], r)
<1> SUFFICES ASSUME NEW r \in imported
             PROVE  /\ r.id \in Nat /\ r.at \in Nat \ {0} /\ r.pid \in Nat
                    /\ \E e \in archive.manifest :
                          e.path \in DOMAIN archive.telemetry /\ InOrder(archive.telemetry[e.path], r)
  OBVIOUS
<1>1. PICK a \in Artifacts(archive) : a.kind = "telemetry" /\ r \in Range(Telemetry(archive, a).rows)
  BY DEF Parts, Imported
<1>2. r.at > 0
  BY DEF Parts, Imported
<1> DEFINE rows == archive.telemetry[a.path]
           bad == Broken(rows)
<1>3. a.verified /\ \A i \in DOMAIN rows : rows[i].intact
  <2>1. ~(a.verified /\ \A i \in DOMAIN rows : rows[i].intact) => Telemetry(archive, a).rows = <<>>
    BY DEF Telemetry
  <2>2. Range(<<>>) = {}
    BY DEF Range
  <2> QED
    BY <1>1, <2>1, <2>2
<1>4. PICK e \in archive.manifest : e.path = a.path /\ e.path \in DOMAIN archive.telemetry
  <2>1. PICK e \in archive.manifest : /\ e.intact /\ a.path = e.path /\ a.kind = e.kind
                                      /\ a.verified = (e.sha256 = Stored(archive, e))
    BY DEF Artifacts
  <2>2. e.path \in DOMAIN archive.stored
    <3>1. e.sha256 # NoPid
      BY <2>1 DEF Recordable, NoPid
    <3> QED
      BY <1>3, <2>1, <3>1 DEF Stored
  <2> QED
    BY <1>1, <2>1, <2>2 DEF Recordable
<1>5. rows \in Seq(Range(rows)) /\ \A row \in Range(rows) : SysmonRow(row)
  BY <1>4 DEF Recordable
<1>6. DOMAIN rows = 1..Len(rows) /\ Len(rows) \in Nat /\ bad \in SUBSET Nat /\ bad \subseteq 1..Len(rows)
  BY <1>5 DEF Broken
<1>7. Telemetry(archive, a).rows = IF bad = {} THEN rows ELSE SubSeq(rows, 1, Min(bad) - 1)
  BY <1>3 DEF Telemetry, Broken
<1>8. \E i \in DOMAIN rows : r = rows[i] /\ \A b \in bad : i < b
  <2>1. CASE bad = {}
    BY <1>1, <1>7, <2>1 DEF Range
  <2>2. CASE bad # {}
    <3>1. Min(bad) \in bad /\ \A b \in bad : Min(bad) <= b
      BY <1>6, <2>2, MinNumber
    <3> DEFINE n == Min(bad) - 1
    <3>2. n \in Nat /\ n < Len(rows) /\ \A b \in bad : n < b /\ b \in Nat
      <4> HIDE DEF bad, rows
      <4>1. Min(bad) \in 1..Len(rows) /\ Len(rows) \in Nat
        BY <1>6, <3>1
      <4> QED
        BY <1>6, <3>1, <4>1
    <3> HIDE DEF n, bad
    <3>3. SubSeq(rows, 1, n) = [i \in 1..n |-> rows[i]]
      BY <1>5, <3>2
    <3>4. PICK i \in 1..n : r = rows[i]
      <4>1. Telemetry(archive, a).rows = [i \in 1..n |-> rows[i]]
        BY <1>7, <2>2, <3>3 DEF n
      <4> DEFINE taken == [i \in 1..n |-> rows[i]]
      <4>2. r \in Range(taken) /\ DOMAIN taken = 1..n /\ \A i \in 1..n : taken[i] = rows[i]
        BY <1>1, <4>1
      <4> HIDE DEF taken
      <4> QED
        BY <4>2 DEF Range
    <3>5. i \in DOMAIN rows
      <4> HIDE DEF rows
      <4>1. i \in Nat /\ 1 <= i /\ i <= Len(rows)
        BY <1>6, <3>2
      <4> QED
        BY <1>6, <4>1
    <3>6. \A b \in bad : i < b
      <4> HIDE DEF rows
      <4>1. i \in Nat /\ i <= n
        BY <3>2
      <4> QED
        BY <3>2, <4>1
    <3> HIDE DEF rows
    <3> QED
      BY <3>4, <3>5, <3>6
  <2> QED
    BY <2>1, <2>2
<1>9. r.id \in Nat /\ r.at \in Int /\ r.pid \in Nat
  <2>1. r \in Range(rows)
    BY <1>8 DEF Range
  <2> QED
    BY <1>5, <2>1 DEF SysmonRow
<1>10. InOrder(rows, r)
  BY <1>8 DEF InOrder
<1> QED
  BY <1>2, <1>4, <1>9, <1>10

\* What a record of telemetry says of its process.
Recorded(parent, r) ==
    [id |-> r.id, pid |-> r.pid,
     parent |-> IF r.event \in {"start", "stop"} /\ r.parent >= 0 THEN r.parent ELSE parent,
     at |-> r.at, status |-> ProcessStatus(r), image |-> r.image,
     command |-> IF r.event = "start" THEN r.command ELSE {}, guid |-> r.guid,
     event |-> IF r.event \in {"start", "stop"} THEN "" ELSE r.event,
     object |-> r.object, payload |-> ""]

LEMMA RecordedFields ==
    ASSUME NEW parent, NEW r
    PROVE  LET o == Recorded(parent, r)
           IN  /\ o.id = r.id /\ o.pid = r.pid /\ o.at = r.at /\ o.status = ProcessStatus(r)
               /\ {"id", "pid", "at"} \subseteq DOMAIN o
BY DEF Recorded

\* An observation is one of a row of the guest or of a record of telemetry.
LEMMA ObservationsMade ==
    ASSUME NEW archive, NEW spent, NEW imported, Parts(archive, spent, imported)
    PROVE  \A p \in RunOf(archive).processes : \A o \in p.observations :
              /\ o.pid = p.pid /\ {"id", "pid", "at"} \subseteq DOMAIN o
              /\ \/ \E r \in Usable("process", LoadAll(spent, archive).rows["process"]) : o = Observation(r)
                 \/ \E r \in imported :
                       o = Recorded(ProcessOf(r.pid, Usable("process", LoadAll(spent, archive).rows["process"])).parent, r)
<1> DEFINE U == Usable("process", LoadAll(spent, archive).rows["process"])
<1> SUFFICES ASSUME NEW p \in RunOf(archive).processes, NEW o \in p.observations
             PROVE  /\ o.pid = p.pid /\ {"id", "pid", "at"} \subseteq DOMAIN o
                    /\ \/ \E r \in U : o = Observation(r)
                       \/ \E r \in imported : o = Recorded(ProcessOf(r.pid, U).parent, r)
  OBVIOUS
<1>1. PICK pid : p = AddObservations(ProcessOf(pid, U), imported)
  <2>1. PICK known \in Processes(LoadAll(spent, archive).rows["process"]) : p = AddObservations(known, imported)
    BY DEF Parts
  <2>2. \E pid : known = ProcessOf(pid, U)
    BY DEF Processes
  <2> QED
    BY <2>1, <2>2
<1> DEFINE q == ProcessOf(pid, U)
           Added == {Recorded(q.parent, r) : r \in {s \in imported : s.pid = q.pid /\ s.kind = "process"}}
<1>2. q = [pid |-> q.pid, parent |-> q.parent, image |-> q.image, at |-> q.at, observations |-> q.observations]
  BY DEF ProcessOf
<1>3. q.pid = pid /\ q.observations = {Observation(r) : r \in {s \in U : s.pid = pid}}
  BY DEF ProcessOf
<1>4. p = [q EXCEPT !.observations = @ \cup Added]
  BY <1>1 DEF AddObservations, Recorded
<1>5. p.pid = q.pid /\ p.observations = q.observations \cup Added
  <2> HIDE DEF q, Added
  <2> QED BY <1>2, <1>4
<1>6. CASE o \in q.observations
  <2>1. PICK r \in U : r.pid = pid /\ o = Observation(r)
    BY <1>3, <1>6
  <2>2. o.pid = r.pid /\ {"id", "pid", "at"} \subseteq DOMAIN o
    BY <2>1 DEF Observation
  <2> HIDE DEF U, q
  <2> QED
    BY <1>3, <1>5, <2>1, <2>2
<1>7. CASE o \in Added
  <2>1. PICK r \in imported : r.pid = q.pid /\ r.kind = "process" /\ o = Recorded(q.parent, r)
    BY <1>7
  <2>2. o.pid = r.pid /\ {"id", "pid", "at"} \subseteq DOMAIN o
    BY <2>1, RecordedFields
  <2>3. q = ProcessOf(r.pid, U)
    BY <1>3, <2>1
  <2> HIDE DEF q
  <2> QED
    BY <1>5, <2>1, <2>2, <2>3
<1> QED
  BY <1>5, <1>6, <1>7

\* An event is given to a process by its number.
LEMMA OwnerNumber ==
    ASSUME NEW rows, Timed(rows), NEW row, row.at \in 0..Forever, row.pid \in Int,
           NEW archive, archive.root \in Nat
    PROVE  Owner(archive, ProcessesOf(rows), row).pid \in Nat
<1>1. CASE row.pid >= 0
  <2>1. Explicit(row.pid) = row.pid /\ row.pid # NoPid
    BY <1>1 DEF Explicit, NoPid
  <2>2. Owner(archive, ProcessesOf(rows), row).pid = row.pid
    BY <2>1 DEF Owner, Associate, ForPid
  <2> QED
    BY <1>1, <2>2
<1>2. CASE ~(row.pid >= 0)
  <2>1. Owner(archive, ProcessesOf(rows), row) = Associate(ProcessesOf(rows), NoPid, row.at, archive.root)
    BY <1>2 DEF Owner, Explicit
  <2> DEFINE owner == Associate(ProcessesOf(rows), NoPid, row.at, archive.root)
  <2>2. owner.pid = archive.root \/ \E r \in rows : owner.pid = r.pid
    BY NearestWins DEF NearestRow, AliveRows
  <2> HIDE DEF owner
  <2>3. owner.pid \in Nat
    BY <2>2 DEF Timed
  <2> QED
    BY <2>1, <2>3 DEF owner
<1> QED
  BY <1>1, <1>2

\* Which process a row of the guest is given to.
PidOf(kind, archive, processes, row) ==
    IF kind = "process" THEN row.pid ELSE Owner(archive, processes, row).pid

\* The rows of a kind that are used, and the processes they tell of.
UsedRows(archive, spent, kind) == Usable(kind, LoadAll(spent, archive).rows[kind])

LEMMA UsedNumbers ==
    ASSUME NEW archive, NEW spent, NEW imported, Parts(archive, spent, imported), Recordable(archive)
    PROVE  /\ \A k \in Kinds : \A r \in UsedRows(archive, spent, k) :
                 /\ r.id \in Nat /\ r.at \in Nat
                 /\ PidOf(k, archive, ProcessesOf(UsedRows(archive, spent, "process")), r) \in Nat
           /\ Processes(LoadAll(spent, archive).rows["process"]) = ProcessesOf(UsedRows(archive, spent, "process"))
<1> DEFINE rows == LoadAll(spent, archive).rows
           U == Usable("process", rows["process"])
           processes == Processes(rows["process"])
<1>1. \A k \in Kinds : \A r \in Usable(k, rows[k]) :
         r.id \in Nat /\ r.at \in Nat /\ r.at \in 0..Forever /\ r.pid \in Int /\ (k = "process" => r.pid \in Nat)
  <2> SUFFICES ASSUME NEW k \in Kinds, NEW r \in Usable(k, rows[k])
               PROVE  r.id \in Nat /\ r.at \in Nat /\ r.at \in 0..Forever /\ r.pid \in Int /\ (k = "process" => r.pid \in Nat)
    OBVIOUS
  <2>1. r \in archive.events[k].rows \cup archive.fallback[k]
    BY RowsUsed DEF Usable
  <2>2. r.id \in Nat
    BY <2>1 DEF Recordable, EventRow
  <2>3. r.at \in 0..Forever /\ r.pid \in Int /\ (k = "process" => r.pid \in Nat)
    BY UsableTimed
  <2> QED
    BY <2>2, <2>3, LatestTime
<1>2. Timed(U) /\ processes = ProcessesOf(U)
  BY <1>1 DEF Timed, Kinds, Processes, ProcessesOf
<1>3. archive.root \in Nat
  BY DEF Recordable
<1>4. ASSUME NEW k \in Kinds, NEW r \in Usable(k, rows[k]) PROVE PidOf(k, archive, ProcessesOf(U), r) \in Nat
  <2>1. CASE k = "process"
    BY <1>1, <2>1 DEF PidOf
  <2>2. CASE k # "process"
    <3> HIDE DEF U, rows
    <3>1. Owner(archive, ProcessesOf(U), r).pid \in Nat
      BY <1>1, <1>2, <1>3, OwnerNumber
    <3> QED
      BY <2>2, <3>1 DEF PidOf
  <2> QED
    BY <2>1, <2>2
<1> QED
  BY <1>1, <1>2, <1>4 DEF UsedRows

\* An event is one of a row of the guest or of a record of telemetry.
MadeOfRow(archive, spent, kind, r, e) ==
    /\ e.id = r.id /\ e.at = r.at
    /\ e.pid = PidOf(kind, archive, ProcessesOf(UsedRows(archive, spent, "process")), r)

MadeOfRecord(r, e) == e.id = r.id /\ e.at = r.at /\ e.pid = r.pid

Events(run) == Observations(run) \cup run.files \cup run.registry \cup run.network

LEMMA EventsMade ==
    ASSUME NEW archive, NEW spent, NEW imported, Parts(archive, spent, imported), Recordable(archive)
    PROVE  \A e \in Events(RunOf(archive)) :
              \/ \E k \in Kinds : \E r \in UsedRows(archive, spent, k) : MadeOfRow(archive, spent, k, r, e)
              \/ \E r \in imported : MadeOfRecord(r, e)
<1> DEFINE rows == LoadAll(spent, archive).rows
           U == UsedRows(archive, spent, "process")
           processes == Processes(rows["process"])
           run == RunOf(archive)
           Made(e) == \/ \E k \in Kinds : \E r \in UsedRows(archive, spent, k) : MadeOfRow(archive, spent, k, r, e)
                      \/ \E r \in imported : MadeOfRecord(r, e)
<1>1. processes = ProcessesOf(U)
  BY UsedNumbers
<1>2. \A k : UsedRows(archive, spent, k) = Usable(k, rows[k])
  BY DEF UsedRows
<1>3. \A e \in Observations(run) : Made(e)
  <2> SUFFICES ASSUME NEW p \in run.processes, NEW o \in p.observations PROVE Made(o)
    BY DEF Observations
  <2>1. CASE \E r \in U : o = Observation(r)
    <3>1. PICK r \in U : o = Observation(r)
      BY <2>1
    <3>2. o.id = r.id /\ o.pid = r.pid /\ o.at = r.at
      BY <3>1 DEF Observation
    <3> QED
      BY <3>2 DEF MadeOfRow, PidOf, Kinds
  <2>2. CASE \E r \in imported : o = Recorded(ProcessOf(r.pid, U).parent, r)
    BY <2>2, RecordedFields DEF MadeOfRecord
  <2> QED
    BY <1>2, <2>1, <2>2, ObservationsMade
<1> DEFINE owner(r) == Owner(archive, processes, r)
<1>4. ASSUME NEW k \in Kinds \ {"process"}, NEW r \in UsedRows(archive, spent, k),
             NEW e, e.id = r.id, e.at = r.at, e.pid = owner(r).pid
      PROVE  Made(e)
  BY <1>1, <1>4 DEF MadeOfRow, PidOf
<1> HIDE DEF U, Made
<1>5. \A e \in FileEvents(archive, processes, rows["filesystem"]) : Made(e)
  <2> HIDE DEF processes, rows
  <2>1. \A e \in FileEvents(archive, processes, rows["filesystem"]) : \E r \in Usable("filesystem", rows["filesystem"]) :
           e.id = r.id /\ e.at = r.at /\ e.pid = Owner(archive, processes, r).pid
    BY DEF FileEvents
  <2> QED
    BY <1>2, <1>4, <2>1 DEF Kinds
<1>6. \A e \in RegistryEvents(archive, processes, rows["registry"]) : Made(e)
  <2> HIDE DEF processes, rows
  <2>1. \A e \in RegistryEvents(archive, processes, rows["registry"]) : \E r \in Usable("registry", rows["registry"]) :
           e.id = r.id /\ e.at = r.at /\ e.pid = Owner(archive, processes, r).pid
    BY DEF RegistryEvents
  <2> QED
    BY <1>2, <1>4, <2>1 DEF Kinds
<1>7. \A e \in NetworkEvents(archive, processes, rows["network"]) : Made(e)
  <2> HIDE DEF processes, rows
  <2>1. \A e \in NetworkEvents(archive, processes, rows["network"]) : \E r \in Usable("network", rows["network"]) :
           e.id = r.id /\ e.at = r.at /\ e.pid = Owner(archive, processes, r).pid
    <3> DEFINE dns(r) == r.protocol = "dns" /\ Given(r.remote)
               made(r) == [id |-> r.id, pid |-> owner(r).pid, parent |-> owner(r).parent,
                           inferred |-> owner(r).inferred \/ r.attributed, at |-> r.at, protocol |-> r.protocol,
                           direction |-> r.direction, state |-> r.state, local |-> r.local,
                           remote |-> IF dns(r) THEN "" ELSE r.remote, domain |-> IF dns(r) THEN r.remote ELSE r.domain,
                           answers |-> r.answers, guid |-> r.guid, flow |-> r.flow]
    <3>1. NetworkEvents(archive, processes, rows["network"]) = {made(r) : r \in Usable("network", rows["network"])}
      BY DEF NetworkEvents
    <3>2. ASSUME NEW r PROVE made(r).id = r.id /\ made(r).at = r.at /\ made(r).pid = owner(r).pid
      OBVIOUS
    <3> HIDE DEF made
    <3> QED
      BY <3>1, <3>2
  <2> QED
    BY <1>2, <1>4, <2>1 DEF Kinds
<1>8. \A e \in ImportedFiles(processes, imported) \cup ImportedRegistry(processes, imported)
             \cup ImportedNetwork(processes, imported) : Made(e)
  <2> HIDE DEF processes
  <2>1. \A e \in ImportedFiles(processes, imported) \cup ImportedRegistry(processes, imported)
                \cup ImportedNetwork(processes, imported) :
           \E r \in imported : e.id = r.id /\ e.at = r.at /\ e.pid = r.pid
    BY DEF ImportedFiles, ImportedRegistry, ImportedNetwork
  <2> QED
    BY <2>1 DEF MadeOfRecord, Made
<1>9. /\ run.files = FileEvents(archive, processes, rows["filesystem"]) \cup ImportedFiles(processes, imported)
      /\ run.registry = RegistryEvents(archive, processes, rows["registry"]) \cup ImportedRegistry(processes, imported)
      /\ run.network = NetworkEvents(archive, processes, rows["network"]) \cup ImportedNetwork(processes, imported)
  BY DEF Parts
<1> HIDE DEF rows, processes, run
<1>10. \A e \in Events(run) : Made(e)
  BY <1>3, <1>5, <1>6, <1>7, <1>8, <1>9 DEF Events
<1> QED
  BY <1>10 DEF run, Made

\* The numbers of an event.
Counted(e) == e.id \in Nat /\ e.pid \in Nat /\ e.at \in Nat

LEMMA EventsCounted ==
    ASSUME NEW archive, NEW spent, NEW imported, Parts(archive, spent, imported), Recordable(archive)
    PROVE  \A e \in Events(RunOf(archive)) : Counted(e)
<1> SUFFICES ASSUME NEW e \in Events(RunOf(archive)) PROVE Counted(e)
  OBVIOUS
<1>1. CASE \E k \in Kinds : \E r \in UsedRows(archive, spent, k) : MadeOfRow(archive, spent, k, r, e)
  BY <1>1, UsedNumbers DEF MadeOfRow, Counted
<1>2. CASE \E r \in imported : MadeOfRecord(r, e)
  BY <1>2, TelemetryRows DEF MadeOfRecord, Counted
<1> QED
  BY <1>1, <1>2, EventsMade

-----------------------------------------------------------------------------
\* The activities of a run.

LEMMA KindsRanked ==
    /\ DOMAIN ActivityKinds = 1..22
    /\ \A kind \in Range(ActivityKinds) : KindRank(kind) \in 1..22 /\ ActivityKinds[KindRank(kind)] = kind
<1>1. DOMAIN ActivityKinds = 1..22
  BY DEF ActivityKinds
<1>2. ASSUME NEW kind \in Range(ActivityKinds)
      PROVE  KindRank(kind) \in 1..22 /\ ActivityKinds[KindRank(kind)] = kind
  <2>1. \E i \in DOMAIN ActivityKinds : ActivityKinds[i] = kind
    BY DEF Range
  <2> QED
    BY <1>1, <2>1 DEF KindRank
<1> QED
  BY <1>1, <1>2

\* What an activity is: of an event, with its process and its time.
ActivityOf(a, e) ==
    /\ a.id = e.id /\ a.pid = e.pid /\ a.time = e.at
    /\ a.kind \in Range(ActivityKinds)

LEMMA KindsNamed ==
    /\ {"write_exe", "launch", "persistence", "service_modify", "task_modify", "startup_write", "process_access",
        "injection", "credential_read", "security_change", "dns_answer", "connect", "write_script", "script_launch",
        "interpreter", "packed_anti_analysis", "pipe_create", "pipe_connect"} \subseteq Range(ActivityKinds)
    /\ SecurityEvents \subseteq Range(ActivityKinds)
<1>1. \A i \in 1..22 : ActivityKinds[i] \in Range(ActivityKinds)
  BY DEF ActivityKinds, Range
<1>2. /\ ActivityKinds[1] = "anti_debug" /\ ActivityKinds[2] = "connect" /\ ActivityKinds[3] = "credential_read"
      /\ ActivityKinds[4] = "dns_answer" /\ ActivityKinds[5] = "injection" /\ ActivityKinds[6] = "interpreter"
      /\ ActivityKinds[7] = "launch" /\ ActivityKinds[8] = "packed_anti_analysis" /\ ActivityKinds[9] = "persistence"
      /\ ActivityKinds[10] = "pipe_connect" /\ ActivityKinds[11] = "pipe_create" /\ ActivityKinds[12] = "process_access"
      /\ ActivityKinds[13] = "sandbox_probe" /\ ActivityKinds[14] = "script_launch" /\ ActivityKinds[15] = "security_change"
      /\ ActivityKinds[16] = "service_modify" /\ ActivityKinds[17] = "service_start" /\ ActivityKinds[18] = "startup_write"
      /\ ActivityKinds[19] = "task_modify" /\ ActivityKinds[20] = "telemetry_tamper" /\ ActivityKinds[21] = "write_exe"
      /\ ActivityKinds[22] = "write_script"
  BY DEF ActivityKinds
<1> QED
  BY <1>1, <1>2 DEF SecurityEvents

LEMMA ActivityFields ==
    ASSUME NEW kind \in Range(ActivityKinds), NEW e, NEW object, NEW auxiliary, NEW inferred
    PROVE  ActivityOf(Activity(kind, e, object, auxiliary, inferred), e)
BY DEF Activity, ActivityOf

LEMMA OfEvent ==
    ASSUME NEW e
    PROVE  \A a \in OfObservation(e) \cup OfFile(e) \cup OfRegistry(e) \cup OfNetwork(e) : ActivityOf(a, e)
<1> DEFINE IsKind(kind) == kind \in Range(ActivityKinds)
           Of(a, kind) == \E object, auxiliary, inferred : a = Activity(kind, e, object, auxiliary, inferred)
           Good(a) == \E kind : IsKind(kind) /\ Of(a, kind)
<1>1. /\ IsKind("write_exe") /\ IsKind("launch") /\ IsKind("persistence") /\ IsKind("service_modify")
      /\ IsKind("startup_write") /\ IsKind("injection") /\ IsKind("credential_read") /\ IsKind("security_change")
      /\ IsKind("dns_answer") /\ IsKind("connect") /\ IsKind("write_script") /\ IsKind("script_launch")
      /\ IsKind("interpreter") /\ IsKind("pipe_create") /\ IsKind("pipe_connect")
      /\ \A kind \in SecurityEvents : IsKind(kind)
  BY KindsNamed
<1> HIDE DEF IsKind
<1>2. \A a \in OfObservation(e) : Good(a)
  BY <1>1 DEF OfObservation, If
<1>3. \A a \in OfFile(e) : Good(a)
  BY <1>1 DEF OfFile, If
<1>4. \A a \in OfRegistry(e) : Good(a)
  BY <1>1 DEF OfRegistry, If
<1>5. \A a \in OfNetwork(e) : Good(a)
  BY <1>1 DEF OfNetwork, If
<1>6. \A a : Good(a) => ActivityOf(a, e)
  BY ActivityFields DEF IsKind
<1> QED
  BY <1>2, <1>3, <1>4, <1>5, <1>6

\* An activity of a run: of known evidence, that was seen where and when it says.
Placed(run, a) ==
    /\ a.id \in Nat /\ a.pid \in Nat /\ a.time \in Nat /\ a.kind \in Range(ActivityKinds)
    /\ a.id \in Resolved(run) /\ [id |-> a.id, pid |-> a.pid, at |-> a.time] \in Seen(run)

LEMMA ActivitiesPlaced ==
    ASSUME NEW archive, NEW spent, NEW imported, Parts(archive, spent, imported), Recordable(archive)
    PROVE  \A a \in Activities(RunOf(archive)) : Placed(RunOf(archive), a)
<1> DEFINE run == RunOf(archive)
           events == Observations(run) \cup run.files \cup run.registry \cup run.network
<1>1. \A e \in events : Counted(e)
  BY EventsCounted DEF Events
<1>2. \A s \in run.detection.stages : Traced(run, s.evidence)
  BY StagesTraced
<1>3. \A o \in Observations(run) : {"id", "pid", "at"} \subseteq DOMAIN o
  BY ObservationsMade DEF Observations
<1>4. \A o \in RootObservation(run) : o \in Observations(run) /\ o.pid = run.root
  <2>1. \A p \in run.processes : \A o \in p.observations : o.pid = p.pid
    BY ObservationsMade
  <2> HIDE DEF run
  <2> QED
    BY <2>1 DEF RootObservation, Observations
<1> HIDE DEF run
<1>5. \A e \in events : e.id \in Resolved(run) /\ [id |-> e.id, pid |-> e.pid, at |-> e.at] \in Seen(run)
  <2> DEFINE where(e) == [id |-> e.id, pid |-> e.pid, at |-> e.at]
  <2>1. Seen(run) = {where(e) : e \in Observations(run)} \cup {where(e) : e \in run.files}
                    \cup {where(e) : e \in run.registry} \cup {where(e) : e \in run.network}
                    \cup {[id |-> id, pid |-> run.root, at |-> o.at] :
                            id \in UNION {s.evidence : s \in run.detection.stages}, o \in RootObservation(run)}
    BY DEF Seen
  <2> HIDE DEF where
  <2>2. \A e \in events : where(e) \in Seen(run)
    BY <2>1
  <2>3. \A e \in events : e.id \in Resolved(run)
    BY DEF Resolved, EventIds
  <2> QED
    BY <2>2, <2>3 DEF where
<1>6. ASSUME NEW e \in events, NEW a, ActivityOf(a, e) PROVE Placed(run, a)
  BY <1>1, <1>5, <1>6 DEF ActivityOf, Counted, Placed
<1>7. ASSUME NEW a \in OfTarget(run) PROVE Placed(run, a)
  <2> DEFINE o == CHOOSE first \in RootObservation(run) : TRUE
  <2>1. RootObservation(run) # {}
    BY <1>7 DEF OfTarget
  <2>2. o \in RootObservation(run)
    BY <2>1
  <2>3. PICK c \in PrimaryCapabilities(run) :
           a = Activity("packed_anti_analysis", [o EXCEPT !.id = Min(c.evidence)], run.hash, "", FALSE)
    BY <1>7 DEF OfTarget
  <2>4. PICK s \in run.detection.stages : c.evidence = s.evidence
    BY DEF PrimaryCapabilities
  <2> DEFINE id == Min(c.evidence)
             e == [o EXCEPT !.id = id]
  <2>5. id \in s.evidence /\ id \in Nat /\ id \in Resolved(run)
    BY <1>2, <2>4, MinNumber DEF Traced, Cites
  <2> HIDE DEF o
  <2>6. o.pid = run.root /\ o.at \in Nat /\ o.pid \in Nat /\ {"id", "pid", "at"} \subseteq DOMAIN o
    BY <1>1, <1>3, <1>4, <2>2 DEF Counted
  <2> HIDE DEF id
  <2>7. e.id = id /\ e.pid = o.pid /\ e.at = o.at
    BY <2>6
  <2> HIDE DEF e
  <2>8. ActivityOf(a, e)
    BY <2>3, KindsNamed, ActivityFields DEF e, id
  <2>9. [id |-> id, pid |-> run.root, at |-> o.at] \in Seen(run)
    <3>1. id \in UNION {t.evidence : t \in run.detection.stages}
      BY <2>5
    <3> DEFINE where(i, first) == [id |-> i, pid |-> run.root, at |-> first.at]
               others == {[id |-> event.id, pid |-> event.pid, at |-> event.at] : event \in Observations(run)}
                         \cup {[id |-> event.id, pid |-> event.pid, at |-> event.at] : event \in run.files}
                         \cup {[id |-> event.id, pid |-> event.pid, at |-> event.at] : event \in run.registry}
                         \cup {[id |-> event.id, pid |-> event.pid, at |-> event.at] : event \in run.network}
    <3>2. Seen(run) = others \cup {where(i, first) : i \in UNION {t.evidence : t \in run.detection.stages},
                                                   first \in RootObservation(run)}
      BY DEF Seen
    <3> HIDE DEF where, others
    <3>3. where(id, o) \in Seen(run)
      BY <2>2, <3>1, <3>2
    <3> QED
      BY <3>3 DEF where
  <2> QED
    BY <2>5, <2>6, <2>7, <2>8, <2>9 DEF ActivityOf, Placed
<1>8. ASSUME NEW a \in Activities(run) PROVE Placed(run, a)
  <2>1. \/ a \in OfTarget(run)
        \/ \E e \in events : a \in OfObservation(e) \cup OfFile(e) \cup OfRegistry(e) \cup OfNetwork(e)
    BY <1>8 DEF Activities, Observations
  <2> HIDE DEF events
  <2> QED
    BY <1>6, <1>7, <2>1, OfEvent
<1> QED
  BY <1>8 DEF run

\* Of some activities one is the first.
LEMMA FirstExists ==
    ASSUME NEW run, NEW events, events # {}, \A a \in events : Placed(run, a)
    PROVE  First(events) # {}
<1> DEFINE Times == [a \in events |-> a.time]
           Numbers == [a \in events |-> a.pid]
<1>1. Times \in [events -> Nat] /\ Numbers \in [events -> Nat]
  BY DEF Placed
<1>2. PICK x \in events : \A y \in events : x.time < y.time \/ (x.time = y.time /\ x.pid <= y.pid)
  <2>1. \A y \in events : Times[y] = y.time /\ Numbers[y] = y.pid
    OBVIOUS
  <2> HIDE DEF Times, Numbers
  <2>2. \E x \in events : \A y \in events : Times[x] < Times[y] \/ (Times[x] = Times[y] /\ Numbers[x] <= Numbers[y])
    BY <1>1, LeastPair
  <2> QED
    BY <2>1, <2>2
<1> DEFINE like == {a \in events : a.time = x.time /\ a.pid = x.pid}
           Ranks == [a \in like |-> KindRank(a.kind)]
           Ids == [a \in like |-> a.id]
<1> DEFINE Ranked(a) == KindRank(a.kind) \in Nat
<1>3. \A a \in events : Ranked(a)
  <2>1. \A i \in 1..22 : i \in Nat
    OBVIOUS
  <2> QED
    BY <2>1, KindsRanked DEF Placed
<1>4. Ranks \in [like -> Nat] /\ Ids \in [like -> Nat] /\ like # {}
  BY <1>2, <1>3 DEF Placed
<1>5. PICK z \in like : \A y \in like : KindRank(z.kind) < KindRank(y.kind) \/ (KindRank(z.kind) = KindRank(y.kind) /\ z.id <= y.id)
  <2>1. \A y \in like : Ranks[y] = KindRank(y.kind) /\ Ids[y] = y.id
    OBVIOUS
  <2> HIDE DEF Ranks, Ids, like
  <2>2. \E z \in like : \A y \in like : Ranks[z] < Ranks[y] \/ (Ranks[z] = Ranks[y] /\ Ids[z] <= Ids[y])
    BY <1>4, LeastPair
  <2> QED
    BY <2>1, <2>2
<1>6. ASSUME NEW y \in events PROVE ~Earlier(y, z)
  <2>1. /\ y.time \in Nat /\ z.time \in Nat /\ y.pid \in Nat /\ z.pid \in Nat /\ y.id \in Nat /\ z.id \in Nat
        /\ KindRank(y.kind) \in Nat /\ KindRank(z.kind) \in Nat
    BY <1>3 DEF Placed
  <2>2. z.time < y.time \/ (z.time = y.time /\ z.pid <= y.pid)
    BY <1>2
  <2>3. z.time = y.time /\ z.pid = y.pid =>
           KindRank(z.kind) < KindRank(y.kind) \/ (KindRank(z.kind) = KindRank(y.kind) /\ z.id <= y.id)
    BY <1>5
  <2> QED
    BY <2>1, <2>2, <2>3 DEF Earlier
<1>7. z \in First(events)
  BY <1>6 DEF First
<1> QED
  BY <1>7

-----------------------------------------------------------------------------
\* The findings cite what is in the run.

LEMMA ClassicTraced ==
    ASSUME NEW run
    PROVE  \A f \in ClassicFindings(run) : Cites(run, f.evidence)
<1> DEFINE events == Observations(run) \cup run.files \cup run.registry \cup run.network
           Good(F) == \A f \in F : Cites(run, f.evidence)
<1>1. \A e \in events : e.id \in Resolved(run)
  BY DEF Resolved, EventIds
<1>2. ASSUME NEW id, NEW severity, NEW E \in SUBSET events
      PROVE  Good(ClassicRule(id, severity, E))
  <2> SUFFICES ASSUME NEW f \in ClassicRule(id, severity, E) PROVE Cites(run, f.evidence)
    OBVIOUS
  <2>1. E # {} /\ f.evidence = {e.id : e \in E}
    <3> DEFINE ids == {e.id : e \in E}
    <3>1. E # {} /\ \E score : f = Finding(id, <<>>, "", score, severity, ids)
      BY DEF ClassicRule, If
    <3> HIDE DEF ids, events, Good
    <3>2. \A score : Finding(id, <<>>, "", score, severity, ids).evidence = ids
      BY DEF Finding
    <3> QED
      BY <3>1, <3>2 DEF ids
  <2> HIDE DEF events
  <2> QED
    BY <1>1, <2>1 DEF Cites
<1>3. Burst(run) \subseteq run.files
  <2> DEFINE distinct == DistinctFiles(run)
             within(f) == {g \in distinct : g.at >= f.at /\ g.at - f.at <= MassWindow}
             most == Max({0} \cup {Cardinality(within(f)) : f \in distinct})
             first == {f \in distinct : /\ Cardinality(within(f)) = most
                                     /\ \A g \in distinct : Cardinality(within(g)) = most => f.at <= g.at}
  <2>1. Burst(run) = IF most < MassFiles THEN {} ELSE UNION {within(f) : f \in first}
    BY DEF Burst
  <2>2. distinct \subseteq run.files
    BY DEF DistinctFiles
  <2> HIDE DEF distinct, most, first
  <2> QED
    BY <2>1, <2>2
<1>4. ChildObservations(run) \subseteq Observations(run)
  BY DEF ChildObservations, Observations
<1> DEFINE C(id, severity, E) == ClassicRule(id, severity, E)
           massive == IF Cardinality(Burst(run)) >= 2 * MassFiles THEN "malicious" ELSE "suspicious"
           c1 == C("network_dns_request", "informational", {n \in run.network : n.protocol = "dns"})
           c2 == C("blocked_outbound_connection", "informational", {n \in run.network : Refused(n)})
           c3 == C("child_process_created", "informational", ChildObservations(run))
           c4 == C("ntfs_alternate_data_stream", "suspicious", {f \in run.files : AlternateStream(f)})
           c5 == C("suspicious_registry_autostart", "suspicious",
                   {r \in run.registry : Writes(r.operation) /\ (Autostart(r.key) \/ Service(r.key, r.name))})
           c6 == C("script_interpreter_network", "suspicious",
                   {n \in run.network : \E p \in run.processes : p.pid = n.pid /\ Interpreter(p.image)})
           c7 == C("process_injection", "malicious",
                   {o \in Observations(run) : o.event = "process_injection"})
           c8 == C("credential_store_access", "suspicious",
                   {r \in run.registry : Reads(r.operation) /\ SecretKey(r.key)})
           c9 == C("mass_file_modification", massive, Burst(run))
<1>5. ClassicFindings(run) = c1 \cup c2 \cup c3 \cup c4 \cup c5 \cup c6 \cup c7 \cup c8 \cup c9
  BY DEF ClassicFindings, MassFileFinding
<1>6. Good(c1) /\ Good(c2) /\ Good(c3) /\ Good(c4) /\ Good(c5) /\ Good(c6) /\ Good(c7) /\ Good(c8) /\ Good(c9)
  <2> HIDE DEF Good, massive
  <2>1. /\ {n \in run.network : n.protocol = "dns"} \in SUBSET events
        /\ {n \in run.network : Refused(n)} \in SUBSET events
        /\ ChildObservations(run) \in SUBSET events
        /\ {f \in run.files : AlternateStream(f)} \in SUBSET events
        /\ {r \in run.registry : Writes(r.operation) /\ (Autostart(r.key) \/ Service(r.key, r.name))} \in SUBSET events
        /\ {n \in run.network : \E p \in run.processes : p.pid = n.pid /\ Interpreter(p.image)} \in SUBSET events
        /\ {o \in Observations(run) : o.event = "process_injection"} \in SUBSET events
        /\ {r \in run.registry : Reads(r.operation) /\ SecretKey(r.key)} \in SUBSET events
        /\ Burst(run) \in SUBSET events
    BY <1>3, <1>4
  <2> HIDE DEF events
  <2> QED
    BY <1>2, <2>1
<1> HIDE DEF c1, c2, c3, c4, c5, c6, c7, c8, c9
<1> QED
  BY <1>5, <1>6

\* What the rules about behaviour find, if it is placed.
LEMMA BuiltTraced ==
    ASSUME NEW run, \A a \in Activities(run) : Placed(run, a),
           \A s \in run.detection.stages : Traced(run, s.evidence)
    PROVE  \A f \in Build(run) : Cites(run, f.evidence)
<1> DEFINE index == [pid \in Pids(run) |-> History(run, pid)]
           events == Activities(run)
           done == ApplyRules(index, events)
           partial == If(done.checks > MaxPairs /\ events # {}, Partial(events))
<1> SUFFICES ASSUME run.detection.behavioral PROVE \A f \in Build(run) : Cites(run, f.evidence)
  BY DEF Build
<1>1. Build(run) = done.findings \cup partial \cup StaticConfirmation(run, index, events)
  BY DEF Build, BuildFromEvents, FindingsOf
<1>2. \A a \in events : a.id \in Resolved(run)
  BY DEF Placed
<1>3. MadeBy(done.findings, 16, index, events)
  BY RulesMake
<1>4. \A rule, about, group, score, severity, evidence :
         Finding(rule, about, group, score, severity, evidence).evidence = evidence
  BY DEF Finding
<1>5. events # {} => First(events) # {}
  BY FirstExists
<1> HIDE DEF index, events, done
<1>6. ASSUME NEW f \in done.findings PROVE Cites(run, f.evidence)
  <2>1. PICK i \in 1..16 : \E pairs \in SUBSET Matched(i, index, events) : pairs # {} /\ f = FoundBy(i, pairs)
    BY <1>3 DEF MadeBy
  <2>2. PICK pairs \in SUBSET Matched(i, index, events) : pairs # {} /\ f = FoundBy(i, pairs)
    BY <2>1
  <2>3. f.evidence = EvidenceOf(pairs)
    BY <1>4, <2>2 DEF FoundBy
  <2>4. \A p \in pairs : p[1] \in events /\ p[2] \in events
    BY DEF Matched, PairsOf
  <2>5. EvidenceOf(pairs) # {} /\ EvidenceOf(pairs) \subseteq Resolved(run)
    BY <1>2, <2>2, <2>4 DEF EvidenceOf
  <2> QED
    BY <2>3, <2>5 DEF Cites
<1>7. ASSUME NEW f \in partial PROVE Cites(run, f.evidence)
  <2>1. events # {} /\ f = Partial(events)
    BY <1>7 DEF If
  <2>2. f.evidence = {e.id : e \in First(events)}
    <3> DEFINE ids == {e.id : e \in First(events)}
    <3>1. f = Finding("FH-COVERAGE-001", <<>>, "", 0, "informational", ids)
      BY <2>1 DEF Partial
    <3> HIDE DEF ids, partial
    <3>2. f.evidence = ids
      BY <3>1 DEF Finding
    <3> QED
      BY <3>2 DEF ids
  <2>3. First(events) \subseteq events
    BY DEF First
  <2> QED
    BY <1>2, <1>5, <2>1, <2>2, <2>3 DEF Cites
<1>8. ASSUME NEW f \in StaticConfirmation(run, index, events) PROVE Cites(run, f.evidence)
  <2>1. \E c \in PrimaryCapabilities(run) : \E E \in SUBSET events : f.evidence = c.evidence \cup {e.id : e \in E}
    BY <1>8, StaticMade
  <2>2. PICK c \in PrimaryCapabilities(run) : \E E \in SUBSET events : f.evidence = c.evidence \cup {e.id : e \in E}
    BY <2>1
  <2>3. \E s \in run.detection.stages : c.evidence = s.evidence
    BY DEF PrimaryCapabilities
  <2> QED
    BY <1>2, <2>2, <2>3 DEF Traced, Cites
<1> HIDE DEF partial
<1> QED
  BY <1>1, <1>6, <1>7, <1>8

LEMMA FindingsTraced ==
    ASSUME NEW run, \A a \in Activities(run) : Placed(run, a),
           \A s \in run.detection.stages : Traced(run, s.evidence)
    PROVE  \A f \in Findings(run) : Cites(run, f.evidence)
<1>1. \A f \in ScannerFindings(run) : Cites(run, f.evidence)
  <2> SUFFICES ASSUME NEW f \in ScannerFindings(run) PROVE Cites(run, f.evidence)
    OBVIOUS
  <2>1. PICK S \in SUBSET run.detection.stages : S # {} /\ f.evidence = UNION {s.evidence : s \in S}
    BY ScannerSays
  <2>2. \A s \in S : s.evidence # {} /\ s.evidence \subseteq Resolved(run)
    BY DEF Traced, Cites
  <2> QED
    BY <2>1, <2>2 DEF Cites
<1>2. \A f \in AllFindings(run) : Cites(run, f.evidence)
  BY <1>1, ClassicTraced, BuiltTraced DEF AllFindings
<1>3. \A f \in AllFindings(run) : f = Finding(f.rule, f.about, f.group, f.score, f.severity, f.evidence)
  BY FindingsOfRules DEF OfRules
<1>4. Findings(run) = {Settled(Scoring(AllFindings(run)), f) : f \in AllFindings(run)}
  BY DEF Findings, DeduplicateScores, AllFindings, Settled
<1> QED
  BY <1>2, <1>3, <1>4, SettledKeeps

-----------------------------------------------------------------------------
\* No two findings have one identifier.

ToldApart(findings) == \A f, g \in findings : f.rule = g.rule /\ f.about = g.about => f = g

\* A result that left something was accepted, the first of its scanner about its target.
LEMMA KeptStage ==
    ASSUME NEW run, NEW config, NEW results, NEW a, StageOf(run, config, results, a).findings # {}
    PROVE  LET s == StageOf(run, config, results, a)
               said == results[Place(results, a)]
           IN  /\ Acceptable(run, config, results, a)
               /\ s.primary => said.target = "primary"
               /\ s.findings \subseteq said.found.findings
               /\ ~\E b \in ResultFiles(run) :
                     /\ EarlierFile(results, b, a) /\ Acceptable(run, config, results, b)
                     /\ b.kind = a.kind /\ results[Place(results, b)].target = said.target
<1> DEFINE s == StageOf(run, config, results, a)
           said == results[Place(results, a)]
           again == \E b \in ResultFiles(run) :
                       /\ EarlierFile(results, b, a) /\ Acceptable(run, config, results, b)
                       /\ b.kind = a.kind /\ results[Place(results, b)].target = said.target
           cited == {IdOf(run, alias) : alias \in Range(said.cites)} \cup {a.id}
           kept == Stage(a.kind, said.target = "primary", said.hash, said.status, said.found, cited)
           dropped == Stage(a.kind, FALSE, a.sha256, "InvalidOutput", NoFindings, {a.id})
<1>1. s = IF Acceptable(run, config, results, a) /\ ~again THEN kept ELSE dropped
  BY DEF StageOf
<1>2. dropped.findings = {}
  BY DEF Stage, NoFindings, Deduplicated
<1>3. kept.primary = (said.target = "primary") /\ kept.findings = Deduplicated(said.found.findings)
  <2> DEFINE primary == said.target = "primary"
             findings == Deduplicated(said.found.findings)
  <2>1. kept = [scanner |-> a.kind, primary |-> primary, hash |-> said.hash, status |-> said.status,
                evidence |-> cited, findings |-> findings, packets |-> said.found.packets,
                strings |-> said.found.strings, packed |-> said.found.packed]
    BY DEF Stage
  <2> HIDE DEF primary, findings, kept, cited, said
  <2>2. kept.primary = primary /\ kept.findings = findings
    BY <2>1
  <2> QED
    BY <2>2 DEF primary, findings
<1>4. Deduplicated(said.found.findings) \subseteq said.found.findings
  BY DEF Deduplicated
<1> HIDE DEF kept, dropped, again
<1>5. Acceptable(run, config, results, a) /\ ~again /\ s = kept
  BY <1>1, <1>2
<1> QED
  BY <1>3, <1>4, <1>5 DEF again

\* Of the files with results that were accepted one is the earlier.
LEMMA ResultsOrdered ==
    ASSUME NEW archive, NEW spent, NEW imported, Parts(archive, spent, imported), Recordable(archive),
           NEW a \in ResultFiles(Load(archive)), NEW b \in ResultFiles(Load(archive)), a.verified, b.verified
    PROVE  a = b \/ EarlierFile(archive.results, a, b) \/ EarlierFile(archive.results, b, a)
<1> DEFINE results == archive.results
<1>1. ASSUME NEW c \in ResultFiles(Load(archive)), c.verified
      PROVE  \E e \in archive.manifest :
                /\ c = [id |-> e.id, path |-> e.path, kind |-> e.kind, sha256 |-> e.sha256, size |-> e.size,
                        verified |-> e.sha256 = Stored(archive, e)]
                /\ c.id = e.id /\ c.id \in Nat /\ c.sha256 \in Nat
                /\ Place(results, c) \in Int /\ results[Place(results, c)].path = c.path
  <2>1. c \in Artifacts(archive) /\ c.kind \in ScannerNames
    BY DEF Parts, ResultFiles
  <2>2. PICK e \in archive.manifest :
           /\ e.intact
           /\ c = [id |-> e.id, path |-> e.path, kind |-> e.kind, sha256 |-> e.sha256, size |-> e.size,
                   verified |-> e.sha256 = Stored(archive, e)]
    BY <2>1 DEF Artifacts
  <2>3. /\ c.id = e.id /\ c.path = e.path /\ c.kind = e.kind /\ c.sha256 = e.sha256
        /\ c.verified = (e.sha256 = Stored(archive, e))
    BY <2>2
  <2>4. e.id \in Nat /\ e.sha256 \in Nat
    BY <2>2 DEF Recordable
  <2>5. e.path \in DOMAIN archive.stored
    <3>1. e.sha256 # NoPid
      BY <2>4 DEF NoPid
    <3>2. e.sha256 = Stored(archive, e)
      BY <1>1, <2>3
    <3> QED
      BY <3>1, <3>2 DEF Stored
  <2>6. \E i \in DOMAIN results : results[i].path = e.path
    BY <2>1, <2>2, <2>3, <2>5 DEF Recordable
  <2>7. Place(results, c) \in DOMAIN results /\ results[Place(results, c)].path = c.path
    BY <2>3, <2>6 DEF Place
  <2>8. \A i \in DOMAIN results : i \in Int
    <3>1. results \in Seq(Range(results))
      BY DEF Recordable
    <3> QED
      BY <3>1
  <2> QED
    BY <2>2, <2>3, <2>4, <2>7, <2>8
<1>2. PICK e \in archive.manifest :
         /\ a = [id |-> e.id, path |-> e.path, kind |-> e.kind, sha256 |-> e.sha256, size |-> e.size,
                 verified |-> e.sha256 = Stored(archive, e)]
         /\ a.id = e.id /\ a.id \in Nat /\ a.sha256 \in Nat
         /\ Place(results, a) \in Int /\ results[Place(results, a)].path = a.path
  BY <1>1
<1>3. PICK f \in archive.manifest :
         /\ b = [id |-> f.id, path |-> f.path, kind |-> f.kind, sha256 |-> f.sha256, size |-> f.size,
                 verified |-> f.sha256 = Stored(archive, f)]
         /\ b.id = f.id /\ b.id \in Nat /\ b.sha256 \in Nat
         /\ Place(results, b) \in Int /\ results[Place(results, b)].path = b.path
  BY <1>1
<1>4. a.id = b.id => a = b
  <2>1. e.id = f.id => e = f
    BY DEF Recordable, IdsTell
  <2> QED
    BY <1>2, <1>3, <2>1
<1>5. Place(results, a) = Place(results, b) => a.path = b.path
  BY <1>2, <1>3
<1> HIDE DEF results
<1>6. a = b \/ EarlierFile(results, a, b) \/ EarlierFile(results, b, a)
  <2>1. a.id \in Nat /\ b.id \in Nat /\ a.sha256 \in Nat /\ b.sha256 \in Nat
        /\ Place(results, a) \in Int /\ Place(results, b) \in Int
    BY <1>2, <1>3
  <2> QED
    BY <1>4, <1>5, <2>1 DEF EarlierFile
<1> QED
  BY <1>6 DEF results

\* A capability is told by its id: one result of its scanner counts for the target.
LEMMA CapabilitiesApart ==
    ASSUME NEW archive, NEW spent, NEW imported, Parts(archive, spent, imported), Recordable(archive)
    PROVE  \A c, d \in PrimaryCapabilities(RunOf(archive)) : c.id = d.id => c = d
<1> DEFINE run == RunOf(archive)
           loaded == Load(archive)
           config == EffectiveConfig(archive.config)
           said(a) == archive.results[Place(archive.results, a)]
           stage(a) == StageOf(loaded, config, archive.results, a)
           accepted(a) == Acceptable(loaded, config, archive.results, a)
           Counts(a) == a.kind = "capa" /\ accepted(a) /\ said(a).target = "primary"
           Leading(a) == ~\E b \in ResultFiles(loaded) : EarlierFile(archive.results, b, a) /\ Counts(b)
           capability(f, s) == [id |-> f.id, attack |-> f.attack, evidence |-> s.evidence]
<1>1. run.detection = Import(loaded, archive)
  BY DEF Parts
<1>2. ASSUME NEW c \in PrimaryCapabilities(run)
      PROVE  \E s \in run.detection.stages : \E f \in s.findings :
                s.scanner = "capa" /\ s.primary /\ c = capability(f, s)
  <2> HIDE DEF run
  <2> QED
    BY DEF PrimaryCapabilities
<1> HIDE DEF run
<1>3. ASSUME NEW s \in run.detection.stages, s.scanner = "capa", s.primary, s.findings # {}
      PROVE  \E a \in ResultFiles(loaded) :
                s = stage(a) /\ Counts(a) /\ Leading(a) /\ s.findings \subseteq said(a).found.findings
  <2>1. s \in StagesOf(loaded, archive)
    <3> HIDE DEF loaded
    <3> QED
      BY <1>1, <1>3, ImportParts
  <2>2. PICK a \in ResultFiles(loaded) : s = stage(a)
    BY <2>1 DEF StagesOf
  <2> HIDE DEF loaded, config
  <2>3. a.kind = "capa"
    BY <1>3, <2>2, CoveredStage
  <2>4. /\ accepted(a) /\ said(a).target = "primary" /\ s.findings \subseteq said(a).found.findings
        /\ ~\E b \in ResultFiles(loaded) :
              /\ EarlierFile(archive.results, b, a) /\ accepted(b)
              /\ b.kind = a.kind /\ said(b).target = said(a).target
    BY <1>3, <2>2, KeptStage
  <2> QED
    BY <2>2, <2>3, <2>4
<1>4. ASSUME NEW a \in ResultFiles(loaded), NEW b \in ResultFiles(loaded),
             Counts(a), Counts(b), Leading(a), Leading(b)
      PROVE  a = b
  <2>1. a.verified /\ b.verified
    <3> HIDE DEF loaded, config
    <3> QED BY <1>4 DEF Acceptable
  <2>2. a = b \/ EarlierFile(archive.results, a, b) \/ EarlierFile(archive.results, b, a)
    BY <2>1, ResultsOrdered
  <2> HIDE DEF loaded, Counts
  <2> QED
    BY <1>4, <2>2
<1>5. ASSUME NEW a, Counts(a)
      PROVE  \A f, g \in said(a).found.findings : f.id = g.id => f = g
  <2> HIDE DEF loaded, config
  <2> QED
    BY <1>5 DEF Acceptable, Parses, FindingsHold
<1> HIDE DEF loaded, stage, Counts, Leading, capability, said
<1>6. ASSUME NEW c \in PrimaryCapabilities(run), NEW d \in PrimaryCapabilities(run), c.id = d.id
      PROVE  c = d
  <2>1. PICK s \in run.detection.stages : \E f \in s.findings : s.scanner = "capa" /\ s.primary /\ c = capability(f, s)
    BY <1>2
  <2>2. PICK t \in run.detection.stages : \E g \in t.findings : t.scanner = "capa" /\ t.primary /\ d = capability(g, t)
    BY <1>2
  <2>3. PICK f \in s.findings : s.scanner = "capa" /\ s.primary /\ c = capability(f, s)
    BY <2>1
  <2>4. PICK g \in t.findings : t.scanner = "capa" /\ t.primary /\ d = capability(g, t)
    BY <2>2
  <2>5. PICK a \in ResultFiles(loaded) :
           s = stage(a) /\ Counts(a) /\ Leading(a) /\ s.findings \subseteq said(a).found.findings
    BY <1>3, <2>3
  <2>6. PICK b \in ResultFiles(loaded) :
           t = stage(b) /\ Counts(b) /\ Leading(b) /\ t.findings \subseteq said(b).found.findings
    BY <1>3, <2>4
  <2>7. a = b
    BY <1>4, <2>5, <2>6
  <2>8. f.id = g.id
    BY <1>6, <2>3, <2>4 DEF capability
  <2>9. f = g
    BY <1>5, <2>5, <2>6, <2>7, <2>8
  <2> QED
    BY <2>3, <2>4, <2>5, <2>6, <2>7, <2>9
<1> QED
  BY <1>6 DEF run

\* The names of what finds are different ones.
LEMMA NamesApart ==
    LET others == {"FH-B017", "FH-B018", "FH-COVERAGE-001", "scanner"}
    IN  /\ \A i \in 1..16 : RuleOrder[i] \notin ClassicNames \cup others
        /\ ClassicNames \cap others = {}
BY DEF RuleOrder, ClassicNames

\* What is known of each process of a run.
IndexOf(run) == [pid \in Pids(run) |-> History(run, pid)]

\* What the rules about behaviour find is told apart, and from what others find.
LEMMA BuiltApart ==
    ASSUME NEW run, \A c, d \in PrimaryCapabilities(run) : c.id = d.id => c = d
    PROVE  /\ ToldApart(Build(run))
           /\ \A f \in Build(run) : f.rule \notin ClassicNames \cup {"scanner"}
<1> DEFINE index == IndexOf(run)
           events == Activities(run)
           done == ApplyRules(index, events)
           static == StaticConfirmation(run, index, events)
           partial == If(done.checks > MaxPairs /\ events # {}, Partial(events))
<1>1. CASE ~run.detection.behavioral
  BY <1>1 DEF Build, ToldApart
<1>2. CASE run.detection.behavioral
  <2>1. Build(run) = done.findings \cup partial \cup static
    BY <1>2 DEF Build, BuildFromEvents, FindingsOf, IndexOf
  <2> HIDE DEF index, events
  <2>2. /\ \A f \in done.findings : \E i \in 1..16 : f.rule = RuleOrder[i]
        /\ \A f, g \in done.findings : f.rule = g.rule => f = g
    <3>1. MadeBy(done.findings, 16, index, events)
      BY RulesMake
    <3>2. \A i \in 1..16 : \A pairs : FoundBy(i, pairs).rule = RuleOrder[i]
      BY RulesPlaced DEF FoundBy, Finding
    <3> QED
      BY <3>1, <3>2 DEF MadeBy
  <2>3. /\ \A f \in static : f.rule \in {"FH-B017", "FH-B018"}
        /\ \A f, g \in static : f.about = g.about => f = g
    <3>1. \A f \in static : \E c \in PrimaryCapabilities(run) :
             /\ f = ConfirmationOf(run, index, events, c)
             /\ f.rule \in {"FH-B017", "FH-B018"} /\ f.about = <<c.id>>
      BY StaticMade
    <3>2. \A x, y : <<x>> = <<y>> => x = y
      OBVIOUS
    <3> HIDE DEF static
    <3> QED
      BY <3>1, <3>2
  <2>4. /\ \A f \in partial : f.rule = "FH-COVERAGE-001"
        /\ \A f, g \in partial : f = g
    <3> HIDE DEF done
    <3>1. \A f \in partial : f = Partial(events)
      BY DEF If
    <3>2. ASSUME NEW g, g = Partial(events) PROVE g.rule = "FH-COVERAGE-001"
      <4> DEFINE ids == {e.id : e \in First(events)}
      <4>1. g = Finding("FH-COVERAGE-001", <<>>, "", 0, "informational", ids)
        BY <3>2 DEF Partial
      <4> HIDE DEF ids, partial, static
      <4> QED
        BY <4>1 DEF Finding
    <3> HIDE DEF partial
    <3> QED
      BY <3>1, <3>2
  <2> HIDE DEF done, partial, static
  <2>5. \A f \in done.findings : f.rule \notin ClassicNames \cup {"FH-B017", "FH-B018", "FH-COVERAGE-001", "scanner"}
    BY <2>2, NamesApart
  <2>6. \A f \in static \cup partial : f.rule \notin ClassicNames \cup {"scanner"}
    BY <2>3, <2>4, NamesApart
  <2> QED
    BY <2>1, <2>2, <2>3, <2>4, <2>5, <2>6 DEF ToldApart
<1> QED
  BY <1>1, <1>2

\* So are all the findings of a run.
LEMMA FindingsApart ==
    ASSUME NEW run, \A c, d \in PrimaryCapabilities(run) : c.id = d.id => c = d
    PROVE  ToldApart(Findings(run))
<1> DEFINE classic == IF run.detection.behavioral THEN ClassicFindings(run) ELSE {}
<1>1. ToldApart(classic) /\ \A f \in classic : f.rule \in ClassicNames
  BY ClassicsPlain DEF ToldApart
<1>2. ToldApart(ScannerFindings(run)) /\ \A f \in ScannerFindings(run) : f.rule = "scanner"
  BY ScannerSays DEF ToldApart
<1>3. ToldApart(Build(run)) /\ \A f \in Build(run) : f.rule \notin ClassicNames \cup {"scanner"}
  BY BuiltApart
<1>4. "scanner" \notin ClassicNames
  BY NamesApart
<1>5. AllFindings(run) = classic \cup Build(run) \cup ScannerFindings(run)
  BY DEF AllFindings
<1> HIDE DEF classic
<1>6. ToldApart(AllFindings(run))
  BY <1>1, <1>2, <1>3, <1>4, <1>5 DEF ToldApart
<1>7. \A f \in AllFindings(run) : f = Finding(f.rule, f.about, f.group, f.score, f.severity, f.evidence)
  BY FindingsOfRules DEF OfRules
<1>8. Findings(run) = {Settled(Scoring(AllFindings(run)), f) : f \in AllFindings(run)}
  BY DEF Findings, DeduplicateScores, AllFindings, Settled
<1>9. \A h \in Findings(run) : \E f \in AllFindings(run) :
         h = Settled(Scoring(AllFindings(run)), f) /\ h.rule = f.rule /\ h.about = f.about
  BY <1>7, <1>8, SettledKeeps
<1> QED
  BY <1>6, <1>9 DEF ToldApart

-----------------------------------------------------------------------------
\* So do the indicators, and a digest among them is one the host or the run has.
LEMMA CandidatesTraced ==
    ASSUME NEW run, \A s \in run.detection.stages : Traced(run, s.evidence)
    PROVE  \A c \in HashCandidates(run) \cup EventCandidates(run) \cup ScannerCandidates(run) :
              /\ c.sources \subseteq Resolved(run)
              /\ c.type = "sha256" =>
                    \/ c.value \in run.hashes
                    \/ c.value \in {f.sha256 : f \in run.files}
                    \/ \E a \in run.artifacts : a.verified /\ c.value = a.sha256
<1> DEFINE events == Observations(run) \cup run.files \cup run.registry \cup run.network
           Other(c) == c.sources \subseteq Resolved(run) /\ c.type # "sha256"
<1>1. \A e \in events : e.id \in Resolved(run)
  BY DEF Resolved, EventIds
<1>3. ASSUME NEW c \in HashCandidates(run)
      PROVE  /\ c.sources \subseteq Resolved(run)
             /\ \/ c.value \in run.hashes
                \/ c.value \in {f.sha256 : f \in run.files}
                \/ \E a \in run.artifacts : a.verified /\ c.value = a.sha256
  <2>1. CASE \E h \in run.hashes : c = Hash(h, {})
    <3>1. PICK h \in run.hashes : c = Hash(h, {})
      BY <2>1
    <3>2. c.value = h /\ c.sources = {}
      BY <3>1 DEF Hash, Candidate
    <3> QED
      BY <3>2
  <2>2. CASE \E a \in run.artifacts : a.verified /\ c = Hash(a.sha256, {a.id})
    <3>1. PICK a \in run.artifacts : a.verified /\ c = Hash(a.sha256, {a.id})
      BY <2>2
    <3>2. c.value = a.sha256 /\ c.sources = {a.id}
      BY <3>1 DEF Hash, Candidate
    <3>3. a.id \in Resolved(run)
      BY DEF Resolved
    <3> QED
      BY <3>1, <3>2, <3>3
  <2>3. CASE \E f \in run.files : c = [Hash(f.sha256, {f.id}) EXCEPT !.at = f.at]
    <3>1. PICK f \in run.files : c = [Hash(f.sha256, {f.id}) EXCEPT !.at = f.at]
      BY <2>3
    <3>2. c.value = f.sha256 /\ c.sources = {f.id}
      BY <3>1 DEF Hash, Candidate
    <3> QED
      BY <1>1, <3>2
  <2> QED
    BY <1>3, <2>1, <2>2, <2>3 DEF HashCandidates
<1>4. ASSUME NEW e \in events, NEW type \in {"process_image", "file_path", "url", "domain", "ip", "registry_key"}, NEW texts
      PROVE  \A c \in Named(type, texts, e) : Other(c) /\ Other([c EXCEPT !.contextual = TRUE])
  <2> SUFFICES ASSUME NEW c \in Named(type, texts, e)
               PROVE  Other(c) /\ Other([c EXCEPT !.contextual = TRUE])
    OBVIOUS
  <2>1. PICK t : c = Candidate(type, t, e.at, Contextual(t), {e.id})
    BY DEF Named
  <2> DEFINE d == [c EXCEPT !.contextual = TRUE]
  <2>2. c.type = type /\ c.sources = {e.id} /\ d.type = type /\ d.sources = {e.id}
    BY <2>1 DEF Candidate
  <2> HIDE DEF d, events
  <2> QED
    BY <1>1, <2>2 DEF d
<1> HIDE DEF Other
<1>5. \A c \in ProcessCandidates(run) : Other(c)
  <2> SUFFICES ASSUME NEW c \in ProcessCandidates(run) PROVE Other(c)
    OBVIOUS
  <2>1. PICK o \in Observations(run) :
           LET urls == o.command \cap Urls
           IN  c \in (Named("process_image", {o.image}, o) \cup Named("file_path", {o.image}, o)
                      \cup Named("url", urls, o)
                      \cup Named("domain", {DomainOf(u) : u \in urls} \cup (o.command \cap Domains), o)
                      \cup Named("ip", o.command, o) \cup Named("file_path", o.command, o))
    BY DEF ProcessCandidates
  <2> QED
    BY <1>4, <2>1
<1>6. \A c \in NetworkCandidates(run) : Other(c)
  <2> SUFFICES ASSUME NEW c \in NetworkCandidates(run) PROVE Other(c)
    OBVIOUS
  <2>1. PICK n \in run.network :
           c \in (Named("domain", {n.domain}, n) \cup Named("ip", {n.remote}, n)
                  \cup {[d EXCEPT !.contextual = TRUE] : d \in Named("ip", {n.local}, n)})
    BY DEF NetworkCandidates
  <2> QED
    BY <1>4, <2>1
<1>7. \A c \in EventCandidates(run) : Other(c)
  BY <1>4, <1>5, <1>6 DEF EventCandidates
<1>8. \A c \in ScannerCandidates(run) : Other(c)
  <2> SUFFICES ASSUME NEW c \in ScannerCandidates(run) PROVE Other(c)
    OBVIOUS
  <2>1. PICK s \in run.detection.stages : \E words, time : c \in Extract(words, time, s.evidence)
    <3>1. PICK s \in run.detection.stages :
             c \in (Extract(s.strings, 0, s.evidence)
                    \cup (IF s.scanner = "yara" THEN Extract(UNION {f.words : f \in s.findings}, 0, s.evidence) ELSE {})
                    \cup (UNION {Extract(p.names, Max({0, p.at}), s.evidence) : p \in s.packets}))
      BY DEF ScannerCandidates
    <3> QED
      BY <3>1
  <2>2. PICK words, time : c \in Extract(words, time, s.evidence)
    BY <2>1
  <2>3. PICK d \in {"url", "domain", "ip", "file_path"} \X words :
           c = Candidate(d[1], d[2], time, StaticContextual(d[2]), s.evidence)
    BY <2>2 DEF Extract
  <2>4. c.type = d[1] /\ c.sources = s.evidence
    BY <2>3 DEF Candidate
  <2> QED
    BY <2>4 DEF Traced, Cites, Other
<1> QED
  BY <1>3, <1>7, <1>8 DEF Other

LEMMA IocsTraced ==
    ASSUME NEW run, \A s \in run.detection.stages : Traced(run, s.evidence)
    PROVE  \A i \in ExtractIocs(run) :
              /\ i.sources \subseteq Resolved(run)
              /\ i.type = "sha256" =>
                    \/ i.value \in run.hashes
                    \/ i.value \in {f.sha256 : f \in run.files}
                    \/ \E a \in run.artifacts : a.verified /\ i.value = a.sha256
<1> DEFINE candidates == HashCandidates(run) \cup EventCandidates(run)
           static == ScannerCandidates(run)
<1> SUFFICES ASSUME NEW i \in ExtractIocs(run)
             PROVE  /\ i.sources \subseteq Resolved(run)
                    /\ i.type = "sha256" =>
                          \/ i.value \in run.hashes
                          \/ i.value \in {f.sha256 : f \in run.files}
                          \/ \E a \in run.artifacts : a.verified /\ i.value = a.sha256
  OBVIOUS
<1>1. PICK c \in candidates \cup static : i = Merge(candidates, static, c.type, c.value)
  <2>1. ExtractIocs(run) = {Merge(candidates, static, k[1], k[2]) : k \in {<<c.type, c.value>> : c \in candidates \cup static}}
    BY DEF ExtractIocs
  <2> HIDE DEF candidates, static
  <2> QED
    BY <2>1
<1> HIDE DEF candidates, static
<1>2. /\ i.type = c.type /\ i.value = c.value
      /\ i.sources \subseteq UNION {d.sources : d \in candidates \cup static}
  <2> DEFINE mine == {d \in candidates : d.type = c.type /\ d.value = c.value}
             more == {d \in static : d.type = c.type /\ d.value = c.value}
             early == IF mine = {} THEN 0 ELSE Min({d.at : d \in mine})
             timed == {d.at : d \in more} \ {0}
             first == IF early = 0 /\ timed # {} THEN Min(timed) ELSE Min({early} \cup timed)
             last == Max({0} \cup {d.at : d \in mine} \cup timed)
             contextual == \/ \E d \in mine \cup more : d.contextual
                           \/ c.type = "ip" /\ StaticContextual(c.value)
             sources == UNION {d.sources : d \in mine \cup more}
  <2>1. Merge(candidates, static, c.type, c.value) =
           [type |-> c.type, value |-> c.value, first |-> first, last |-> last,
            contextual |-> contextual, sources |-> sources]
    BY DEF Merge
  <2>2. sources \subseteq UNION {d.sources : d \in candidates \cup static}
    OBVIOUS
  <2> HIDE DEF first, last, contextual, sources
  <2> QED
    BY <1>1, <2>1, <2>2
<1>3. \A d \in candidates \cup static :
         /\ d.sources \subseteq Resolved(run)
         /\ d.type = "sha256" =>
               \/ d.value \in run.hashes
               \/ d.value \in {f.sha256 : f \in run.files}
               \/ \E a \in run.artifacts : a.verified /\ d.value = a.sha256
  BY CandidatesTraced DEF candidates, static
<1> QED
  BY <1>2, <1>3

\* A row of a file that was used is in the run, or a warning is about it.
LEMMA RowsTraced ==
    ASSUME NEW archive, NEW spent, NEW imported, Parts(archive, spent, imported), NEW k \in Kinds,
           \A code \in {"malformed_artifact", "missing_event_artifact"} :
              Warning(code, k) \notin RunOf(archive).warnings,
           NEW r \in archive.events[k].rows
    PROVE  r.id \in EventIds(RunOf(archive)) \/ Warning("malformed_event", r.id) \in RunOf(archive).warnings
<1> DEFINE rows == LoadAll(spent, archive).rows
<1>1. rows[k] = archive.events[k].rows
  BY RowsUsed
<1>2. CASE r \in Usable(k, rows[k])
  BY <1>2, UsableSeen
<1>3. CASE r \notin Usable(k, rows[k])
  <2>1. Warning("malformed_event", r.id) \in RowWarnings(k, rows[k])
    BY <1>1, <1>3 DEF RowWarnings
  <2>2. RowWarnings(k, rows[k]) \subseteq RunOf(archive).warnings
    BY DEF Parts
  <2> QED
    BY <2>1, <2>2
<1> QED
  BY <1>2, <1>3

\* A row of the guest is in the run or a warning is about it; a digest that counts is one
\* the host has computed or the run has seen; and every output cites what is there, no two
\* findings under one identifier, so that it is refused exactly if an id of evidence is
\* repeated or one thing cites more than may be (loader.rs, ioc.rs, publication.rs).
THEOREM TracedEvidence == Spec => []EvidenceTraced
<1>1. AnalysisInv => EvidenceTraced
  <2> DEFINE archive == analysis.archive
             run == analysis.run
             cited == Cited(run, analysis.findings, analysis.iocs)
             warned == {w[2] : w \in {v \in run.warnings : v[1] # "malformed_artifact"
                                       /\ v[1] # "missing_event_artifact" /\ v[1] # "invalid_capture_health"}}
  <2> SUFFICES ASSUME AnalysisInv, Loaded
               PROVE  /\ \A k \in Kinds :
                            \/ {r.id : r \in archive.events[k].rows} \subseteq EventIds(run) \cup warned
                            \/ \E code \in {"malformed_artifact", "missing_event_artifact"} :
                                  Warning(code, k) \in run.warnings
                      /\ \A i \in analysis.iocs : i.type = "sha256" =>
                            \/ i.value \in TargetHashes(archive)
                            \/ i.value \in {f.sha256 : f \in run.files}
                            \/ \E e \in archive.manifest :
                                  e.safe /\ e.path \in DOMAIN archive.stored /\ i.value = archive.stored[e.path]
                      /\ analysis.phase \in {"validate", "write", "over"} =>
                            (Publishable(run, analysis.findings, analysis.iocs) <=>
                                ~run.repeated /\ \A ids \in cited : Cardinality(ids) <= MaxReferences)
    BY DEF EvidenceTraced
  <2>1. /\ RunKnown /\ Recordable(archive)
        /\ analysis.iocs = {} \/ analysis.iocs = ExtractIocs(run)
        /\ analysis.phase \in {"validate", "write", "over"} => Judged
    BY DEF AnalysisInv, Loaded, NoRun, Judged
  <2>2. PICK spent, imported : Parts(archive, spent, imported)
    BY <2>1, RunParts DEF RunKnown
  <2>3. run = RunOf(archive)
    BY <2>1 DEF RunKnown
  <2>4. \A s \in run.detection.stages : Traced(run, s.evidence)
    BY <2>1, <2>2, <2>3, StagesTraced
  <2>5. \A a \in Activities(run) : Placed(run, a)
    BY <2>1, <2>2, <2>3, ActivitiesPlaced
  <2>6. ASSUME NEW k \in Kinds,
               \A code \in {"malformed_artifact", "missing_event_artifact"} : Warning(code, k) \notin run.warnings,
               NEW r \in archive.events[k].rows
        PROVE  r.id \in EventIds(run) \cup warned
    <3>1. r.id \in EventIds(run) \/ Warning("malformed_event", r.id) \in run.warnings
      BY <2>2, <2>3, <2>6, RowsTraced
    <3>2. Warning("malformed_event", r.id) \in run.warnings => r.id \in warned
      BY DEF Warning
    <3> QED
      BY <3>1, <3>2
  <2>7. ASSUME NEW i \in analysis.iocs
        PROVE  /\ i.sources \subseteq Resolved(run)
               /\ i.type = "sha256" =>
                     \/ i.value \in run.hashes
                     \/ i.value \in {f.sha256 : f \in run.files}
                     \/ \E a \in run.artifacts : a.verified /\ i.value = a.sha256
    BY <2>1, <2>4, IocsTraced
  <2>8. run.hashes = TargetHashes(archive) /\ run.artifacts = Artifacts(archive)
    BY <2>2, <2>3 DEF Parts
  <2>9. ASSUME NEW a \in Artifacts(archive), a.verified
        PROVE  \E e \in archive.manifest :
                  e.safe /\ e.path \in DOMAIN archive.stored /\ a.sha256 = archive.stored[e.path]
    <3>1. PICK e \in archive.manifest : e.intact /\ a.sha256 = e.sha256 /\ e.sha256 = Stored(archive, e)
      <4>1. PICK e \in archive.manifest :
               /\ e.intact
               /\ a = [id |-> e.id, path |-> e.path, kind |-> e.kind, sha256 |-> e.sha256, size |-> e.size,
                       verified |-> e.sha256 = Stored(archive, e)]
        BY DEF Artifacts
      <4>2. a.sha256 = e.sha256 /\ a.verified = (e.sha256 = Stored(archive, e))
        BY <4>1
      <4> QED
        BY <2>9, <4>1, <4>2
    <3>2. e.sha256 # NoPid
      BY <2>1, <3>1 DEF Recordable, NoPid
    <3> QED
      BY <3>1, <3>2 DEF Stored
  <2>10. analysis.phase \in {"validate", "write", "over"} =>
            (Publishable(run, analysis.findings, analysis.iocs) <=>
                ~run.repeated /\ \A ids \in cited : Cardinality(ids) <= MaxReferences)
    <3> DEFINE findings == analysis.findings
               iocs == analysis.iocs
               Few(ids) == Cardinality(ids) <= MaxReferences
    <3> SUFFICES ASSUME Judged
                 PROVE  Publishable(run, findings, iocs) <=> ~run.repeated /\ \A ids \in cited : Few(ids)
      BY <2>1
    <3>1. \A f \in findings : Cites(run, f.evidence)
      BY <2>4, <2>5, FindingsTraced DEF Judged
    <3>2. \A s \in run.detection.stages : Cites(run, s.evidence)
      BY <2>4 DEF Traced
    <3>3. \A o \in run.detection.owners : Cites(run, o.evidence)
      BY <2>1, <2>2, <2>3, OwnersTraced
    <3>4. ToldApart(findings)
      <4>1. \A c, d \in PrimaryCapabilities(run) : c.id = d.id => c = d
        BY <2>1, <2>2, <2>3, CapabilitiesApart
      <4> QED
        BY <4>1, FindingsApart DEF Judged
    <3>5. \A i \in iocs : i.sources = {} \/ Cites(run, i.sources)
      BY <2>7 DEF Cites
    <3>6. Few({})
      BY FS_EmptySet, ReferencesAssumption
    <3>7. \A ids : Resolves(run, ids) <=> Cites(run, ids) /\ Few(ids)
      BY DEF Resolves, Cites
    <3>8. (\A ids \in cited : Few(ids)) <=>
             /\ \A f \in findings : Few(f.evidence)
             /\ \A s \in run.detection.stages : Few(s.evidence)
             /\ \A o \in run.detection.owners : Few(o.evidence)
             /\ \A i \in iocs : Few(i.sources)
      <4> HIDE DEF Few, run
      <4> QED BY DEF Cited
    <3> HIDE DEF Few, cited, findings, iocs, run
    <3>9. Publishable(run, findings, iocs) <=>
             /\ ~run.repeated
             /\ \A f \in findings : Few(f.evidence)
             /\ \A s \in run.detection.stages : Few(s.evidence)
             /\ \A o \in run.detection.owners : Few(o.evidence)
             /\ \A i \in iocs : Few(i.sources)
      <4>1. \A i \in iocs : (i.sources = {} \/ Resolves(run, i.sources)) <=> Few(i.sources)
        BY <3>5, <3>6, <3>7
      <4> QED
        BY <3>1, <3>2, <3>3, <3>4, <3>7, <4>1 DEF Publishable, ToldApart
    <3> QED
      BY <3>8, <3>9
  <2> QED
    BY <2>6, <2>7, <2>8, <2>9, <2>10
<1> QED
  BY <1>1, AnalysisFollows, PTL

-----------------------------------------------------------------------------
\* The order of the observations of a process.

StatusRank(status) == CHOOSE i \in 1..4 : StatusOrder[i] = status

Ordered(S) ==
    /\ IsFiniteSet(S)
    /\ \A o \in S : o.at \in Nat /\ o.id \in Nat /\ o.status \in Range(StatusOrder)
    /\ \A o, other \in S : o.id = other.id => o = other

LEMMA StatusesRanked ==
    /\ DOMAIN StatusOrder = 1..4
    /\ \A status \in Range(StatusOrder) : StatusRank(status) \in 1..4 /\ StatusOrder[StatusRank(status)] = status
    /\ \A i, j \in 1..4 : StatusOrder[i] = StatusOrder[j] => i = j
    /\ StatusOrder[4] = "terminated"
<1>1. DOMAIN StatusOrder = 1..4 /\ StatusOrder[4] = "terminated"
  BY DEF StatusOrder
<1>2. \A status \in Range(StatusOrder) : StatusRank(status) \in 1..4 /\ StatusOrder[StatusRank(status)] = status
  <2> SUFFICES ASSUME NEW status \in Range(StatusOrder)
               PROVE  StatusRank(status) \in 1..4 /\ StatusOrder[StatusRank(status)] = status
    OBVIOUS
  <2>1. \E i \in 1..4 : StatusOrder[i] = status
    BY <1>1 DEF Range
  <2> QED
    BY <2>1 DEF StatusRank
<1>3. \A i, j \in 1..4 : StatusOrder[i] = StatusOrder[j] => i = j
  BY DEF StatusOrder
<1> QED
  BY <1>1, <1>2, <1>3

\* The order is one of three numbers.
LEMMA ObservedByNumbers ==
    ASSUME NEW o, NEW other, o.at \in Nat, other.at \in Nat,
           o.status \in Range(StatusOrder), other.status \in Range(StatusOrder)
    PROVE  ObservedBefore(o, other) <=>
              \/ o.at < other.at
              \/ o.at = other.at /\ StatusRank(o.status) < StatusRank(other.status)
              \/ o.at = other.at /\ StatusRank(o.status) = StatusRank(other.status) /\ o.id < other.id
<1>1. (\E i, j \in DOMAIN StatusOrder : i < j /\ StatusOrder[i] = o.status /\ StatusOrder[j] = other.status)
         <=> StatusRank(o.status) < StatusRank(other.status)
  BY StatusesRanked
<1>2. o.status = other.status <=> StatusRank(o.status) = StatusRank(other.status)
  BY StatusesRanked
<1> QED
  BY <1>1, <1>2 DEF ObservedBefore

LEMMA OrderTotal ==
    ASSUME NEW S, Ordered(S)
    PROVE  /\ \A x \in S : ~ObservedBefore(x, x)
           /\ \A x, y \in S : x = y \/ ObservedBefore(x, y) \/ ObservedBefore(y, x)
           /\ \A x, y, z \in S : ObservedBefore(x, y) /\ ObservedBefore(y, z) => ObservedBefore(x, z)
<1>1. \A x \in S : x.at \in Nat /\ x.id \in Nat /\ StatusRank(x.status) \in Nat
  <2>1. \A i \in 1..4 : i \in Nat
    OBVIOUS
  <2> QED
    BY <2>1, StatusesRanked DEF Ordered
<1>2. \A x, y \in S : ObservedBefore(x, y) <=>
         \/ x.at < y.at
         \/ x.at = y.at /\ StatusRank(x.status) < StatusRank(y.status)
         \/ x.at = y.at /\ StatusRank(x.status) = StatusRank(y.status) /\ x.id < y.id
  BY ObservedByNumbers DEF Ordered
<1>3. \A x, y \in S : x.id = y.id => x = y
  BY DEF Ordered
<1>4. ASSUME NEW x \in S PROVE ~ObservedBefore(x, x)
  BY <1>1, <1>2
<1>5. ASSUME NEW x \in S, NEW y \in S PROVE x = y \/ ObservedBefore(x, y) \/ ObservedBefore(y, x)
  BY <1>1, <1>2, <1>3
<1>6. ASSUME NEW x \in S, NEW y \in S, NEW z \in S, ObservedBefore(x, y), ObservedBefore(y, z)
      PROVE  ObservedBefore(x, z)
  BY <1>1, <1>2, <1>6
<1> QED
  BY <1>4, <1>5, <1>6

\* Of some observations one is the last and one the first.
LEMMA ExtremesExist ==
    ASSUME NEW S, Ordered(S), NEW T \in SUBSET S, T # {}
    PROVE  /\ \E x \in T : \A y \in T : y = x \/ ObservedBefore(y, x)
           /\ \E x \in T : \A y \in T : y = x \/ ObservedBefore(x, y)
<1> DEFINE IsLast(U, x) == x \in U /\ \A y \in U : y = x \/ ObservedBefore(y, x)
           IsFirst(U, x) == x \in U /\ \A y \in U : y = x \/ ObservedBefore(x, y)
           Bad == {U \in SUBSET T : U # {} /\ ~((\E x : IsLast(U, x)) /\ (\E x : IsFirst(U, x)))}
<1>1. Bad = {}
  <2> SUFFICES ASSUME Bad # {} PROVE FALSE
    OBVIOUS
  <2>1. Bad \in SUBSET SUBSET T /\ IsFiniteSet(T)
    BY FS_Subset DEF Ordered
  <2>2. PICK U \in Bad : \A V \in SUBSET U : V # U => V \notin Bad
    <3> HIDE DEF Bad
    <3> QED BY <2>1, MinimalSubset
  <2>3. PICK x \in U : TRUE
    OBVIOUS
  <2> DEFINE V == U \ {x}
  <2>4. CASE V = {}
    <3>1. IsLast(U, x) /\ IsFirst(U, x)
      BY <2>4
    <3> QED
      BY <3>1
  <2>5. CASE V # {}
    <3>1. PICK l, e : IsLast(V, l) /\ IsFirst(V, e)
      <4>1. V \notin Bad /\ V \in SUBSET T
        BY <2>2
      <4> HIDE DEF IsLast, IsFirst, V
      <4> QED BY <2>5, <4>1
    <3>2. \A y, z \in U : y = z \/ ObservedBefore(y, z) \/ ObservedBefore(z, y)
      BY OrderTotal
    <3>3. \A y, z, w \in U : ObservedBefore(y, z) /\ ObservedBefore(z, w) => ObservedBefore(y, w)
      <4>1. \A y \in U : y \in S
        OBVIOUS
      <4> HIDE DEF Bad
      <4> QED
        BY <4>1, OrderTotal
    <3>4. IsLast(U, l) \/ IsLast(U, x)
      BY <3>1, <3>2, <3>3
    <3>5. IsFirst(U, e) \/ IsFirst(U, x)
      BY <3>1, <3>2, <3>3
    <3> QED
      BY <3>4, <3>5
  <2> QED
    BY <2>4, <2>5
<1>2. T \in SUBSET T /\ T \notin Bad
  BY <1>1
<1> QED
  BY <1>2

LEMMA LatestOf ==
    ASSUME NEW S, Ordered(S), NEW T \in SUBSET S, T # {}
    PROVE  Latest(T) \in T /\ \A y \in T : y = Latest(T) \/ ObservedBefore(y, Latest(T))
<1>1. \E x \in T : \A y \in T : x = y \/ ObservedBefore(y, x)
  BY ExtremesExist
<1> QED
  BY <1>1 DEF Latest

-----------------------------------------------------------------------------
\* The history of a process number.

SeenBefore(S, o) == {other \in S : ObservedBefore(other, o)}

\* What was known when the observation came.
KnownBefore(g, S, o) == IF SeenBefore(S, o) = {} THEN NoEntry ELSE g[Latest(SeenBefore(S, o))]

Follows(g, S) == g = [o \in S |-> Continue(KnownBefore(g, S, o), o)]

LEMMA HistoryExists ==
    ASSUME NEW S, Ordered(S)
    PROVE  \E g : Follows(g, S)
<1> DEFINE Closed(U) == \A o \in U : SeenBefore(S, o) \subseteq U
           Bad == {U \in SUBSET S : Closed(U) /\ ~\E g : Follows(g, U)}
<1>1. Bad = {}
  <2> SUFFICES ASSUME Bad # {} PROVE FALSE
    OBVIOUS
  <2>1. Bad \in SUBSET SUBSET S /\ IsFiniteSet(S)
    BY DEF Ordered
  <2>2. PICK U \in Bad : \A V \in SUBSET U : V # U => V \notin Bad
    <3> HIDE DEF Bad
    <3> QED BY <2>1, MinimalSubset
  <2>3. U \in SUBSET S /\ Closed(U)
    OBVIOUS
  <2>4. U # {}
    <3>1. Follows([o \in {} |-> NoEntry], {})
      BY DEF Follows
    <3> QED
      BY <3>1
  <2> DEFINE last == Latest(U)
             V == U \ {last}
  <2>5. last \in U /\ \A y \in U : y = last \/ ObservedBefore(y, last)
    BY <2>3, <2>4, LatestOf
  <2> HIDE DEF last
  <2>6. \A x \in S : ~ObservedBefore(x, x)
    BY OrderTotal
  <2>7. \A x, y \in S : ObservedBefore(x, y) => ~ObservedBefore(y, x)
    BY <2>6, OrderTotal
  <2>8. SeenBefore(U, last) = V
    BY <2>3, <2>5, <2>6 DEF SeenBefore
  <2>9. \A o \in V : SeenBefore(U, o) = SeenBefore(V, o) /\ SeenBefore(S, o) \subseteq V
    <3> SUFFICES ASSUME NEW o \in V PROVE SeenBefore(U, o) = SeenBefore(V, o) /\ SeenBefore(S, o) \subseteq V
      OBVIOUS
    <3>1. ~ObservedBefore(last, o)
      BY <2>3, <2>5, <2>7
    <3>2. SeenBefore(S, o) \subseteq U
      BY <2>3
    <3> QED
      BY <3>1, <3>2 DEF SeenBefore
  <2>10. PICK g : Follows(g, V)
    <3>1. V \in SUBSET U /\ V # U
      BY <2>5
    <3>2. V \in SUBSET S /\ Closed(V) /\ V \notin Bad
      BY <2>2, <2>3, <2>9, <3>1
    <3> HIDE DEF Closed, V
    <3> QED
      BY <3>2
  <2> DEFINE h == [o \in U |-> IF o = last THEN Continue(IF V = {} THEN NoEntry ELSE g[Latest(V)], o) ELSE g[o]]
  <2>11. \A o \in V : h[o] = g[o]
    BY <2>5
  <2>12. h[last] = Continue(IF V = {} THEN NoEntry ELSE g[Latest(V)], last)
    BY <2>5
  <2>13. DOMAIN h = U /\ h = [o \in U |-> h[o]]
    OBVIOUS
  <2> HIDE DEF h
  <2>14. ASSUME NEW o \in V PROVE h[o] = Continue(KnownBefore(h, U, o), o)
    <3>1. g[o] = Continue(KnownBefore(g, V, o), o)
      <4> HIDE DEF V
      <4> QED
        BY <2>10, <2>14 DEF Follows
    <3>2. KnownBefore(h, U, o) = KnownBefore(g, V, o)
      <4>1. CASE SeenBefore(V, o) = {}
        BY <2>9, <4>1 DEF KnownBefore
      <4>2. CASE SeenBefore(V, o) # {}
        <5>1. SeenBefore(V, o) \subseteq V
          BY DEF SeenBefore
        <5>2. Latest(SeenBefore(V, o)) \in SeenBefore(V, o)
          BY <2>3, <4>2, <5>1, LatestOf
        <5> HIDE DEF V
        <5> QED
          BY <2>9, <2>11, <4>2, <5>1, <5>2 DEF KnownBefore
      <4> QED
        BY <4>1, <4>2
    <3> QED
      BY <2>11, <3>1, <3>2
  <2>15. h[last] = Continue(KnownBefore(h, U, last), last)
    <3>1. CASE V = {}
      BY <2>8, <2>12, <3>1 DEF KnownBefore
    <3>2. CASE V # {}
      <4>1. Latest(V) \in V
        BY <2>3, <3>2, LatestOf
      <4>2. h[Latest(V)] = g[Latest(V)]
        BY <2>11, <4>1
      <4> HIDE DEF V
      <4> QED
        BY <2>8, <2>12, <3>2, <4>2 DEF KnownBefore
    <3> QED
      BY <3>1, <3>2
  <2>16. Follows(h, U)
    <3>1. \A o \in U : h[o] = Continue(KnownBefore(h, U, o), o)
      BY <2>14, <2>15
    <3>2. [o \in U |-> h[o]] = [o \in U |-> Continue(KnownBefore(h, U, o), o)]
      BY <3>1
    <3> QED
      BY <2>13, <3>2 DEF Follows
  <2> QED
    BY <2>16
<1>2. S \in SUBSET S /\ Closed(S)
  BY DEF SeenBefore
<1> QED
  BY <1>1, <1>2

\* The observations of a process number that have a time.
SeenOf(run, pid) == {o \in Observations(run) : o.pid = pid /\ o.at > 0}

LEMMA HistoryFollows ==
    ASSUME NEW run, NEW pid, Ordered(SeenOf(run, pid)),
           \A p \in run.processes : \A o \in p.observations : o.pid = p.pid
    PROVE  Follows(History(run, pid), SeenOf(run, pid))
<1> DEFINE S == {o \in UNION {p.observations : p \in {q \in run.processes : q.pid = pid}} : o.at > 0}
<1>1. S = SeenOf(run, pid)
  BY DEF SeenOf, Observations
<1>2. History(run, pid) = CHOOSE g : Follows(g, S)
  BY DEF History, Follows, KnownBefore, SeenBefore
<1>3. \E g : Follows(g, SeenOf(run, pid))
  BY HistoryExists
<1> HIDE DEF S
<1> QED
  BY <1>1, <1>2, <1>3

-----------------------------------------------------------------------------
\* What stays the same while an instance does.

\* One step of a history: the process goes on as it was, or it is over, or another begins.
LEMMA ContinueCases ==
    ASSUME NEW entry, NEW o
    PROVE  \/ o.status = "terminated" /\ Continue(entry, o).instance = NoInstance
           \/ o.status # "terminated" /\ Continue(entry, o).instance = [start |-> o.at, image |-> o.image]
           \/ /\ o.status # "terminated" /\ Continue(entry, o).instance = entry.instance
              /\ entry.instance.image = o.image /\ entry.instance # NoInstance
              /\ entry.guid = "" \/ o.guid = "" \/ entry.guid = o.guid
<1> DEFINE ended == o.status = "terminated"
           other == entry.guid # "" /\ o.guid # "" /\ entry.guid # o.guid
           fresh == entry.instance = NoInstance \/ entry.instance.image # o.image
           begun == [start |-> o.at, image |-> o.image]
<1>1. Continue(entry, o).instance = IF ended THEN NoInstance ELSE IF other \/ fresh THEN begun ELSE entry.instance
  <2> DEFINE guid == IF o.guid # "" THEN o.guid ELSE IF ended THEN "" ELSE entry.guid
             instance == IF ended THEN NoInstance ELSE IF other \/ fresh THEN begun ELSE entry.instance
  <2>1. Continue(entry, o) = [guid |-> guid, instance |-> instance]
    BY DEF Continue
  <2> HIDE DEF guid, instance
  <2>2. Continue(entry, o).instance = instance
    BY <2>1
  <2> QED
    BY <2>2 DEF instance
<1> HIDE DEF begun
<1>2. CASE ended
  BY <1>1, <1>2
<1>3. CASE ~ended /\ (other \/ fresh)
  BY <1>1, <1>3 DEF begun
<1>4. CASE ~ended /\ ~other /\ ~fresh
  BY <1>1, <1>4
<1> QED
  BY <1>2, <1>3, <1>4

\* The name it is known by is the last that was told.
LEMMA ContinueName ==
    ASSUME NEW entry, NEW o
    PROVE  /\ o.guid # "" => Continue(entry, o).guid = o.guid
           /\ o.guid = "" /\ o.status # "terminated" => Continue(entry, o).guid = entry.guid
<1> DEFINE instance == Continue(entry, o).instance
           guid == IF o.guid # "" THEN o.guid ELSE IF o.status = "terminated" THEN "" ELSE entry.guid
<1>1. Continue(entry, o).guid = guid
  BY DEF Continue
<1> QED
  BY <1>1

\* An instance has begun when it is seen.
LEMMA BegunBefore ==
    ASSUME NEW S, Ordered(S), \A o \in S : o.at > 0, NEW h, Follows(h, S)
    PROVE  \A o \in S : h[o].instance.start \in Nat /\ h[o].instance.start <= o.at
<1> DEFINE Begun(o) == h[o].instance.start \in Nat /\ h[o].instance.start <= o.at
           Bad == {o \in S : ~Begun(o)}
<1> SUFFICES ASSUME Bad # {} PROVE FALSE
  OBVIOUS
<1>1. PICK o \in Bad : \A y \in Bad : y = o \/ ObservedBefore(o, y)
  BY ExtremesExist
<1>2. \A y \in SeenBefore(S, o) : Begun(y) /\ y.at <= o.at
  <2> SUFFICES ASSUME NEW y \in SeenBefore(S, o) PROVE Begun(y) /\ y.at <= o.at
    OBVIOUS
  <2>1. y \in S /\ o \in S /\ ObservedBefore(y, o)
    BY DEF SeenBefore
  <2>2. y # o /\ ~ObservedBefore(o, y)
    BY <2>1, OrderTotal
  <2>3. Begun(y)
    BY <1>1, <2>1, <2>2
  <2>4. y.at <= o.at
    BY <2>1 DEF Ordered, ObservedBefore
  <2> QED
    BY <2>3, <2>4
<1> DEFINE entry == KnownBefore(h, S, o)
<1>3. o \in S /\ o.at \in Nat /\ h[o] = Continue(entry, o)
  BY DEF Follows, Ordered
<1>4. entry.instance.start \in Nat /\ entry.instance.start <= o.at
  <2>1. CASE SeenBefore(S, o) = {}
    <3>1. entry.instance.start = 0
      BY <2>1 DEF KnownBefore, NoEntry, NoInstance
    <3> HIDE DEF entry
    <3> QED
      BY <1>3, <3>1
  <2>2. CASE SeenBefore(S, o) # {}
    <3>1. SeenBefore(S, o) \in SUBSET S
      BY DEF SeenBefore
    <3>2. Latest(SeenBefore(S, o)) \in SeenBefore(S, o)
      BY <2>2, <3>1, LatestOf
    <3>3. Latest(SeenBefore(S, o)).at \in Nat
      BY <3>1, <3>2 DEF Ordered
    <3> DEFINE l == Latest(SeenBefore(S, o))
    <3>4. entry = h[l]
      BY <2>2 DEF KnownBefore
    <3> HIDE DEF l, entry, Bad
    <3> QED
      BY <1>2, <1>3, <3>2, <3>3, <3>4 DEF l
  <2> QED
    BY <2>1, <2>2
<1> HIDE DEF entry
<1>5. \/ h[o].instance = NoInstance \/ h[o].instance = [start |-> o.at, image |-> o.image]
      \/ h[o].instance = entry.instance
  <2> DEFINE next == Continue(entry, o)
  <2>1. \/ next.instance = NoInstance \/ next.instance = [start |-> o.at, image |-> o.image]
        \/ next.instance = entry.instance
    BY ContinueCases
  <2> HIDE DEF next
  <2>2. h[o] = next
    BY <1>3 DEF next
  <2> QED
    BY <2>1, <2>2
<1>6. Begun(o)
  <2> DEFINE instance == h[o].instance
  <2>1. instance = NoInstance \/ instance = [start |-> o.at, image |-> o.image] \/ instance = entry.instance
    BY <1>5
  <2> HIDE DEF instance
  <2>2. instance.start \in Nat /\ instance.start <= o.at
    <3>1. o.at \in Nat /\ NoInstance.start = 0
      BY <1>3 DEF NoInstance
    <3>2. [start |-> o.at, image |-> o.image].start = o.at
      OBVIOUS
    <3>3. CASE instance = NoInstance
      BY <3>1, <3>3
    <3>4. CASE instance = [start |-> o.at, image |-> o.image]
      BY <3>1, <3>2, <3>4
    <3>5. CASE instance = entry.instance
      BY <1>4, <3>5
    <3> QED
      BY <2>1, <3>3, <3>4, <3>5
  <2> QED
    BY <2>2 DEF instance
<1> QED
  BY <1>6

\* The last of the observations of its time.
LastThen(S, a) == \A o \in S : ObservedBefore(a, o) => o.at > a.at

\* From one observation to another the process did not end, and had one image and one name.
LivesOn(S, h, a, b) ==
    \A o \in S : (o = a \/ ObservedBefore(a, o)) /\ (o = b \/ ObservedBefore(o, b)) =>
        o.status # "terminated" /\ o.image = h[a].instance.image /\ (o.guid # "" => h[b].guid = o.guid)

\* While the instance is the same, the process lives on.
LEMMA InstanceStays ==
    ASSUME NEW S, Ordered(S), \A o \in S : o.at > 0, NEW h, Follows(h, S),
           NEW a \in S, NEW b \in S, a = b \/ ObservedBefore(a, b),
           h[a].instance = h[b].instance, h[a].instance # NoInstance, LastThen(S, a)
    PROVE  LivesOn(S, h, a, b)
<1> DEFINE I == h[a].instance
           Between(x, y) == {o \in S : (o = x \/ ObservedBefore(x, o)) /\ (o = y \/ ObservedBefore(o, y))}
           Past(o) == h[o].instance = NoInstance \/ h[o].instance.start > a.at
           AsThen(o) ==
              /\ h[o].instance = I
              /\ \A e \in Between(a, o) :
                    e.status # "terminated" /\ e.image = I.image /\ (e.guid # "" => h[o].guid = e.guid)
           Good(o) == (o = a \/ ObservedBefore(a, o)) => Past(o) \/ AsThen(o)
           Bad == {o \in S : ~Good(o)}
<1>1. /\ \A x \in S : ~ObservedBefore(x, x)
      /\ \A x, y \in S : x = y \/ ObservedBefore(x, y) \/ ObservedBefore(y, x)
      /\ \A x, y, z \in S : ObservedBefore(x, y) /\ ObservedBefore(y, z) => ObservedBefore(x, z)
  BY OrderTotal
<1>2. \A o \in S : h[o] = Continue(KnownBefore(h, S, o), o)
  BY DEF Follows
<1>3. I # NoInstance /\ I.start \in Nat /\ I.start <= a.at /\ a.at \in Nat
  BY BegunBefore DEF Ordered
<1>4. Bad = {}
  <2> SUFFICES ASSUME Bad # {} PROVE FALSE
    OBVIOUS
  <2>1. PICK o \in Bad : \A y \in Bad : y = o \/ ObservedBefore(o, y)
    <3>1. Bad \in SUBSET S
      OBVIOUS
    <3> HIDE DEF Bad
    <3> QED
      BY <3>1, ExtremesExist
  <2>2. o \in S /\ (o = a \/ ObservedBefore(a, o)) /\ ~Past(o) /\ ~AsThen(o)
    OBVIOUS
  <2> DEFINE entry == KnownBefore(h, S, o)
  <2>3. h[o] = Continue(entry, o)
    BY <1>2, <2>2
  <2>4. \A y \in S : ObservedBefore(y, o) => Good(y)
    <3> SUFFICES ASSUME NEW y \in S, ObservedBefore(y, o) PROVE Good(y)
      OBVIOUS
    <3>1. y # o /\ ~ObservedBefore(o, y)
      BY <1>1, <2>2
    <3> QED
      BY <2>1, <3>1
  <2> HIDE DEF Bad, Good
  <2>5. CASE o = a
    <3>1. Between(a, o) = {a}
      BY <1>1, <2>5
    <3>2. a.status # "terminated" /\ I.image = a.image
      <4> DEFINE next == Continue(entry, o)
      <4>1. \/ o.status = "terminated" /\ next.instance = NoInstance
            \/ o.status # "terminated" /\ next.instance = [start |-> o.at, image |-> o.image]
            \/ /\ o.status # "terminated" /\ next.instance = entry.instance
               /\ entry.instance.image = o.image
        BY ContinueCases
      <4>2. h[a] = next
        BY <2>3, <2>5
      <4> HIDE DEF next, entry
      <4>3. next.instance = I
        BY <4>2
      <4>4. [start |-> o.at, image |-> o.image].image = o.image
        OBVIOUS
      <4> HIDE DEF I
      <4> QED
        BY <1>3, <2>5, <4>1, <4>3, <4>4
    <3>3. a.guid # "" => h[o].guid = a.guid
      <4> DEFINE next == Continue(entry, o)
      <4>1. o.guid # "" => next.guid = o.guid
        BY ContinueName
      <4> HIDE DEF next
      <4>2. h[o] = next
        BY <2>3 DEF next
      <4> QED
        BY <2>5, <4>1, <4>2
    <3>4. h[o].instance = I
      BY <2>5
    <3> HIDE DEF Between
    <3>5. AsThen(o)
      BY <3>1, <3>2, <3>3, <3>4
    <3> QED
      BY <2>2, <3>5
  <2>6. CASE o # a
    <3>1. ObservedBefore(a, o) /\ o.at > a.at
      BY <2>2, <2>6 DEF LastThen
    <3> DEFINE l == Latest(SeenBefore(S, o))
    <3>2. /\ l \in S /\ ObservedBefore(l, o) /\ (l = a \/ ObservedBefore(a, l))
          /\ \A y \in S : ObservedBefore(y, o) => y = l \/ ObservedBefore(y, l)
      <4>1. a \in SeenBefore(S, o) /\ SeenBefore(S, o) \in SUBSET S
        BY <3>1 DEF SeenBefore
      <4>2. l \in SeenBefore(S, o) /\ \A y \in SeenBefore(S, o) : y = l \/ ObservedBefore(y, l)
        BY <4>1, LatestOf
      <4> HIDE DEF l
      <4> QED
        BY <4>1, <4>2 DEF SeenBefore
    <3>3. entry = h[l]
      <4>1. a \in SeenBefore(S, o)
        BY <3>1 DEF SeenBefore
      <4> QED
        BY <4>1 DEF KnownBefore
    <3> HIDE DEF l, entry
    <3>4. Past(l) \/ AsThen(l)
      BY <2>4, <3>2 DEF Good
    <3>6. h[o].instance # NoInstance /\ ~(h[o].instance.start > a.at)
      BY <2>2
    <3>7. /\ o.status # "terminated" /\ h[o].instance = h[l].instance /\ h[l].instance.image = o.image
          /\ h[l].instance # NoInstance
          /\ h[l].guid = "" \/ o.guid = "" \/ h[l].guid = o.guid
      <4> DEFINE next == Continue(entry, o)
      <4>1. \/ o.status = "terminated" /\ next.instance = NoInstance
            \/ o.status # "terminated" /\ next.instance = [start |-> o.at, image |-> o.image]
            \/ /\ o.status # "terminated" /\ next.instance = entry.instance
               /\ entry.instance.image = o.image /\ entry.instance # NoInstance
               /\ entry.guid = "" \/ o.guid = "" \/ entry.guid = o.guid
        BY ContinueCases
      <4> HIDE DEF next
      <4>2. h[o] = next
        BY <2>3 DEF next
      <4>3. [start |-> o.at, image |-> o.image].start = o.at
        OBVIOUS
      <4> QED
        BY <3>1, <3>3, <3>6, <4>1, <4>2, <4>3
    <3>8. AsThen(l)
      BY <3>4, <3>6, <3>7
    <3>9. /\ o.guid # "" => h[o].guid = o.guid
          /\ o.guid = "" => h[o].guid = h[l].guid
      <4> DEFINE next == Continue(entry, o)
      <4>1. /\ o.guid # "" => next.guid = o.guid
            /\ o.guid = "" /\ o.status # "terminated" => next.guid = entry.guid
        BY ContinueName
      <4> HIDE DEF next
      <4>2. h[o] = next
        BY <2>3 DEF next
      <4> QED
        BY <3>3, <3>7, <4>1, <4>2
    <3>10. ASSUME NEW e \in Between(a, o)
           PROVE  e.status # "terminated" /\ e.image = I.image /\ (e.guid # "" => h[o].guid = e.guid)
      <4>1. CASE e = o
        <5>1. h[l].instance.image = I.image
          BY <3>8
        <5> HIDE DEF I
        <5> QED
          BY <3>7, <3>9, <4>1, <5>1
      <4>2. CASE e # o
        <5>1. e \in Between(a, l)
          BY <3>2, <4>2
        <5>2. e.status # "terminated" /\ e.image = I.image /\ (e.guid # "" => h[l].guid = e.guid)
          BY <3>8, <5>1
        <5> HIDE DEF I
        <5> QED
          BY <3>7, <3>9, <5>2
      <4> QED
        BY <4>1, <4>2
    <3>11. AsThen(o)
      <4>1. h[o].instance = I
        BY <3>7, <3>8
      <4> HIDE DEF Between, I
      <4> QED
        BY <3>10, <4>1
    <3> QED
      BY <2>2, <3>11
  <2> QED
    BY <2>5, <2>6
<1>5. Good(b) /\ ~Past(b)
  <2>1. Good(b)
    BY <1>4
  <2>2. ~Past(b)
    BY <1>3
  <2> QED
    BY <2>1, <2>2
<1>6. AsThen(b)
  BY <1>5
<1> QED
  BY <1>6 DEF LivesOn

-----------------------------------------------------------------------------
\* An id tells what it stands for.

\* What a finite set is mapped to is finite.
LEMMA FiniteRange ==
    ASSUME NEW S, IsFiniteSet(S), NEW f, f = [x \in S |-> f[x]]
    PROVE  IsFiniteSet({f[x] : x \in S})
<1> DEFINE T == {f[x] : x \in S}
<1>1. f \in Surjection(S, T)
  BY DEF Surjection
<1> QED
  BY <1>1, FS_Surjection

LEMMA RowsApart ==
    ASSUME NEW archive, NEW spent, NEW imported, Parts(archive, spent, imported), Recordable(archive),
           NEW k \in Kinds, NEW r \in UsedRows(archive, spent, k)
    PROVE  /\ \A l \in Kinds : \A s \in UsedRows(archive, spent, l) : r.id = s.id => k = l /\ r = s
           /\ r.id \notin ThingIds(archive)
           /\ \A s \in imported : r.id # s.id
<1> DEFINE rows == UNION {{<<m, x>> : x \in archive.events[m].rows \cup archive.fallback[m]} : m \in Kinds}
           ids(path) == {x.id : x \in Range(archive.telemetry[path])}
<1>1. /\ \A x, y \in rows : x[2].id = y[2].id => x = y
      /\ ThingIds(archive) \cap {x[2].id : x \in rows} = {}
      /\ \A p \in DOMAIN archive.telemetry : ids(p) \cap {x[2].id : x \in rows} = {}
  <2>1. IdsTell(archive)
    BY DEF Recordable
  <2> QED
    BY <2>1 DEF IdsTell, ThingIds
<1>2. \A l \in Kinds : \A s \in UsedRows(archive, spent, l) : <<l, s>> \in rows
  <2> SUFFICES ASSUME NEW l \in Kinds, NEW s \in UsedRows(archive, spent, l) PROVE <<l, s>> \in rows
    OBVIOUS
  <2>1. s \in archive.events[l].rows \cup archive.fallback[l]
    BY RowsUsed DEF UsedRows, Usable
  <2> QED
    BY <2>1
<1>3. \A s \in imported : \E p \in DOMAIN archive.telemetry : s.id \in ids(p)
  BY TelemetryRows DEF InOrder, Range
<1>4. \A l \in Kinds : \A s \in UsedRows(archive, spent, l) : <<l, s>>[1] = l /\ <<l, s>>[2] = s
  OBVIOUS
<1> HIDE DEF rows, ids
<1>5. r.id \in {x[2].id : x \in rows}
  <2> DEFINE x == <<k, r>>
  <2>1. x \in rows /\ x[2] = r
    BY <1>2, <1>4
  <2> HIDE DEF x
  <2> QED
    BY <2>1
<1>6. ASSUME NEW l \in Kinds, NEW s \in UsedRows(archive, spent, l), r.id = s.id PROVE k = l /\ r = s
  <2> DEFINE x == <<k, r>>
             y == <<l, s>>
  <2>1. x \in rows /\ y \in rows
    BY <1>2, <1>6
  <2>2. x[1] = k /\ x[2] = r /\ y[1] = l /\ y[2] = s
    BY <1>4, <1>6
  <2> HIDE DEF x, y
  <2>3. x = y
    BY <1>1, <1>6, <2>1, <2>2
  <2> QED
    BY <2>2, <2>3
<1>7. r.id \notin ThingIds(archive)
  BY <1>1, <1>5
<1>8. ASSUME NEW s \in imported PROVE r.id # s.id
  <2>1. PICK p \in DOMAIN archive.telemetry : s.id \in ids(p)
    BY <1>3
  <2>2. ids(p) \cap {x[2].id : x \in rows} = {}
    BY <1>1
  <2> QED
    BY <1>5, <2>1, <2>2
<1> QED
  BY <1>6, <1>7, <1>8

LEMMA RecordsApart ==
    ASSUME NEW archive, NEW spent, NEW imported, Parts(archive, spent, imported), Recordable(archive),
           NEW r \in imported
    PROVE  /\ \A s \in imported : r.id = s.id => r = s
           /\ r.id \notin ThingIds(archive)
<1> DEFINE ids(path) == {x.id : x \in Range(archive.telemetry[path])}
<1>1. \A p \in DOMAIN archive.telemetry :
         /\ ids(p) \cap ThingIds(archive) = {}
         /\ \A q \in DOMAIN archive.telemetry :
               archive.telemetry[p] = archive.telemetry[q] \/ ids(p) \cap ids(q) = {}
  <2>1. IdsTell(archive)
    BY DEF Recordable
  <2> QED
    BY <2>1 DEF IdsTell, ThingIds
<1>2. \A s \in imported : \E p \in DOMAIN archive.telemetry : InOrder(archive.telemetry[p], s) /\ s.id \in ids(p)
  BY TelemetryRows DEF InOrder, Range
<1>3. ASSUME NEW s \in imported, r.id = s.id PROVE r = s
  <2>1. PICK p \in DOMAIN archive.telemetry : InOrder(archive.telemetry[p], r) /\ r.id \in ids(p)
    BY <1>2
  <2>2. PICK q \in DOMAIN archive.telemetry : InOrder(archive.telemetry[q], s) /\ s.id \in ids(q)
    BY <1>2
  <2> DEFINE rows == archive.telemetry[p]
  <2>3. rows = archive.telemetry[q]
    <3> HIDE DEF ids
    <3> QED
      BY <1>1, <1>3, <2>1, <2>2
  <2>4. rows \in Seq(Range(rows))
    BY DEF Recordable
  <2>5. PICK i \in DOMAIN rows : r = rows[i] /\ \A b \in Broken(rows) : i < b
    BY <2>1 DEF InOrder
  <2>6. PICK j \in DOMAIN rows : s = rows[j] /\ \A b \in Broken(rows) : j < b
    BY <2>2, <2>3 DEF InOrder
  <2>7. DOMAIN rows = 1..Len(rows) /\ Len(rows) \in Nat
    BY <2>4
  <2> HIDE DEF rows
  <2>8. ~(i < j)
    <3> SUFFICES ASSUME i < j PROVE FALSE
      OBVIOUS
    <3>1. i \in 1..(j - 1)
      BY <2>7
    <3>2. j \in Broken(rows)
      BY <1>3, <2>5, <2>6, <3>1 DEF Broken
    <3> QED
      BY <2>6, <2>7, <3>2
  <2>9. ~(j < i)
    <3> SUFFICES ASSUME j < i PROVE FALSE
      OBVIOUS
    <3>1. j \in 1..(i - 1)
      BY <2>7
    <3>2. i \in Broken(rows)
      BY <1>3, <2>5, <2>6, <3>1 DEF Broken
    <3> QED
      BY <2>5, <2>7, <3>2
  <2> QED
    BY <2>5, <2>6, <2>7, <2>8, <2>9
<1>4. r.id \notin ThingIds(archive)
  <2> HIDE DEF ids
  <2> QED
    BY <1>1, <1>2
<1> QED
  BY <1>3, <1>4

\* Two observations have two ids.
LEMMA ObservedOnce ==
    ASSUME NEW archive, NEW spent, NEW imported, Parts(archive, spent, imported), Recordable(archive)
    PROVE  \A o, other \in Observations(RunOf(archive)) : o.id = other.id => o = other
<1> DEFINE U == UsedRows(archive, spent, "process")
<1>1. \A o \in Observations(RunOf(archive)) :
         \/ \E r \in U : o = Observation(r) /\ o.id = r.id
         \/ \E r \in imported : o = Recorded(ProcessOf(r.pid, U).parent, r) /\ o.id = r.id
  <2>1. \A r : Observation(r).id = r.id
    BY DEF Observation
  <2>2. \A parent, r : Recorded(parent, r).id = r.id
    BY RecordedFields
  <2> QED
    BY <2>1, <2>2, ObservationsMade DEF Observations, UsedRows
<1> SUFFICES ASSUME NEW o \in Observations(RunOf(archive)), NEW other \in Observations(RunOf(archive)),
                    o.id = other.id
             PROVE  o = other
  OBVIOUS
<1>2. CASE \E r \in U : o = Observation(r) /\ o.id = r.id
  <2>1. PICK r \in U : o = Observation(r) /\ o.id = r.id
    BY <1>2
  <2>2. "process" \in Kinds
    BY DEF Kinds
  <2>3. \A s \in imported : r.id # s.id
    BY <2>2, RowsApart
  <2>4. \A s \in U : r.id = s.id => r = s
    BY <2>2, RowsApart
  <2>5. PICK s \in U : other = Observation(s) /\ other.id = s.id
    BY <1>1, <2>1, <2>3
  <2> QED
    BY <2>1, <2>4, <2>5
<1>3. CASE \E r \in imported : o = Recorded(ProcessOf(r.pid, U).parent, r) /\ o.id = r.id
  <2>1. PICK r \in imported : o = Recorded(ProcessOf(r.pid, U).parent, r) /\ o.id = r.id
    BY <1>3
  <2>2. "process" \in Kinds
    BY DEF Kinds
  <2>3. \A s \in U : r.id # s.id
    BY <2>2, RowsApart
  <2>4. \A s \in imported : r.id = s.id => r = s
    BY RecordsApart
  <2>5. PICK s \in imported : other = Recorded(ProcessOf(s.pid, U).parent, s) /\ other.id = s.id
    BY <1>1, <2>1, <2>3
  <2> QED
    BY <2>1, <2>4, <2>5
<1> QED
  BY <1>1, <1>2, <1>3

\* So is what is seen, with where and when it was seen.
LEMMA SeenOnce ==
    ASSUME NEW archive, NEW spent, NEW imported, Parts(archive, spent, imported), Recordable(archive)
    PROVE  \A x, y \in Seen(RunOf(archive)) : x.id = y.id => x = y
<1> DEFINE run == RunOf(archive)
           where(e) == [id |-> e.id, pid |-> e.pid, at |-> e.at]
           start(id, o) == [id |-> id, pid |-> run.root, at |-> o.at]
<1>1. ASSUME NEW x \in Seen(run)
      PROVE  \/ \E e \in Events(run) : x = where(e)
             \/ \E id \in ThingIds(archive) : \E o \in RootObservation(run) : x = start(id, o)
  <2>1. Seen(run) = {where(e) : e \in Observations(run)} \cup {where(e) : e \in run.files}
                    \cup {where(e) : e \in run.registry} \cup {where(e) : e \in run.network}
                    \cup {start(id, o) : id \in UNION {s.evidence : s \in run.detection.stages}, o \in RootObservation(run)}
    BY DEF Seen
  <2>2. \A id \in UNION {s.evidence : s \in run.detection.stages} : id \in ThingIds(archive)
    BY StagesTraced
  <2> HIDE DEF where, start, run
  <2> QED
    BY <1>1, <2>1, <2>2 DEF Events
<1>2. \A e \in Events(run) : Counted(e)
  BY EventsCounted
<1>3. \A o, other \in RootObservation(run) : o.at = other.at
  <2> SUFFICES ASSUME NEW o \in RootObservation(run), NEW other \in RootObservation(run) PROVE o.at = other.at
    OBVIOUS
  <2> HIDE DEF run
  <2>1. o \in Observations(run) /\ other \in Observations(run) /\ o.at <= other.at /\ other.at <= o.at
    BY DEF RootObservation, Observations
  <2>2. o.at \in Nat /\ other.at \in Nat
    BY <1>2, <2>1 DEF Events, Counted
  <2> QED
    BY <2>1, <2>2
<1>4. ASSUME NEW e \in Events(run), NEW f \in Events(run), e.id = f.id PROVE e.at = f.at /\ e.pid = f.pid
  <2>1. CASE \E k \in Kinds : \E r \in UsedRows(archive, spent, k) : MadeOfRow(archive, spent, k, r, e)
    <3>1. PICK k \in Kinds : \E r \in UsedRows(archive, spent, k) : MadeOfRow(archive, spent, k, r, e)
      BY <2>1
    <3>2. PICK r \in UsedRows(archive, spent, k) : MadeOfRow(archive, spent, k, r, e)
      BY <3>1
    <3>3. /\ \A l \in Kinds : \A s \in UsedRows(archive, spent, l) : r.id = s.id => k = l /\ r = s
          /\ \A s \in imported : r.id # s.id
      BY RowsApart
    <3>4. PICK l \in Kinds : \E s \in UsedRows(archive, spent, l) : MadeOfRow(archive, spent, l, s, f)
      <4>1. ~\E s \in imported : MadeOfRecord(s, f)
        BY <1>4, <3>2, <3>3 DEF MadeOfRow, MadeOfRecord
      <4> QED
        BY <4>1, EventsMade
    <3>5. PICK s \in UsedRows(archive, spent, l) : MadeOfRow(archive, spent, l, s, f)
      BY <3>4
    <3>6. k = l /\ r = s
      BY <1>4, <3>2, <3>3, <3>5 DEF MadeOfRow
    <3> QED
      BY <3>2, <3>5, <3>6 DEF MadeOfRow
  <2>2. CASE \E r \in imported : MadeOfRecord(r, e)
    <3>1. PICK r \in imported : MadeOfRecord(r, e)
      BY <2>2
    <3>2. \A s \in imported : r.id = s.id => r = s
      BY RecordsApart
    <3>3. \A k \in Kinds : \A s \in UsedRows(archive, spent, k) : s.id # r.id
      BY RowsApart
    <3>4. PICK s \in imported : MadeOfRecord(s, f)
      <4>1. ~\E k \in Kinds : \E s \in UsedRows(archive, spent, k) : MadeOfRow(archive, spent, k, s, f)
        BY <1>4, <3>1, <3>3 DEF MadeOfRow, MadeOfRecord
      <4> QED
        BY <4>1, EventsMade
    <3> QED
      BY <1>4, <3>1, <3>2, <3>4 DEF MadeOfRecord
  <2> QED
    BY <2>1, <2>2, EventsMade
<1>5. \A e \in Events(run) : e.id \notin ThingIds(archive)
  <2>1. \A k \in Kinds : \A r \in UsedRows(archive, spent, k) : r.id \notin ThingIds(archive)
    BY RowsApart
  <2>2. \A r \in imported : r.id \notin ThingIds(archive)
    BY RecordsApart
  <2> QED
    BY <2>1, <2>2, EventsMade DEF MadeOfRow, MadeOfRecord
<1>6. \A e : where(e).id = e.id
  OBVIOUS
<1>7. \A id, o : start(id, o).id = id
  OBVIOUS
<1>8. \A e, f : e.id = f.id /\ e.pid = f.pid /\ e.at = f.at => where(e) = where(f)
  OBVIOUS
<1>9. \A id, o, other : o.at = other.at => start(id, o) = start(id, other)
  OBVIOUS
<1> HIDE DEF where, start
<1>10. ASSUME NEW x \in Seen(run), NEW y \in Seen(run), x.id = y.id PROVE x = y
  <2>1. CASE \E e \in Events(run) : x = where(e)
    <3>1. PICK e \in Events(run) : x = where(e)
      BY <2>1
    <3>2. PICK f \in Events(run) : y = where(f)
      BY <1>1, <1>5, <1>6, <1>7, <1>10, <3>1
    <3> QED
      BY <1>4, <1>6, <1>8, <1>10, <3>1, <3>2
  <2>2. CASE \E id \in ThingIds(archive) : \E o \in RootObservation(run) : x = start(id, o)
    <3>1. PICK id \in ThingIds(archive) : \E o \in RootObservation(run) : x = start(id, o)
      BY <2>2
    <3>2. PICK o \in RootObservation(run) : x = start(id, o)
      BY <3>1
    <3>3. PICK number \in ThingIds(archive) : \E other \in RootObservation(run) : y = start(number, other)
      BY <1>1, <1>5, <1>6, <1>7, <1>10, <3>2
    <3>4. PICK other \in RootObservation(run) : y = start(number, other)
      BY <3>3
    <3> QED
      BY <1>3, <1>7, <1>9, <1>10, <3>2, <3>4
  <2> QED
    BY <1>1, <2>1, <2>2
<1> QED
  BY <1>10 DEF run

\* The observations of a run are finitely many and of an order.
LEMMA ObservedOrdered ==
    ASSUME NEW archive, NEW spent, NEW imported, Parts(archive, spent, imported), Recordable(archive), NEW pid
    PROVE  Ordered(SeenOf(RunOf(archive), pid))
<1> DEFINE U == UsedRows(archive, spent, "process")
           run == RunOf(archive)
           S == SeenOf(run, pid)
           seen == [r \in U |-> Observation(r)]
           recorded == [r \in imported |-> Recorded(ProcessOf(r.pid, U).parent, r)]
<1>1. "process" \in Kinds
  BY DEF Kinds
<1>2. IsFiniteSet(U)
  <2> DEFINE rows == LoadAll(spent, archive).rows["process"]
  <2>1. rows \in {archive.events["process"].rows, archive.fallback["process"]}
    BY <1>1, RowsUsed
  <2>2. IsFiniteSet(rows)
    BY <1>1, <2>1 DEF Recordable
  <2>3. U \in SUBSET rows
    BY DEF UsedRows, Usable
  <2> QED
    BY <2>2, <2>3, FS_Subset
<1>3. IsFiniteSet(imported)
  <2> DEFINE M == {e \in archive.manifest : e.path \in DOMAIN archive.telemetry}
             rows(e) == archive.telemetry[e.path]
             taken == [e \in M |-> Range(rows(e))]
  <2>1. IsFiniteSet(M)
    <3>1. M \in SUBSET archive.manifest /\ IsFiniteSet(archive.manifest)
      BY DEF Recordable
    <3> QED
      BY <3>1, FS_Subset
  <2>2. ASSUME NEW e \in M PROVE IsFiniteSet(taken[e])
    <3> DEFINE list == rows(e)
    <3>1. list \in Seq(Range(list))
      BY DEF Recordable
    <3>2. Len(list) \in Nat /\ DOMAIN list = 1..Len(list) /\ list = [i \in 1..Len(list) |-> list[i]]
      BY <3>1
    <3>3. IsFiniteSet(1..Len(list))
      BY <3>2, FS_Interval
    <3> HIDE DEF list
    <3>4. IsFiniteSet({list[i] : i \in 1..Len(list)})
      BY <3>2, <3>3, FiniteRange
    <3>5. Range(list) = {list[i] : i \in 1..Len(list)}
      BY <3>2 DEF Range
    <3>6. taken[e] = Range(list)
      BY DEF list
    <3> QED
      BY <3>4, <3>5, <3>6
  <2>3. imported \subseteq UNION {taken[e] : e \in M}
    BY TelemetryRows DEF InOrder, Range
  <2>4. taken = [e \in M |-> taken[e]]
    OBVIOUS
  <2> HIDE DEF taken, M
  <2>5. IsFiniteSet({taken[e] : e \in M})
    BY <2>1, <2>4, FiniteRange
  <2>6. IsFiniteSet(UNION {taken[e] : e \in M})
    <3> DEFINE all == {taken[e] : e \in M}
    <3>1. \A t \in all : IsFiniteSet(t)
      BY <2>2
    <3> HIDE DEF all
    <3>2. IsFiniteSet(all)
      BY <2>5 DEF all
    <3>3. IsFiniteSet(UNION all)
      BY <3>1, <3>2, FS_UNION
    <3> QED
      BY <3>3 DEF all
  <2> QED
    BY <2>3, <2>6, FS_Subset
<1>4. \A o \in S : (\E r \in U : o = Observation(r)) \/ (\E r \in imported : o = Recorded(ProcessOf(r.pid, U).parent, r))
  BY ObservationsMade DEF SeenOf, Observations, UsedRows
<1>5. IsFiniteSet(S)
  <2>1. IsFiniteSet({seen[r] : r \in U}) /\ IsFiniteSet({recorded[r] : r \in imported})
    <3>1. seen = [r \in U |-> seen[r]] /\ recorded = [r \in imported |-> recorded[r]]
      OBVIOUS
    <3> HIDE DEF seen, recorded, U
    <3> QED
      BY <1>2, <1>3, <3>1, FiniteRange
  <2>2. IsFiniteSet({seen[r] : r \in U} \cup {recorded[r] : r \in imported})
    <3> HIDE DEF seen, recorded, U
    <3> QED
      BY <2>1, FS_Union
  <2>3. S \in SUBSET ({seen[r] : r \in U} \cup {recorded[r] : r \in imported})
    <3>1. \A r \in U : seen[r] = Observation(r)
      OBVIOUS
    <3>2. \A r \in imported : recorded[r] = Recorded(ProcessOf(r.pid, U).parent, r)
      OBVIOUS
    <3> HIDE DEF seen, recorded, U, S
    <3> QED
      BY <1>4, <3>1, <3>2
  <2> HIDE DEF seen, recorded, U, S
  <2> QED
    BY <2>2, <2>3, FS_Subset
<1>6. S \subseteq Observations(run)
  BY DEF SeenOf
<1>7. \A o \in S : o.at \in Nat /\ o.id \in Nat
  BY <1>6, EventsCounted DEF Events, Counted
<1>8. \A o, other \in S : o.id = other.id => o = other
  BY <1>6, ObservedOnce
<1>9. \A o \in S : o.status \in Range(StatusOrder)
  <2>1. \A r \in U : Observation(r).status \in Range(StatusOrder)
    <3> SUFFICES ASSUME NEW r \in U PROVE Observation(r).status \in Range(StatusOrder)
      OBVIOUS
    <3>1. r \in archive.events["process"].rows \cup archive.fallback["process"]
      BY <1>1, RowsUsed DEF UsedRows, Usable
    <3>2. r.status \in Range(StatusOrder)
      BY <1>1, <3>1 DEF Recordable, EventRow
    <3> QED
      BY <3>2 DEF Observation
  <2>2. \A r : ProcessStatus(r) \in Range(StatusOrder)
    <3>1. StatusOrder[2] = "security_observation" /\ StatusOrder[3] = "started" /\ StatusOrder[4] = "terminated"
          /\ \A i \in 1..4 : i \in DOMAIN StatusOrder
      BY DEF StatusOrder
    <3> QED
      BY <3>1 DEF ProcessStatus, Range
  <2> QED
    BY <1>4, <2>1, <2>2, RecordedFields
<1> QED
  BY <1>5, <1>7, <1>8, <1>9 DEF Ordered

\* Two times at which a process number stands for the same instance are of one life.
LEMMA SameInstanceOneLife ==
    ASSUME NEW run, NEW index, index = [p \in Pids(run) |-> History(run, p)],
           \A p \in run.processes : \A o \in p.observations : o.pid = p.pid,
           NEW pid, Ordered(SeenOf(run, pid)), NEW from \in Nat, NEW to \in Nat, from <= to,
           Instance(index, pid, from) # NoInstance, Instance(index, pid, from) = Instance(index, pid, to)
    PROVE  OneLife(run, pid, from, to)
<1> DEFINE S == SeenOf(run, pid)
           h == History(run, pid)
           reached(time) == {o \in S : o.at <= time}
           a == Latest(reached(from))
           b == Latest(reached(to))
<1>1. Follows(h, S)
  BY HistoryFollows
<1>2. DOMAIN h = S
  BY <1>1 DEF Follows
<1>3. ASSUME NEW time, Instance(index, pid, time) # NoInstance
      PROVE  reached(time) # {} /\ Instance(index, pid, time) = h[Latest(reached(time))].instance
  <2> DEFINE known == IF pid \in DOMAIN index /\ pid # 0 /\ time # 0
                      THEN {o \in DOMAIN index[pid] : o.at <= time} ELSE {}
  <2>1. Instance(index, pid, time) = IF known = {} THEN NoInstance ELSE index[pid][Latest(known)].instance
    BY DEF Instance
  <2>2. known # {}
    BY <1>3, <2>1
  <2>3. pid \in Pids(run) /\ index[pid] = h
    BY <2>2
  <2>4. known = reached(time)
    <3> HIDE DEF h, S
    <3> QED
      BY <1>2, <2>2, <2>3
  <2> HIDE DEF known, h, reached
  <2> QED
    BY <2>1, <2>2, <2>3, <2>4
<1>4. reached(from) # {} /\ reached(to) # {} /\ h[a].instance = h[b].instance /\ h[a].instance # NoInstance
  BY <1>3
<1>5. \A o \in S : o.at \in Nat /\ o.at > 0
  BY DEF Ordered, SeenOf
<1> HIDE DEF h
<1>6. /\ a \in S /\ a.at <= from /\ \A o \in S : o.at <= from => o = a \/ ObservedBefore(o, a)
      /\ b \in S /\ b.at <= to /\ \A o \in S : o.at <= to => o = b \/ ObservedBefore(o, b)
  <2>1. reached(from) \in SUBSET S /\ reached(to) \in SUBSET S
    OBVIOUS
  <2>2. a \in reached(from) /\ \A o \in reached(from) : o = a \/ ObservedBefore(o, a)
    <3> HIDE DEF reached
    <3> QED
      BY <1>4, <2>1, LatestOf
  <2>3. b \in reached(to) /\ \A o \in reached(to) : o = b \/ ObservedBefore(o, b)
    <3> HIDE DEF reached
    <3> QED
      BY <1>4, <2>1, LatestOf
  <2> HIDE DEF a, b, S
  <2> QED
    BY <2>2, <2>3
<1> HIDE DEF a, b
<1>7. /\ \A x \in S : ~ObservedBefore(x, x)
      /\ \A x, y, z \in S : ObservedBefore(x, y) /\ ObservedBefore(y, z) => ObservedBefore(x, z)
  BY OrderTotal
<1>8. a = b \/ ObservedBefore(a, b)
  BY <1>5, <1>6
<1>9. LastThen(S, a)
  <2> SUFFICES ASSUME NEW o \in S, ObservedBefore(a, o) PROVE o.at > a.at
    BY DEF LastThen
  <2>1. ~(o.at <= from)
    BY <1>6, <1>7
  <2> QED
    BY <1>5, <1>6, <2>1
<1>10. LivesOn(S, h, a, b)
  <2> HIDE DEF S
  <2>1. Ordered(S) /\ Follows(h, S)
    BY <1>1 DEF S
  <2>2. \A o \in S : o.at > 0
    BY <1>5
  <2>3. a \in S /\ b \in S
    BY <1>6
  <2>4. h[a].instance = h[b].instance /\ h[a].instance # NoInstance
    BY <1>4
  <2> QED
    BY <1>8, <1>9, <2>1, <2>2, <2>3, <2>4, InstanceStays
<1> DEFINE seen == {o \in Observations(run) : o.pid = pid /\ o.at \in 1..to}
           later == {o \in seen : o.at > from}
           newest == {o \in seen \ later : \A p \in seen \ later : p.at <= o.at}
<1>11. seen = {o \in S : o.at <= to}
  <2>1. \A o \in seen : o \in S /\ o.at <= to
    BY DEF SeenOf
  <2>2. \A o \in S : o.at <= to => o \in seen
    BY <1>5 DEF SeenOf
  <2> HIDE DEF seen, S
  <2>3. seen \subseteq S
    BY <2>1
  <2> QED
    BY <2>1, <2>2, <2>3
<1> HIDE DEF seen
<1>12. later = {o \in S : from < o.at /\ o.at <= to} /\ seen \ later = {o \in S : o.at <= from}
  BY <1>5, <1>11
<1>13. \A o \in later \cup {a} :
          o.status # "terminated" /\ o.image = a.image /\ (o.guid # "" => h[b].guid = o.guid)
  <2>1. \A o \in later : o \in S /\ ObservedBefore(a, o) /\ (o = b \/ ObservedBefore(o, b))
    <3> SUFFICES ASSUME NEW o \in later PROVE o \in S /\ ObservedBefore(a, o) /\ (o = b \/ ObservedBefore(o, b))
      OBVIOUS
    <3>1. o \in S /\ from < o.at /\ o.at <= to
      BY <1>12
    <3>2. a.at < o.at
      BY <1>5, <1>6, <3>1
    <3>3. ObservedBefore(a, o)
      BY <3>2 DEF ObservedBefore
    <3> QED
      BY <1>6, <3>1, <3>3
  <2> HIDE DEF later, S
  <2> QED
    BY <1>6, <1>8, <1>10, <2>1 DEF LivesOn
<1>14. a \in newest
  <2>1. \A o \in seen \ later : o.at <= a.at
    <3> SUFFICES ASSUME NEW o \in seen \ later PROVE o.at <= a.at
      OBVIOUS
    <3>1. o \in S /\ (o = a \/ ObservedBefore(o, a))
      BY <1>6, <1>12
    <3> QED
      BY <1>5, <1>6, <3>1 DEF ObservedBefore
  <2>2. a \in seen \ later
    BY <1>6, <1>12
  <2> QED
    BY <2>1, <2>2
<1>15. \A o \in newest : o.status # "terminated"
  <2> SUFFICES ASSUME NEW o \in newest, o.status = "terminated" PROVE FALSE
    OBVIOUS
  <2>1. o \in S /\ o.at <= from /\ a.at <= o.at
    BY <1>12, <1>14
  <2>2. ObservedBefore(o, a)
    BY <1>6, <1>13, <2>1
  <2>3. o.status \in Range(StatusOrder) /\ a.status \in Range(StatusOrder)
    BY <1>6, <2>1 DEF Ordered
  <2>4. StatusRank(o.status) \in 1..4 /\ StatusRank(a.status) \in 1..4
        /\ StatusOrder[StatusRank(o.status)] = o.status /\ StatusOrder[StatusRank(a.status)] = a.status
    BY <2>3, StatusesRanked
  <2>5. StatusRank(o.status) = 4
    BY <2>4, StatusesRanked
  <2>6. StatusRank(a.status) = 4
    <3>1. StatusRank(o.status) <= StatusRank(a.status)
      BY <1>5, <1>6, <2>1, <2>2, <2>3, <2>4, ObservedByNumbers
    <3> QED
      BY <2>4, <2>5, <3>1
  <2>7. a.status = "terminated"
    BY <2>4, <2>6, StatusesRanked
  <2> QED
    BY <1>13, <2>7
<1>16. Cardinality(({a.guid} \cup {p.guid : p \in later}) \ {""}) <= 1
  <2> DEFINE names == ({a.guid} \cup {p.guid : p \in later}) \ {""}
  <2>1. names \in SUBSET {h[b].guid}
    <3> HIDE DEF later
    <3> QED BY <1>13
  <2>2. IsFiniteSet({h[b].guid}) /\ Cardinality({h[b].guid}) = 1
    BY FS_Singleton
  <2> HIDE DEF names
  <2>3. Cardinality(names) <= 1
    BY <2>1, <2>2, FS_Subset
  <2> QED
    BY <2>3 DEF names
<1>17. /\ \A o \in newest \cup later : o.status # "terminated"
       /\ \E o \in newest :
             /\ \A p \in later : p.image = o.image
             /\ Cardinality(({o.guid} \cup {p.guid : p \in later}) \ {""}) <= 1
  <2> HIDE DEF newest, later
  <2> QED
    BY <1>13, <1>14, <1>15, <1>16
<1> QED
  BY <1>17 DEF OneLife, seen

-----------------------------------------------------------------------------
\* The findings of the rules about behaviour.

\* A finding is of such a rule, or has a name that comes behind all of theirs.
LEMMA RulesNamed ==
    ASSUME NEW run, NEW f \in AllFindings(run)
    PROVE  \/ f \in ApplyRules(IndexOf(run), Activities(run)).findings
           \/ \E i \in 17..29 : f.rule = RuleOrder[i]
<1> DEFINE LastNamed(g) == \E i \in 17..29 : g.rule = RuleOrder[i]
           events == Activities(run)
           done == ApplyRules(IndexOf(run), events)
<1>1. \A g \in ClassicFindings(run) : LastNamed(g)
  <2>1. \A name \in ClassicNames : \E i \in 17..29 : name = RuleOrder[i]
    BY DEF ClassicNames, RuleOrder
  <2> QED
    BY <2>1, ClassicsPlain
<1>3. /\ RuleOrder[17] = "FH-B017" /\ RuleOrder[18] = "FH-B018" /\ RuleOrder[19] = "FH-COVERAGE-001"
      /\ RuleOrder[27] = "scanner"
  BY DEF RuleOrder
<1>4. \A g \in ScannerFindings(run) : LastNamed(g)
  BY <1>3, ScannerSays
<1> DEFINE static == StaticConfirmation(run, IndexOf(run), events)
           partial == If(done.checks > MaxPairs /\ events # {}, Partial(events))
<1>5. \A g \in static : LastNamed(g)
  <2>1. \A g \in static : g.rule \in {"FH-B017", "FH-B018"}
    <3> HIDE DEF events
    <3> QED BY StaticMade
  <2> HIDE DEF static
  <2> QED
    BY <1>3, <2>1
<1>6. \A g \in partial : LastNamed(g)
  <2> HIDE DEF events, done
  <2>1. \A g \in partial : g = Partial(events)
    BY DEF If
  <2>2. ASSUME NEW g, g = Partial(events) PROVE g.rule = "FH-COVERAGE-001"
    <3> DEFINE ids == {e.id : e \in First(events)}
    <3>1. g = Finding("FH-COVERAGE-001", <<>>, "", 0, "informational", ids)
      BY <2>2 DEF Partial
    <3> HIDE DEF ids, partial, static, LastNamed
    <3> QED
      BY <3>1 DEF Finding
  <2> HIDE DEF partial
  <2> QED
    BY <1>3, <2>1, <2>2
<1>7. \A g \in Build(run) : g \in done.findings \/ LastNamed(g)
  <2> HIDE DEF LastNamed, done, static, partial
  <2>1. CASE ~run.detection.behavioral
    BY <2>1 DEF Build
  <2>2. CASE run.detection.behavioral
    <3>1. Build(run) = done.findings \cup partial \cup static
      BY <2>2 DEF Build, BuildFromEvents, FindingsOf, IndexOf, done, static, partial
    <3> QED
      BY <1>5, <1>6, <3>1
  <2> QED
    BY <2>1, <2>2
<1> HIDE DEF LastNamed, done
<1>8. f \in done.findings \/ LastNamed(f)
  BY <1>1, <1>4, <1>7 DEF AllFindings
<1> QED
  BY <1>8 DEF LastNamed, done

\* A finding of a rule about one process is of pairs that the rule links.
LEMMA LinkedPairs ==
    ASSUME NEW run, NEW f \in Findings(run), f.rule \in SameProcessRules
    PROVE  \E i \in 1..16 : \E pairs \in SUBSET Matched(i, IndexOf(run), Activities(run)) :
              /\ Rules[i].relation \in {"same_process", "distinct_objects"}
              /\ f.evidence = EvidenceOf(pairs)
<1> DEFINE index == IndexOf(run)
           events == Activities(run)
           done == ApplyRules(index, events)
<1>1. PICK g \in AllFindings(run) : g.rule = f.rule /\ g.evidence = f.evidence
  <2>1. Findings(run) = {Settled(Scoring(AllFindings(run)), g) : g \in AllFindings(run)}
    BY DEF Findings, DeduplicateScores, AllFindings, Settled
  <2>2. \A g \in AllFindings(run) : g = Finding(g.rule, g.about, g.group, g.score, g.severity, g.evidence)
    BY FindingsOfRules DEF OfRules
  <2>3. PICK g \in AllFindings(run) : f = Settled(Scoring(AllFindings(run)), g)
    BY <2>1
  <2> QED
    BY <2>2, <2>3, SettledKeeps
<1>2. PICK j \in 1..16 : f.rule = Rules[j].id /\ Rules[j].relation \in {"same_process", "distinct_objects"}
  <2>1. DOMAIN Rules = 1..16
    BY RulesPlaced
  <2> QED
    BY <2>1 DEF SameProcessRules, Range
<1>3. Rules[j].id = RuleOrder[j]
  BY RulesPlaced
<1>4. g \in done.findings
  <2>1. \A i \in 17..29 : i \in 1..29 /\ j \in 1..29 /\ i # j
    OBVIOUS
  <2>2. ~\E i \in 17..29 : g.rule = RuleOrder[i]
    BY <1>1, <1>2, <1>3, <2>1, PlacesDiffer
  <2> QED
    BY <2>2, RulesNamed
<1> HIDE DEF index, events
<1>5. PICK i \in 1..16 : \E pairs \in SUBSET Matched(i, index, events) : pairs # {} /\ g = FoundBy(i, pairs)
  BY <1>4, RulesMake DEF MadeBy
<1>6. PICK pairs \in SUBSET Matched(i, index, events) : pairs # {} /\ g = FoundBy(i, pairs)
  BY <1>5
<1>7. g.rule = Rules[i].id /\ g.evidence = EvidenceOf(pairs)
  BY <1>6 DEF FoundBy, Finding
<1>8. i = j
  <2>1. Rules[i].id = RuleOrder[i] /\ i \in 1..29 /\ j \in 1..29
    BY RulesPlaced
  <2> QED
    BY <1>1, <1>2, <1>3, <1>7, <2>1, PlacesDiffer
<1> QED
  BY <1>1, <1>2, <1>6, <1>7, <1>8 DEF index, events

LEMMA TwoTimes ==
    ASSUME NEW x \in Nat, NEW y \in Nat, x < y
    PROVE  Min({x, y}) = x /\ Max({x, y}) = y
<1>1. {x, y} \in SUBSET Nat /\ {x, y} # {}
  OBVIOUS
<1>2. IsFiniteSet({x, y})
  <2>1. {x, y} = {x} \cup {y}
    OBVIOUS
  <2>2. IsFiniteSet({x}) /\ IsFiniteSet({y})
    BY FS_Singleton
  <2>3. IsFiniteSet({x} \cup {y})
    BY <2>2, FS_Union
  <2> QED
    BY <2>1, <2>3
<1>3. Min({x, y}) \in {x, y} /\ Min({x, y}) <= x
  BY <1>1, MinNumber
<1>4. Max({x, y}) \in {x, y} /\ y <= Max({x, y})
  BY <1>1, <1>2, MaxNumber
<1> QED
  BY <1>3, <1>4

\* A pair that such a rule links is of one life of one process.
LEMMA PairOneLife ==
    ASSUME NEW archive, NEW spent, NEW imported, Parts(archive, spent, imported), Recordable(archive),
           NEW i \in 1..16, Rules[i].relation \in {"same_process", "distinct_objects"},
           NEW p \in Matched(i, IndexOf(RunOf(archive)), Activities(RunOf(archive)))
    PROVE  /\ Placed(RunOf(archive), p[1]) /\ Placed(RunOf(archive), p[2])
           /\ p[1].pid = p[2].pid /\ p[1].id # p[2].id /\ p[1].time < p[2].time
           /\ OneLife(RunOf(archive), p[1].pid, p[1].time, p[2].time)
<1> DEFINE run == RunOf(archive)
           index == IndexOf(run)
           events == Activities(run)
           a == p[1]
           b == p[2]
<1>1. a \in events /\ b \in events /\ a.time < b.time /\ a.id # b.id
      /\ Linked(Rules[i].relation, index, events, a, b)
  BY DEF Matched, PairsOf, Matches
<1>2. Placed(run, a) /\ Placed(run, b)
  BY <1>1, ActivitiesPlaced
<1>3. Same(index, a, b)
  <2> HIDE DEF index, events, a, b
  <2> QED
    BY <1>1 DEF Linked
<1>4. a.pid = b.pid /\ Instance(index, a.pid, a.time) # NoInstance
      /\ Instance(index, a.pid, a.time) = Instance(index, a.pid, b.time)
  BY <1>3 DEF Same
<1>5. \A q \in run.processes : \A o \in q.observations : o.pid = q.pid
  BY ObservationsMade
<1>6. Ordered(SeenOf(run, a.pid))
  BY ObservedOrdered
<1>7. a.time \in Nat /\ b.time \in Nat
  BY <1>2 DEF Placed
<1>8. index = [pid \in Pids(run) |-> History(run, pid)]
  BY DEF IndexOf
<1> HIDE DEF run, index, events, a, b
<1>9. OneLife(run, a.pid, a.time, b.time)
  <2>1. a.time <= b.time
    BY <1>1, <1>7
  <2> QED
    BY <1>4, <1>5, <1>6, <1>7, <1>8, <2>1, SameInstanceOneLife
<1> QED
  BY <1>1, <1>2, <1>4, <1>9 DEF run, a, b

\* A rule about one process never joins what two processes did that had the same number
\* one after the other: an end, another image or another name tells them apart
\* (correlation.rs).
THEOREM OneLifeLinked == Spec => []LinksOneLife
<1>1. AnalysisInv => LinksOneLife
  <2> DEFINE archive == analysis.archive
             run == analysis.run
             Joined(x, y) ==
                /\ x.id # y.id /\ x.pid = y.pid
                /\ OneLife(run, x.pid, Min({x.at, y.at}), Max({x.at, y.at}))
  <2> SUFFICES ASSUME AnalysisInv, NEW f \in analysis.findings, f.rule \in SameProcessRules,
                      NEW x \in Seen(run), x.id \in f.evidence
               PROVE  \E y \in Seen(run) : y.id \in f.evidence /\ Joined(x, y)
    BY DEF LinksOneLife
  <2>1. RunKnown /\ Judged /\ Recordable(archive)
    BY DEF AnalysisInv
  <2>2. PICK spent, imported : Parts(archive, spent, imported)
    BY <2>1, RunParts DEF RunKnown
  <2>3. run = RunOf(archive) /\ f \in Findings(run)
    BY <2>1 DEF RunKnown, Judged
  <2>4. PICK i \in 1..16 : \E pairs \in SUBSET Matched(i, IndexOf(run), Activities(run)) :
           /\ Rules[i].relation \in {"same_process", "distinct_objects"}
           /\ f.evidence = EvidenceOf(pairs)
    BY <2>3, LinkedPairs
  <2>5. PICK pairs \in SUBSET Matched(i, IndexOf(run), Activities(run)) :
           /\ Rules[i].relation \in {"same_process", "distinct_objects"}
           /\ f.evidence = EvidenceOf(pairs)
    BY <2>4
  <2>6. PICK p \in pairs : x.id = p[1].id \/ x.id = p[2].id
    BY <2>5 DEF EvidenceOf
  <2>7. p[1].id \in f.evidence /\ p[2].id \in f.evidence
    BY <2>5 DEF EvidenceOf
  <2>8. /\ Placed(run, p[1]) /\ Placed(run, p[2])
        /\ p[1].pid = p[2].pid /\ p[1].id # p[2].id /\ p[1].time < p[2].time
        /\ OneLife(run, p[1].pid, p[1].time, p[2].time)
    BY <2>1, <2>2, <2>3, <2>5, PairOneLife
  <2> DEFINE where(a) == [id |-> a.id, pid |-> a.pid, at |-> a.time]
  <2>9. where(p[1]) \in Seen(run) /\ where(p[2]) \in Seen(run)
    BY <2>8 DEF Placed
  <2>10. \A a : where(a).id = a.id /\ where(a).pid = a.pid /\ where(a).at = a.time
    OBVIOUS
  <2>11. p[1].time \in Nat /\ p[2].time \in Nat
    BY <2>8 DEF Placed
  <2>12. /\ Min({p[1].time, p[2].time}) = p[1].time /\ Max({p[1].time, p[2].time}) = p[2].time
         /\ {p[1].time, p[2].time} = {p[2].time, p[1].time}
    BY <2>8, <2>11, TwoTimes
  <2>13. x = where(p[1]) \/ x = where(p[2])
    <3>1. \A u, v \in Seen(run) : u.id = v.id => u = v
      BY <2>1, <2>2, <2>3, SeenOnce
    <3> HIDE DEF where
    <3> QED
      BY <2>6, <2>9, <2>10, <3>1
  <2> HIDE DEF where
  <2>14. Joined(where(p[1]), where(p[2])) /\ Joined(where(p[2]), where(p[1]))
    BY <2>8, <2>10, <2>12
  <2> HIDE DEF Joined
  <2> QED
    BY <2>7, <2>9, <2>10, <2>13, <2>14
<1> QED
  BY <1>1, AnalysisFollows, PTL
=============================================================================
