-------------------------------- MODULE Foxhole --------------------------------
(***************************************************************************)
(* The commands of the tool at work on one artifact root: sandbox commands *)
(* that choose a backend, execute and publish their reports                *)
(* (src/cli.rs), an analysis of an archived run that loads it, judges it,  *)
(* asks VirusTotal about its files and replaces its outputs                *)
(* (src/report_analysis/mod.rs, src/bin/foxhole_analyze.rs), and a         *)
(* clean-up.                                                               *)
(*                                                                         *)
(* A scenario says which of them there are, what they are given and how    *)
(* many times a writer fails or dies.  What happens inside an execution is *)
(* the matter of HyperVRun and RestrictedRun.                              *)
(***************************************************************************)
EXTENDS ArtifactStore, Indicators, Invocation, Reputation

CONSTANT Scenarios

Analyst == "analyst"

Reporters == Writers \ {Analyst}

ASSUME AnalystAssumption == Analyst \in Writers

Capabilities == {"available", "unavailable", "probe_failed"}

\* What a row of events is: numbers of the types that hold them, and the states the agent tells.
EventRow(kind, row) ==
    /\ row.id \in Nat /\ row.at \in Int /\ row.at <= Forever /\ row.pid \in Int
    /\ kind = "process" => row.status \in Range(StatusOrder)

SysmonRow(row) == row.id \in Nat /\ row.at \in Int /\ row.pid \in Nat

\* An id is made of the digest of what it stands for (loader.rs: 302, telemetry.rs: 153).
IdsTell(archive) ==
    LET rows == UNION {{<<k, r>> : r \in archive.events[k].rows \cup archive.fallback[k]} : k \in Kinds}
        others == {archive.hash} \cup {e.id : e \in archive.manifest}
        ids(path) == {r.id : r \in Range(archive.telemetry[path])}
    IN  /\ \A x, y \in rows : x[2].id = y[2].id => x = y
        /\ \A e, f \in archive.manifest : e.id = f.id => e = f
        /\ others \cap {x[2].id : x \in rows} = {}
        /\ \A p \in DOMAIN archive.telemetry :
              /\ ids(p) \cap (others \cup {x[2].id : x \in rows}) = {}
              /\ \A q \in DOMAIN archive.telemetry :
                    archive.telemetry[p] = archive.telemetry[q] \/ ids(p) \cap ids(q) = {}

\* What can be in an archive; what an entry of the manifest says is only known if it is intact.
Recordable(archive) ==
    /\ archive.root \in Nat /\ archive.hash \in Nat \cup {Absent}
    /\ IsFiniteSet(archive.manifest)
    /\ \A e \in archive.manifest : e.intact =>
          /\ e.id \in Nat /\ e.sha256 \in Nat
          /\ e.kind = "telemetry" /\ e.path \in DOMAIN archive.stored => e.path \in DOMAIN archive.telemetry
    /\ \A kind \in Kinds : \A rows \in {archive.events[kind].rows, archive.fallback[kind]} :
          IsFiniteSet(rows) /\ \A row \in rows : EventRow(kind, row)
    /\ \A path \in DOMAIN archive.telemetry :
          LET rows == archive.telemetry[path]
          IN  rows \in Seq(Range(rows)) /\ \A row \in Range(rows) : SysmonRow(row)
    /\ archive.results \in Seq(Range(archive.results))
    /\ \A e \in archive.manifest : e.intact /\ e.kind \in ScannerNames /\ e.path \in DOMAIN archive.stored =>
          \E i \in DOMAIN archive.results : archive.results[i].path = e.path
    /\ IdsTell(archive)

\* A command writes a report in the directory of the reports, or is given a name that is
\* not below the root; the analysis writes each of its outputs once, in a directory of
\* its own (artifact.rs: 319, report_analysis/mod.rs: 107).  What is there was written before.
Possible(s) ==
    /\ s.wants \in [Writers -> Wishes]
    /\ \A w \in Reporters : s.wants[w].manner = "new" /\ s.wants[w].path.dir \in {"reports", "outside"}
    /\ s.wants[Analyst].manner = "replace" /\ s.wants[Analyst].path.dir = "analysis"
    /\ s.files \in [Paths -> Contents]
    /\ \A p \in Paths : s.files[p] = NoFile \/ (s.files[p].owner = "earlier" /\ s.files[p].whole
                                                  /\ p.name \notin Writers)
    /\ s.outputs \in Seq({"a", "b"})
    /\ \A i, j \in DOMAIN s.outputs : s.outputs[i] = s.outputs[j] => i = j
    /\ s.args \in [Reporters -> Arguments] /\ s.capability \in Capabilities
    /\ s.analyzes => Recordable(s.archive)

ASSUME ScenarioAssumption == \A s \in Scenarios : Possible(s)

VARIABLES
    commands,     \* each sandbox command: its options, its step and what it decided
    analysis,     \* the analysis: its archive, its phase and what it made of it
    outputs,      \* outputs it has yet to write
    faults        \* failures and deaths of writers that are left

analysisVars == <<analysis, outputs, reputationVars>>
vars == <<storeVars, commands, analysis, outputs, reputationVars, faults>>

NoRun == [loaded |-> FALSE]

Init ==
    \E s \in Scenarios :
        /\ StoreInit(s)
        /\ ReputationInit
        /\ commands = [w \in Reporters |->
               [args |-> s.args[w], capability |-> s.capability, backend |-> "none",
                policy |-> "none", step |-> IF s.commands THEN "destination" ELSE "over"]]
        /\ analysis = [archive |-> s.archive, run |-> NoRun, findings |-> {}, verdict |-> "none",
                       iocs |-> {}, answers |-> [files |-> {}, status |-> "none"], queried |-> s.queried,
                       phase |-> IF s.analyzes THEN "load" ELSE "none"]
        /\ outputs = s.outputs
        /\ faults = s.faults

-----------------------------------------------------------------------------
\* run_sandbox

Decides(w, decided) ==
    /\ commands' = [commands EXCEPT ![w] = decided]
    /\ UNCHANGED <<analysisVars, faults>>

At(w, step) == [commands[w] EXCEPT !.step = step]

\* The name of the report is checked before anything runs, the place later.
ResolveDestination(w) ==
    /\ commands[w].step = "destination"
    /\ Decides(w, At(w, IF commands[w].args.report /\ ~ValidName(w) THEN "failed" ELSE "backend"))
    /\ UNCHANGED storeVars

ChooseBackend(w) ==
    /\ commands[w].step = "backend"
    /\ LET args == commands[w].args
           requested == RequestedBackend(args)
           selection == IF requested.ok
                        THEN ResolveBackend(requested.backend, Capable(args, commands[w].capability),
                                            args.fallback)
                        ELSE Refusal
       IN  IF selection.ok
           THEN Decides(w, [At(w, "request") EXCEPT !.backend = selection.backend])
           ELSE Decides(w, At(w, "failed"))
    /\ UNCHANGED storeVars

BuildRequest(w) ==
    /\ commands[w].step = "request"
    /\ LET request == BuildSandboxRequest(commands[w].args, commands[w].backend)
       IN  IF request.ok THEN Decides(w, [At(w, "execute") EXCEPT !.policy = request.policy])
           ELSE Decides(w, At(w, "failed"))
    /\ UNCHANGED storeVars

\* execute_windows_backend: an error ends the command, it selects nothing else.
Execute(w) ==
    /\ commands[w].step = "execute"
    /\ \/ Decides(w, At(w, "failed")) /\ UNCHANGED storeVars
       \/ /\ ~commands[w].args.report
          /\ Decides(w, At(w, "over")) /\ UNCHANGED storeVars
       \/ /\ commands[w].args.report
          /\ Decides(w, At(w, "report"))
          /\ at' = [at EXCEPT ![w] = "start"]
          /\ UNCHANGED <<wants, files, unread, listed, counted, result, cleaning>>

ReportWritten(w) ==
    /\ commands[w].step = "report" /\ at[w] = "over"
    /\ Decides(w, At(w, IF result[w] = "published" THEN "over" ELSE "failed"))
    /\ UNCHANGED storeVars

Command(w) ==
    ResolveDestination(w) \/ ChooseBackend(w) \/ BuildRequest(w) \/ Execute(w) \/ ReportWritten(w)

-----------------------------------------------------------------------------
\* analyze_run

Analyzes(phase) == analysis' = [analysis EXCEPT !.phase = phase]

LoadRun ==
    /\ analysis.phase = "load"
    /\ LET run == Load(analysis.archive)
       IN  IF run.loaded
           THEN analysis' = [analysis EXCEPT !.phase = "judge", 
                                            !.run = [run EXCEPT !.detection = Import(run, analysis.archive)]]
           ELSE Analyzes("failed")
    /\ UNCHANGED <<storeVars, commands, outputs, reputationVars, faults>>

JudgeRun ==
    /\ analysis.phase = "judge"
    /\ LET findings == Findings(analysis.run)
       IN  analysis' = [analysis EXCEPT !.phase = "ask", !.findings = findings,
                                        !.verdict = VerdictOf(analysis.run, findings),
                                        !.iocs = ExtractIocs(analysis.run)]
    /\ UNCHANGED <<storeVars, commands, outputs, reputationVars, faults>>

PathOrder == <<"target", "cmd.exe", "cookies", "login data", "payload.exe", "plain file",
               "script.ps1", "startup.exe", "tool.exe">>

\* The settings are read only now: without them there is no analysis at all.
LackSettings ==
    /\ analysis.phase = "ask" /\ analysis.queried /\ asked = <<>>
    /\ Analyzes("failed")
    /\ UNCHANGED <<storeVars, commands, outputs, reputationVars, faults>>

AskVirusTotal ==
    /\ analysis.phase = "ask" /\ analysis.queried
    /\ Ask(Candidates(analysis.run), PathOrder)
    /\ UNCHANGED <<storeVars, commands, analysis, outputs, faults>>

EndAsking ==
    /\ analysis.phase = "ask"
    /\ ~analysis.queried \/ Unasked(Candidates(analysis.run)) = {}
    /\ analysis' = [analysis EXCEPT !.phase = "validate",
                                   !.answers = Answers(Candidates(analysis.run), analysis.queried)]
    /\ UNCHANGED <<storeVars, commands, outputs, reputationVars, faults>>

\* What an id may stand for: an event, an artifact, or the target by its digest.
EventIds(run) ==
    {o.id : o \in Observations(run)} \cup {f.id : f \in run.files}
    \cup {r.id : r \in run.registry} \cup {n.id : n \in run.network}

Resolved(run) == EventIds(run) \cup {a.id : a \in run.artifacts} \cup ({run.hash} \ {Absent})

\* What names evidence of a run: not nothing, not too much, and only what is there.
Resolves(run, ids) ==
    /\ ids # {} /\ Cardinality(ids) <= MaxReferences
    /\ ids \subseteq Resolved(run)

\* publication::validate: no event or artifact has the id of another and no finding the
\* identifier of another, and all that is cited resolves.  What is told of the target
\* itself cites nothing.
Publishable(run, findings, iocs) ==
    /\ ~run.repeated
    /\ \A f, g \in findings : f.rule = g.rule /\ f.about = g.about => f = g
    /\ \A f \in findings : Resolves(run, f.evidence)
    /\ \A s \in run.detection.stages : Resolves(run, s.evidence)
    /\ \A o \in run.detection.owners : Resolves(run, o.evidence)
    /\ \A i \in iocs : i.sources = {} \/ Resolves(run, i.sources)

ValidateOutputs ==
    /\ analysis.phase = "validate"
    /\ Analyzes(IF Publishable(analysis.run, analysis.findings, analysis.iocs)
                THEN "write" ELSE "failed")
    /\ UNCHANGED <<storeVars, commands, outputs, reputationVars, faults>>

\* write_outputs: one after the other, until one cannot be written.
WriteOutput ==
    /\ analysis.phase = "write" /\ outputs # <<>>
    /\ at[Analyst] = "idle" \/ (at[Analyst] = "over" /\ result[Analyst] = "published")
    /\ wants' = [wants EXCEPT ![Analyst].path = [dir |-> "analysis", name |-> Head(outputs)]]
    /\ at' = [at EXCEPT ![Analyst] = "start"]
    /\ result' = [result EXCEPT ![Analyst] = "none"]
    /\ outputs' = Tail(outputs)
    /\ UNCHANGED <<files, unread, listed, counted, cleaning, commands, analysis, reputationVars, faults>>

EndWriting ==
    /\ analysis.phase = "write"
    /\ \/ at[Analyst] = "idle" /\ outputs = <<>> /\ Analyzes("over")
       \/ /\ at[Analyst] = "over" /\ result[Analyst] = "published" /\ outputs = <<>>
          /\ Analyzes("over")
       \/ at[Analyst] = "over" /\ result[Analyst] # "published" /\ Analyzes("failed")
    /\ UNCHANGED <<storeVars, commands, outputs, reputationVars, faults>>

Analyze ==
    \/ LoadRun \/ JudgeRun \/ LackSettings \/ AskVirusTotal \/ EndAsking \/ ValidateOutputs
    \/ WriteOutput \/ EndWriting

-----------------------------------------------------------------------------
Fault(w) ==
    /\ faults > 0 /\ faults' = faults - 1
    /\ FailToWrite(w) \/ DieWriting(w)
    /\ UNCHANGED <<commands, analysisVars>>

Store ==
    /\ \/ \E w \in Writers : Publish(w)
       \/ \E c \in Cleaners : Clean(c)
    /\ UNCHANGED <<commands, analysisVars, faults>>

Next ==
    \/ \E w \in Reporters : Command(w)
    \/ Analyze
    \/ Store
    \/ \E w \in Writers : Fault(w)

Spec == Init /\ [][Next]_vars

-----------------------------------------------------------------------------
\* Properties.  CeilingHolds and ReportsKept are those of ArtifactStore.

\* cli.rs, dispatcher.rs: the weaker backend runs only what was to run there or was
\* allowed to, and the network is one that an option asks for and the backend has;
\* nothing that happens later changes that.
BackendChosen ==
    \A w \in Reporters :
        LET c == commands[w]
        IN  /\ c.backend = "restricted" => WeakerIsolationAllowed(c.args, c.capability)
            /\ c.backend = "hyperv" => c.args.sandbox # "restricted" /\ c.capability = "available"
            /\ c.policy # "none" => NetworkAsked(c.args, c.policy)
            /\ c.policy = "host_server" \/ (c.policy # "none" /\ c.args.profile # "restricted")
                   => c.backend = "hyperv"

Loaded == analysis.run.loaded

\* The rows an analysis had for a kind of event: those of the result of the guest if it
\* warns that the file is missing or of no use.
RowsOf(kind) ==
    IF \E code \in {"missing_event_artifact", "malformed_artifact"} :
           Warning(code, kind) \in analysis.run.warnings
    THEN analysis.archive.fallback[kind] ELSE analysis.archive.events[kind].rows

\* When a process with this number was seen, and when it was alive as far as is known.
Sightings(pid) == {r \in Usable("process", RowsOf("process")) : r.pid = pid}

Alive(pid, time) ==
    LET ends == {r.at : r \in {s \in Sightings(pid) : s.status = "terminated"}}
        starts == {r.at : r \in {s \in Sightings(pid) : s.status # "terminated"}}
    IN  /\ IF starts = {} THEN time \in ends ELSE Min(starts) <= time
        /\ \A end \in ends : time <= end

\* process_index.rs: an event without a process goes to one that was alive, and of
\* those to the one seen nearest to it; to the target if there is none.
Attribution ==
    Loaded => \A e \in analysis.run.files \cup analysis.run.registry : e.inferred =>
        LET near == {r \in Usable("process", RowsOf("process")) : Alive(r.pid, e.at)}
        IN  IF near = {} THEN e.pid = analysis.archive.root
            ELSE \E r \in near : /\ r.pid = e.pid
                                 /\ \A s \in near :
                                       \/ Distance(r.at, e.at) < Distance(s.at, e.at)
                                       \/ Distance(r.at, e.at) = Distance(s.at, e.at) /\ r.pid <= s.pid

\* Where and when evidence was seen; what a scanner says is of the target as it was started.
Seen(run) ==
    {[id |-> e.id, pid |-> e.pid, at |-> e.at] : e \in Observations(run)}
    \cup {[id |-> e.id, pid |-> e.pid, at |-> e.at] : e \in run.files}
    \cup {[id |-> e.id, pid |-> e.pid, at |-> e.at] : e \in run.registry}
    \cup {[id |-> e.id, pid |-> e.pid, at |-> e.at] : e \in run.network}
    \cup {[id |-> id, pid |-> run.root, at |-> o.at] :
             id \in UNION {s.evidence : s \in run.detection.stages}, o \in RootObservation(run)}

\* Nothing between two times says that the process of this number is another one.
OneLife(run, pid, from, to) ==
    LET seen == {o \in Observations(run) : o.pid = pid /\ o.at \in 1..to}
        later == {o \in seen : o.at > from}
        newest == {o \in seen \ later : \A p \in seen \ later : p.at <= o.at}
    IN  /\ \A o \in newest \cup later : o.status # "terminated"
        /\ \E o \in newest :
              /\ \A p \in later : p.image = o.image
              /\ Cardinality(({o.guid} \cup {p.guid : p \in later}) \ {""}) <= 1

SameProcessRules == {r.id : r \in {q \in Range(Rules) : q.relation \in {"same_process", "distinct_objects"}}}

\* correlation.rs: a rule about one process never joins what two processes did that
\* had the same number one after the other.
LinksOneLife ==
    \A f \in {g \in analysis.findings : g.rule \in SameProcessRules} :
        LET evidence == {e \in Seen(analysis.run) : e.id \in f.evidence}
        IN  \A a \in evidence : \E b \in evidence :
                /\ a.id # b.id /\ a.pid = b.pid
                /\ OneLife(analysis.run, a.pid, Min({a.at, b.at}), Max({a.at, b.at}))

Scored(findings) == {f \in findings : f.score > 0}

Weighty(findings) == {f \in findings : f.severity # "informational"}

\* "maximum contribution per behavior family; overlapping evidence is scored once":
\* and a finding that does not score shares its family or evidence with another.
ScoredOnce ==
    LET findings == analysis.findings
        Shares(f, g) == ScoreGroup(f) = ScoreGroup(g) \/ f.evidence \cap g.evidence # {}
    IN  /\ \A f, g \in Scored(findings) : f # g => ~Shares(f, g)
        /\ \A f \in Weighty(findings) \ Scored(findings) :
              \E g \in Weighty(findings) \ {f} : Shares(f, g)
        /\ Weighty(findings) # {} => Scored(findings) # {}

\* A result that says something of the whole target, or that it was not to look at it.
Conclusive(archive, scanner, said) ==
    /\ said.json /\ said.scanner = scanner /\ said.pinned /\ said.sameLimits
    /\ \/ said.status = "Disabled"
       \/ /\ said.status = "Completed" /\ ~said.truncated /\ ~said.warned
          /\ scanner = "pe" \/ "builtin" \in said.packs
    /\ said.hash = IF said.target = "primary" THEN archive.hash ELSE archive.stored[said.target]

\* verdict.rs: a run is called harmless only if every row of the guest has been taken in,
\* every artifact is the one the manifest describes, all structured telemetry could be
\* read, and every scanner that was to look at the target has said so of the very file.
\* Telemetry that has no time or is of a process the run does not know is passed over
\* without a word.
VerdictHonest ==
    analysis.verdict \in {"benign", "informational"} =>
        LET a == analysis.archive
        IN  /\ a.complete = Channels /\ ~a.guestWarned /\ a.health.malformed = {}
            /\ \A k \in Kinds :
                  /\ a.events[k].state = "whole"
                  /\ {r.id : r \in a.events[k].rows} \subseteq EventIds(analysis.run)
            /\ \A e \in a.manifest :
                  /\ e.intact /\ e.path \in DOMAIN a.stored /\ a.stored[e.path] = e.sha256
                  /\ e.kind = "telemetry" =>
                        \A r \in Range(a.telemetry[e.path]) : r.intact /\ r.known
                  /\ e.kind \in ScannerNames =>
                        Conclusive(a, e.kind, a.results[Place(a.results, e)])
            /\ a.config.state # "invalid"
            /\ \A s \in ScannerNames \cap EffectiveConfig(a.config).enabled :
                  \E e \in a.manifest : e.kind = s

\* What the report cites, for one thing each.
Cited(run, findings, iocs) ==
    {x.evidence : x \in findings \cup run.detection.stages \cup run.detection.owners}
    \cup {i.sources : i \in iocs}

\* loader.rs, ioc.rs, publication.rs: a row of the guest is in the run or a warning is
\* about it, an artifact that counts is the one the manifest describes, and whatever
\* the report cites is evidence of the run, under identifiers that are used once: the
\* last gate refuses a report only if an id is repeated or one thing cites too much.
EvidenceTraced ==
    Loaded =>
        LET a == analysis.archive
            run == analysis.run
            warned == {w[2] : w \in {v \in run.warnings : v[1] # "malformed_artifact"
                                       /\ v[1] # "missing_event_artifact" /\ v[1] # "invalid_capture_health"}}
        IN  /\ \A k \in Kinds :
                  \/ {r.id : r \in a.events[k].rows} \subseteq EventIds(run) \cup warned
                  \/ \E code \in {"malformed_artifact", "missing_event_artifact"} : Warning(code, k) \in run.warnings
            /\ \A i \in analysis.iocs : i.type = "sha256" =>
                  \/ i.value \in TargetHashes(a)
                  \/ i.value \in {f.sha256 : f \in run.files}
                  \/ \E e \in a.manifest : e.safe /\ e.path \in DOMAIN a.stored /\ i.value = a.stored[e.path]
            /\ analysis.phase \in {"validate", "write", "over"} =>
                  (Publishable(run, analysis.findings, analysis.iocs) <=>
                      /\ ~run.repeated
                      /\ \A ids \in Cited(run, analysis.findings, analysis.iocs) :
                            Cardinality(ids) <= MaxReferences)

\* virustotal.rs: a file has a report only if the service gave one about that very file;
\* a digest is asked about once, nothing after a refusal or beyond the limit, and the
\* reputation is complete when every file with a digest has a report.
ReputationHonest ==
    LET reported == {asked[i].digest : i \in {j \in DOMAIN asked : asked[j].reply = "report"}}
    IN  /\ \A f \in analysis.answers.files : f.status = "available" <=> f.sha256 \in reported
        /\ \A i, j \in DOMAIN asked : asked[i].digest = asked[j].digest => i = j
        /\ Len(asked) <= MaxLookups
        /\ \A i \in DOMAIN asked : Refuses(asked[i].reply) => i = Len(asked)
        /\ analysis.answers.status = "complete" =>
              {f.sha256 : f \in analysis.run.files} \ {Absent} \subseteq reported
=============================================================================
