-------------------------------- MODULE Verdict --------------------------------
(***************************************************************************)
(* The results of the scanners (src/report_analysis/detection.rs) and the  *)
(* verdict (src/report_analysis/verdict.rs) on a run that was loaded.      *)
(***************************************************************************)
EXTENDS Correlation, RunLoader

CONSTANTS
    MassFiles, MassWindow,   \* files changed, within what time
    MaxChecks, MaxMatches,   \* connections compared with packets, and with one packet
    MaxCorrelations,         \* packets given to processes
    MaxResultBytes,          \* one scanner result
    MaxScannerBytes,         \* all scanner results together
    MaxReferences            \* evidence that one thing cites

ASSUME ReferencesAssumption == MaxReferences \in Nat \ {0}

ScannerNames == {"yara", "pe", "capa", "network"}
Channels == {"processes", "network", "filesystem", "registry"}

-----------------------------------------------------------------------------
\* import

\* Mutant: the warnings of the loader are not telemetry.
TelemetryComplete_Unwarned(run) == run.complete = Channels

TelemetryComplete(run) == run.complete = Channels /\ run.warnings = {}

VerifiedTarget(run) == run.hash # Absent

\* DetectionConfig: what the guest says it was told to do; the defaults if it says nothing
\* that can be used: everything is on and no rule pack is known.
DefaultConfig == [state |-> "absent", enabled |-> ScannerNames, behavioral |-> TRUE, builtin |-> {}, user |-> FALSE]

EffectiveConfig(config) == IF config.state = "given" THEN config ELSE DefaultConfig

\* What the target and the verified artifacts are called by scanners.
Aliases(run) ==
    (IF VerifiedTarget(run) THEN {"primary"} ELSE {})
    \cup {a.path : a \in {b \in run.artifacts : b.verified}}

IdOf(run, alias) ==
    LET named == {a \in run.artifacts : a.path = alias /\ a.verified}
    IN  IF named = {} THEN run.hash ELSE (CHOOSE a \in named : TRUE).id

\* The artifacts that are said to be results of scanners, by the path of the file, its
\* digest and the entry.  "results" is what such files hold, in the order of their paths.
ResultFiles(run) == {a \in run.artifacts : a.kind \in ScannerNames}

Place(results, artifact) == CHOOSE i \in DOMAIN results : results[i].path = artifact.path

EarlierFile(results, a, b) ==
    \/ Place(results, a) < Place(results, b)
    \/ a.path = b.path /\ (a.sha256 < b.sha256 \/ (a.sha256 = b.sha256 /\ a.id < b.id))

\* What the manifest says of the size of those up to this one.
ReadWith(run, results, artifact) ==
    LET upTo == {a \in ResultFiles(run) : a = artifact \/ EarlierFile(results, a, artifact)}
    IN  MapThenSumSet(LAMBDA a : a.size, upTo)

\* What a scanner looked at must be the target the host hashed or a verified artifact.
TargetOf(run, result) ==
    IF result.target = "primary" THEN run.hash
    ELSE LET named == {a \in run.artifacts : a.path = result.target /\ a.verified}
         IN  IF named = {} THEN Absent ELSE (CHOOSE a \in named : TRUE).sha256

-----------------------------------------------------------------------------
\* parse_result: what a result claims is checked before any of it is used.

Packs(config, scanner) ==
    (IF scanner \in config.builtin THEN {"builtin"} ELSE {})
    \cup (IF scanner = "yara" /\ config.user THEN {"user"} ELSE {})

\* One JSON value within the limits, without a key twice.
Bounded(result) == result.json

\* Of this scanner in the version that is known, run with the limits it was given.
Identified(scanner, result) == result.scanner = scanner /\ result.pinned /\ result.sameLimits

\* A scanner has nothing to say in the place of another.
OwnStage(result) ==
    /\ result.scanner # "network" => result.found.packets = {}
    /\ result.scanner # "pe" => result.found.strings = {} /\ ~result.found.packed

\* What is complete is without a warning, what is not has one.
StatusHolds(result) ==
    /\ result.status = "Completed" => ~result.truncated /\ ~result.warned
    /\ result.status \notin {"Completed", "Disabled"} => result.warned

PacksHold(config, result) ==
    /\ result.packs \subseteq Packs(config, result.scanner)
    /\ \/ result.scanner = "pe"
       \/ result.status # "Completed" /\ result.found.findings = {} /\ result.found.packets = {}
       \/ "builtin" \in result.packs

FindingsHold(result) ==
    /\ \A f \in result.found.findings : f.fits /\ f.pack \in result.packs
    /\ \A f, g \in result.found.findings :
          /\ f # g => f.id # g.id
          /\ f.pack = g.pack /\ f.rule = g.rule => f.attack = g.attack

PacketsHold(result) ==
    /\ \A p \in result.found.packets : p.fits
    /\ {p.id : p \in result.found.packets} \cap {f.id : f \in result.found.findings} = {}

\* One finding for a rule.
Deduplicated(findings) ==
    {f \in findings : \A g \in findings : f.pack = g.pack /\ f.rule = g.rule => f.id <= g.id}

\* resolve: what is cited exists and is named once, and there is something but not too much.
ResolvesIn(cited, available) ==
    /\ Len(cited) \in 1..MaxReferences
    /\ Range(cited) \subseteq available
    /\ \A i, j \in DOMAIN cited : cited[i] = cited[j] => i = j

Parses(run, config, scanner, result) ==
    /\ Bounded(result) /\ Identified(scanner, result) /\ OwnStage(result) /\ StatusHolds(result)
    /\ PacksHold(config, result) /\ FindingsHold(result) /\ PacketsHold(result)
    /\ ResolvesIn(result.cites, Aliases(run))

\* Each result is bounded, verified, about a known target and the first of its scanner
\* for it.
Acceptable(run, config, results, artifact) ==
    LET result == results[Place(results, artifact)]
    IN  /\ artifact.verified
        /\ artifact.size <= MaxResultBytes
        /\ ReadWith(run, results, artifact) <= MaxScannerBytes
        /\ TargetOf(run, result) # Absent
        /\ result.hash = TargetOf(run, result)
        /\ Parses(run, config, artifact.kind, result)

NoFindings == [findings |-> {}, packets |-> {}, strings |-> {}, packed |-> FALSE]

\* "evidence" stands for what the result cites; its findings and packets cite the same.
Stage(scanner, primary, hash, status, found, evidence) ==
    [scanner |-> scanner, primary |-> primary, hash |-> hash, status |-> status, evidence |-> evidence,
     findings |-> Deduplicated(found.findings), packets |-> found.packets, strings |-> found.strings,
     packed |-> found.packed]

StageOf(run, config, results, artifact) ==
    LET result == results[Place(results, artifact)]
        again == \E a \in ResultFiles(run) :
                    /\ EarlierFile(results, a, artifact) /\ Acceptable(run, config, results, a)
                    /\ a.kind = artifact.kind
                    /\ results[Place(results, a)].target = result.target
    IN  IF Acceptable(run, config, results, artifact) /\ ~again
        THEN Stage(artifact.kind, result.target = "primary", result.hash, result.status,
                   result.found, {IdOf(run, alias) : alias \in Range(result.cites)} \cup {artifact.id})
        ELSE Stage(artifact.kind, FALSE, artifact.sha256, "InvalidOutput", NoFindings, {artifact.id})

Severity(status) ==
    CHOOSE n \in 0..7 :
        <<"Completed", "Disabled", "Skipped", "Partial", "Unavailable", "TimedOut", "Failed",
          "InvalidOutput">>[n + 1] = status

\* The worst of its results.
CoverageOf(config, stages, scanner) ==
    LET mine == {s.status : s \in {t \in stages : t.scanner = scanner}}
    IN  IF scanner \notin config.enabled THEN "Disabled"
        ELSE IF mine = {} THEN "Unavailable"
        ELSE CHOOSE s \in mine : \A t \in mine : Severity(t) <= Severity(s)

\* Connections on the exact flow of a packet, and those within a second of it.
OnFlow(run, packet) ==
    {n \in run.network : ~n.inferred /\ n.pid # 0 /\ n.flow # 0 /\ n.flow = packet.flow}

Near(run, packet) == {n \in OnFlow(run, packet) : Distance(n.at, packet.at) <= 1}

Identities(run, packet) == {<<n.pid, n.guid>> : n \in Near(run, packet)}

PacketOrder(p, q) == p.at < q.at \/ (p.at = q.at /\ p.id < q.id)

\* A packet is given to a process if only one can be meant, while there is room and
\* comparing is affordable.  Captures have the order of their targets' names in the code.
SummarizeNetwork(run, stages) ==
    LET packets == UNION {{<<s, p>> : p \in s.packets} : s \in stages}
        timed == {x \in packets : x[2].at # Absent /\ OnFlow(run, x[2]) # {}}
        before(x) == {y \in timed : \/ y[1].hash < x[1].hash
                                    \/ y[1].hash = x[1].hash /\ PacketOrder(y[2], x[2])}
        matches(x) == Cardinality(Near(run, x[2]))
        crowded == {x \in timed : matches(x) > MaxMatches}
        clear == {x \in timed \ crowded : Cardinality(Identities(run, x[2])) = 1}
        late == {x \in timed : \/ MapThenSumSet(matches, before(x) \cup {x}) > MaxChecks
                               \/ Cardinality(before(x) \cap clear) >= MaxCorrelations}
    IN  [owners |-> {[packet |-> x[2].id, pid |-> (CHOOSE i \in Identities(run, x[2]) : TRUE)[1],
                      evidence |-> x[1].evidence \cup {n.id : n \in Near(run, x[2])}] : x \in clear \ late},
         cut |-> crowded \cup late # {}]

Import(run, archive) ==
    LET config == EffectiveConfig(archive.config)
        stages == {StageOf(run, config, archive.results, a) : a \in ResultFiles(run)}
        coverage == [s \in ScannerNames |-> CoverageOf(config, stages, s)]
        missing == {s \in ScannerNames : ~\E t \in stages : t.scanner = s}
        summary == SummarizeNetwork(run, stages)
    IN  [behavioral |-> config.behavioral,
         coverage |-> coverage,
         stages |-> stages \cup
             (IF VerifiedTarget(run)
              THEN {Stage(s, TRUE, run.hash, IF s \in config.enabled THEN "Unavailable" ELSE "Disabled",
                          NoFindings, {run.hash}) : s \in missing}
              ELSE {}),
         owners |-> summary.owners,
         cautions |->
             If(archive.guestWarned, "guest_detection_collection_incomplete")
             \cup If(archive.config.state = "invalid", "invalid_detection_configuration")
             \cup If(config.behavioral /\ ~TelemetryComplete(run), "telemetry_incomplete")
             \cup If(missing # {} /\ ~VerifiedTarget(run), "unavailable_without_verified_target")
             \cup If(summary.cut, "packet_correlation_budget_exhausted")]

-----------------------------------------------------------------------------
\* The rules of verdict.rs: what one event says by itself.

ClassicRule(id, severity, events) ==
    If(events # {}, Finding(id, <<>>, "", CASE severity = "informational" -> 0
                                            [] severity = "suspicious" -> 30
                                            [] severity = "malicious" -> 70,
                            severity, {e.id : e \in events}))

Refused(n) == n.state \in {"blocked", "failed"}

Observations(run) == UNION {p.observations : p \in run.processes}

\* The first that is not its end, of each process whose parent is known.
ChildObservations(run) ==
    UNION {{o \in p.observations :
               /\ o.status # "terminated"
               /\ \A other \in p.observations : other.status # "terminated" => ~ByTime(other, o)} :
              p \in {q \in run.processes : q.parent \in {r.pid : r \in run.processes}}}

AlternateStream(f) == f.action = "alternate_stream_create" \/ f.path = "file:stream"

\* One event of those that say the same.
DistinctFiles(run) ==
    {f \in run.files : \A g \in run.files :
        <<g.at, g.pid, g.path, g.action>> = <<f.at, f.pid, f.path, f.action>> => f.id <= g.id}

\* The first of the largest sets of files changed within the window.
Burst(run) ==
    LET files == DistinctFiles(run)
        within(f) == {g \in files : g.at >= f.at /\ g.at - f.at <= MassWindow}
        most == Max({0} \cup {Cardinality(within(f)) : f \in files})
        first == {f \in files : /\ Cardinality(within(f)) = most
                                /\ \A g \in files : Cardinality(within(g)) = most => f.at <= g.at}
    IN  IF most < MassFiles THEN {} ELSE UNION {within(f) : f \in first}

MassFileFinding(run) ==
    ClassicRule("mass_file_modification",
                IF Cardinality(Burst(run)) >= 2 * MassFiles THEN "malicious" ELSE "suspicious", Burst(run))

ClassicFindings(run) ==
    ClassicRule("network_dns_request", "informational", {n \in run.network : n.protocol = "dns"})
    \cup ClassicRule("blocked_outbound_connection", "informational", {n \in run.network : Refused(n)})
    \cup ClassicRule("child_process_created", "informational", ChildObservations(run))
    \cup ClassicRule("ntfs_alternate_data_stream", "suspicious", {f \in run.files : AlternateStream(f)})
    \cup ClassicRule("suspicious_registry_autostart", "suspicious",
             {r \in run.registry : Writes(r.operation) /\ (Autostart(r.key) \/ Service(r.key, r.name))})
    \cup ClassicRule("script_interpreter_network", "suspicious",
             {n \in run.network : \E p \in run.processes : p.pid = n.pid /\ Interpreter(p.image)})
    \cup ClassicRule("process_injection", "malicious",
             {o \in Observations(run) : o.event = "process_injection"})
    \cup ClassicRule("credential_store_access", "suspicious",
             {r \in run.registry : Reads(r.operation) /\ SecretKey(r.key)})
    \cup MassFileFinding(run)

\* Scanners inform, they do not score.  What several results say of one file is one finding.
ScannerFindings(run) ==
    LET named(s) == {<<s.scanner, s.hash, f.id>> : f \in s.findings}
        saying(name) == {s \in run.detection.stages : name \in named(s)}
    IN  {Finding("scanner", name, "", 0, "informational", UNION {s.evidence : s \in saying(name)}) :
            name \in UNION {named(s) : s \in run.detection.stages}}

Findings(run) ==
    DeduplicateScores((IF run.detection.behavioral THEN ClassicFindings(run) ELSE {})
                      \cup Build(run) \cup ScannerFindings(run))

Score(findings) == FoldSet(LAMBDA f, sum : f.score + sum, 0, findings)

Covered(status) == status \in {"Completed", "Disabled"}

\* Something that could have said more has not been seen or not been understood.
Inconclusive(run, findings) ==
    \/ \E f \in findings : f.rule = "FH-COVERAGE-001"
    \/ run.detection.cautions # {}
    \/ \E s \in ScannerNames : ~Covered(run.detection.coverage[s])
    \/ \E s \in run.detection.stages : ~Covered(s.status)
    \/ ~TelemetryComplete(run)

VerdictOf(run, findings) ==
    IF (\E f \in findings : f.severity = "malicious") \/ Score(findings) >= 60 THEN "malicious"
    ELSE IF Score(findings) >= 20 THEN "suspicious"
    ELSE IF Inconclusive(run, findings) THEN "inconclusive"
    ELSE IF findings = {} THEN "benign" ELSE "informational"
=============================================================================
