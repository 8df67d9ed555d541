------------------------------ MODULE Correlation ------------------------------
(***************************************************************************)
(* The behaviour rules (src/report_analysis/correlation.rs): two activities *)
(* of one process, or of a process and its child, in order and within a    *)
(* window.                                                                 *)
(*                                                                         *)
(* Times are in units of thirty seconds, the windows are one, two and four.*)
(* Evidence ids are numbers; a path or key is the name of what it is.      *)
(***************************************************************************)
EXTENDS Integers, FiniteSets, FiniteSetsExt, SequencesExt, ProcessIndex

CONSTANTS
    MaxPairs,      \* pairs of activities that are compared
    MaxEvidence    \* evidence a rule collects

ASSUME CorrelationAssumption == MaxPairs \in Nat /\ MaxEvidence \in Nat \ {0}

Rule(id, first, second, group, score, window, relation) ==
    [id |-> id, first |-> first, second |-> second, group |-> group, score |-> score,
     window |-> window, relation |-> relation]

Rules == <<
    Rule("FH-B001", "write_exe", "launch", "execution", 20, 4, "payload_child"),
    Rule("FH-B002", "write_exe", "persistence", "persistence", 30, 4, "same_payload"),
    Rule("FH-B003", "service_modify", "service_start", "persistence", 30, 4, "same_object"),
    Rule("FH-B004", "task_modify", "launch", "persistence", 30, 4, "payload_child"),
    Rule("FH-B005", "startup_write", "launch", "persistence", 30, 4, "payload_child"),
    Rule("FH-B006", "process_access", "injection", "injection", 50, 1, "same_object"),
    Rule("FH-B007", "credential_read", "credential_read", "credentials", 30, 1, "distinct_objects"),
    Rule("FH-B008", "anti_debug", "sandbox_probe", "evasion", 20, 1, "same_process"),
    Rule("FH-B009", "security_change", "telemetry_tamper", "tampering", 40, 2, "same_process"),
    Rule("FH-B010", "dns_answer", "connect", "network", 10, 2, "dns_address"),
    Rule("FH-B011", "write_script", "script_launch", "execution", 20, 4, "payload_child"),
    Rule("FH-B012", "interpreter", "launch", "execution", 20, 4, "parent_child"),
    Rule("FH-B013", "packed_anti_analysis", "persistence", "evasion", 30, 4, "same_process"),
    Rule("FH-B014", "pipe_create", "pipe_connect", "ipc", 10, 1, "pipe_child"),
    Rule("FH-B015", "persistence", "connect", "persistence", 30, 4, "same_process"),
    Rule("FH-B016", "launch", "injection", "injection", 40, 4, "child_behavior")>>

\* Ids in the order of their names; the rules of src/report_analysis/verdict.rs come last.
RuleOrder == <<
    "FH-B001", "FH-B002", "FH-B003", "FH-B004", "FH-B005", "FH-B006", "FH-B007", "FH-B008",
    "FH-B009", "FH-B010", "FH-B011", "FH-B012", "FH-B013", "FH-B014", "FH-B015", "FH-B016",
    "FH-B017", "FH-B018", "FH-COVERAGE-001", "blocked_outbound_connection",
    "child_process_created", "credential_store_access", "mass_file_modification",
    "network_dns_request", "ntfs_alternate_data_stream", "process_injection", "scanner",
    "script_interpreter_network", "suspicious_registry_autostart">>

Precedes(id, other) ==
    \E i, j \in DOMAIN RuleOrder : i < j /\ RuleOrder[i] = id /\ RuleOrder[j] = other

-----------------------------------------------------------------------------
\* What a path or a registry key is.

Executable(path) == path \in {"payload.exe", "tool.exe", "startup.exe", "cmd.exe"}
Interpreter(path) == path = "cmd.exe"
Script(path) == path = "script.ps1"
Startup(path) == path = "startup.exe"
CredentialFile(path) == path \in {"login data", "cookies"}

Autostart(key) == key = "run"
Service(key, name) == key = "service" /\ name = "imagepath"
Guarding(key) == key = "sysmon"
SecretKey(key) == key = "sam"

Writes(action) == action \in {"write", "create", "set"}
Reads(action) == action \in {"read", "open"}

SecurityEvents ==
    {"process_access", "anti_debug", "sandbox_probe", "telemetry_tamper",
     "security_change", "service_start", "service_modify", "task_modify", "credential_read"}

Activity(kind, e, object, auxiliary, inferred) ==
    [kind |-> kind, pid |-> e.pid, parent |-> e.parent, time |-> e.at, object |-> object,
     auxiliary |-> auxiliary, id |-> e.id, inferred |-> inferred]

\* One activity when the condition holds.
If(condition, activity) == IF condition THEN {activity} ELSE {}

OfObservation(o) ==
    LET act(kind, object, payload) == Activity(kind, o, object, payload, FALSE)
        seen == o.status \in {"observed", "started"}
    IN  IF o.status = "terminated" THEN {}
        ELSE If(seen /\ Executable(o.image), act("launch", o.image, ""))
             \cup If(seen /\ Interpreter(o.image), act("interpreter", o.image, ""))
             \cup (IF seen /\ Interpreter(o.image)
                   THEN {act("script_launch", token, "") : token \in {t \in o.command : Script(t)}} ELSE {})
             \cup If(o.event \in SecurityEvents,
                     act(o.event, IF o.event = "task_modify" THEN o.payload ELSE o.object, o.payload))
             \cup If(o.event \in {"process_injection", "remote_thread"},
                     act("injection", o.object, o.payload))

OfFile(f) ==
    LET act(kind, payload) == Activity(kind, f, f.path, payload, f.inferred)
        written == Writes(f.action)
    IN  If(written /\ Executable(f.path), act("write_exe", ""))
        \cup If(written /\ Script(f.path), act("write_script", ""))
        \cup If(written /\ Startup(f.path), act("startup_write", ""))
        \cup If(written /\ Startup(f.path), act("persistence", f.path))
        \cup If(Reads(f.action) /\ CredentialFile(f.path), act("credential_read", ""))
        \cup If(f.action = "named_pipe_create", act("pipe_create", ""))
        \cup If(f.action = "named_pipe_connect", act("pipe_connect", ""))

OfRegistry(r) ==
    LET act(kind, object, payload) == Activity(kind, r, object, payload, r.inferred)
        written == Writes(r.operation)
    IN  If(written /\ (Autostart(r.key) \/ Service(r.key, r.name)), act("persistence", r.data, r.data))
        \cup If(written /\ Service(r.key, r.name), act("service_modify", r.key, r.data))
        \cup If(written /\ Guarding(r.key), act("security_change", r.key, r.data))
        \cup If(Reads(r.operation) /\ SecretKey(r.key), act("credential_read", r.key, ""))

OfNetwork(n) ==
    LET act(kind, object, name) == Activity(kind, n, object, name, n.inferred)
    IN  IF n.protocol = "dns"
        THEN IF n.domain = "" THEN {} ELSE {act("dns_answer", a, n.domain) : a \in n.answers}
        ELSE If(n.direction = "outbound" /\ n.state = "connected" /\ n.remote # "",
                act("connect", n.remote, ""))

\* Static capabilities count for the target the host hashed, at its first observation.
Packed(run) ==
    \E s \in run.detection.stages : s.primary /\ s.hash = run.hash /\ s.packed

PrimaryCapabilities(run) ==
    UNION {{[id |-> f.id, attack |-> f.attack, evidence |-> s.evidence] : f \in s.findings} :
              s \in {t \in run.detection.stages : t.scanner = "capa" /\ t.primary /\ t.hash = run.hash}}

RootObservation(run) ==
    LET all == UNION {p.observations : p \in {q \in run.processes : q.pid = run.root}}
    IN  {o \in all : \A other \in all : o.at <= other.at}

OfTarget(run) ==
    IF ~Packed(run) \/ RootObservation(run) = {} THEN {}
    ELSE LET o == CHOOSE first \in RootObservation(run) : TRUE
         IN  {Activity("packed_anti_analysis", [o EXCEPT !.id = Min(c.evidence)], run.hash, "", FALSE) :
                 c \in {d \in PrimaryCapabilities(run) : d.attack = "T1497"}}

Activities(run) ==
    (UNION {OfObservation(o) : o \in UNION {p.observations : p \in run.processes}})
    \cup (UNION {OfFile(f) : f \in run.files})
    \cup (UNION {OfRegistry(r) : r \in run.registry})
    \cup (UNION {OfNetwork(n) : n \in run.network})
    \cup OfTarget(run)

-----------------------------------------------------------------------------
\* CorrelationIndex: a process is told from a later one of its number by its start and
\* its image.

NoInstance == [start |-> 0, image |-> ""]

StatusOrder == <<"observed", "security_observation", "started", "terminated">>

\* Observations that agree in time and state are ordered by image in the code, by id here.
ObservedBefore(o, other) ==
    \/ o.at < other.at
    \/ o.at = other.at /\ \E i, j \in DOMAIN StatusOrder :
          i < j /\ StatusOrder[i] = o.status /\ StatusOrder[j] = other.status
    \/ o.at = other.at /\ o.status = other.status /\ o.id < other.id

\* Mutant: an observation of the number continues the process it was last seen as.
Continue_Unended(entry, o) ==
    LET fresh == entry.instance.image # o.image
    IN  [guid |-> o.guid,
         instance |-> IF fresh /\ o.status # "terminated"
                      THEN [start |-> o.at, image |-> o.image] ELSE entry.instance]

\* The process after one more observation.
Continue(entry, o) ==
    LET ended == o.status = "terminated"
        other == entry.guid # "" /\ o.guid # "" /\ entry.guid # o.guid
        fresh == entry.instance = NoInstance \/ entry.instance.image # o.image
    IN  [guid |-> IF o.guid # "" THEN o.guid ELSE IF ended THEN "" ELSE entry.guid,
         instance |-> IF ended THEN NoInstance
                      ELSE IF other \/ fresh THEN [start |-> o.at, image |-> o.image]
                      ELSE entry.instance]

NoEntry == [guid |-> "", instance |-> NoInstance]

Latest(observations) ==
    CHOOSE o \in observations : \A other \in observations : other = o \/ ObservedBefore(other, o)

\* The process after each observation of its number.
History(run, pid) ==
    LET observations == {o \in UNION {p.observations : p \in {q \in run.processes : q.pid = pid}} :
                             o.at > 0}
        entry[o \in observations] ==
            LET before == {other \in observations : ObservedBefore(other, o)}
            IN  Continue(IF before = {} THEN NoEntry ELSE entry[Latest(before)], o)
    IN  entry

Pids(run) == {p.pid : p \in run.processes}

Instance(index, pid, time) ==
    LET reached == IF pid \in DOMAIN index /\ pid # 0 /\ time # 0
                   THEN {o \in DOMAIN index[pid] : o.at <= time} ELSE {}
    IN  IF reached = {} THEN NoInstance ELSE index[pid][Latest(reached)].instance

SuspiciousKinds == {"injection", "credential_read", "persistence", "telemetry_tamper"}

Suspicious(index, events, pid, time) ==
    /\ Instance(index, pid, time) # NoInstance
    /\ \E e \in events :
          /\ e.kind \in SuspiciousKinds /\ e.pid = pid
          /\ Instance(index, pid, e.time) = Instance(index, pid, time)
          /\ e.time <= time /\ time - e.time <= 4

Same(index, a, b) ==
    /\ a.pid = b.pid
    /\ Instance(index, a.pid, a.time) # NoInstance
    /\ Instance(index, a.pid, a.time) = Instance(index, b.pid, b.time)

Through(index, pid, from, to) ==
    Instance(index, pid, from) # NoInstance /\ Instance(index, pid, from) = Instance(index, pid, to)

Related(index, a, b) ==
    /\ b.parent = a.pid
    /\ Through(index, a.pid, a.time, b.time)
    /\ Instance(index, b.pid, b.time) # NoInstance

SameObject(a, b) == a.object # "" /\ a.object = b.object

Linked(relation, index, events, a, b) ==
    CASE relation = "payload_child" -> Related(index, a, b) /\ SameObject(a, b)
      [] relation = "parent_child" -> Related(index, a, b)
      [] relation = "child_behavior" ->
             /\ Same(index, a, b)
             /\ a.parent # NoPid /\ ~Suspicious(index, events, a.parent, b.time)
             /\ Suspicious(index, events, b.pid, b.time)
      [] relation = "pipe_child" ->
             /\ SameObject(a, b) /\ a.pid # b.pid
             /\ \/ Related(index, a, b)
                \/ a.parent # NoPid /\ a.parent = b.parent /\ Through(index, a.parent, a.time, b.time)
      [] relation \in {"same_object", "same_payload"} -> Same(index, a, b) /\ SameObject(a, b)
      [] relation = "distinct_objects" ->
             Same(index, a, b) /\ a.object # "" /\ b.object # "" /\ a.object # b.object
      [] relation = "dns_address" ->
             /\ Same(index, a, b) /\ a.object = b.object
             /\ a.auxiliary # "" /\ Suspicious(index, events, a.pid, a.time)
      [] relation = "same_process" -> Same(index, a, b)

Matches(rule, index, events, a, b) ==
    a.time # 0 /\ a.id # b.id /\ Linked(rule.relation, index, events, a, b)

-----------------------------------------------------------------------------
\* build_from_events

ActivityKinds == <<
    "anti_debug", "connect", "credential_read", "dns_answer", "injection", "interpreter",
    "launch", "packed_anti_analysis", "persistence", "pipe_connect", "pipe_create",
    "process_access", "sandbox_probe", "script_launch", "security_change", "service_modify",
    "service_start", "startup_write", "task_modify", "telemetry_tamper", "write_exe",
    "write_script">>

KindRank(kind) == CHOOSE i \in DOMAIN ActivityKinds : ActivityKinds[i] = kind

\* By time, process and kind; among alike activities by evidence.
Earlier(a, b) ==
    \/ a.time < b.time
    \/ a.time = b.time /\ a.pid < b.pid
    \/ a.time = b.time /\ a.pid = b.pid /\ KindRank(a.kind) < KindRank(b.kind)
    \/ a.time = b.time /\ a.pid = b.pid /\ a.kind = b.kind /\ a.id < b.id

EarlierPair(p, q) == 
    Earlier(p[1], q[1]) \/ (p[1] = q[1] /\ Earlier(p[2], q[2]))

PairsOf(rule, events) ==
    {p \in {a \in events : a.kind = rule.first} \X {b \in events : b.kind = rule.second} :
        p[1].time < p[2].time /\ p[2].time <= p[1].time + rule.window}

EvidenceOf(pairs) == UNION {{p[1].id, p[2].id} : p \in pairs}

\* The identifier of a finding is its rule, and what it is about if the rule finds several.
Finding(rule, about, group, score, severity, evidence) ==
    [rule |-> rule, about |-> about, group |-> group, score |-> score, severity |-> severity,
     evidence |-> evidence]

\* The first so many pairs are compared, and of those that match the first are taken until
\* there is enough evidence.
Compared(pairs, room) == {p \in pairs : Cardinality({q \in pairs : EarlierPair(q, p)}) < room}

Taken(matching) ==
    {p \in matching : Cardinality(EvidenceOf({q \in matching : EarlierPair(q, p)})) < MaxEvidence}

ApplyRule(state, rule, index, events) ==
    LET pairs == PairsOf(rule, events)
        room == Max({0, MaxPairs - state.checks})
        matching == {p \in Compared(pairs, room) : Matches(rule, index, events, p[1], p[2])}
        taken == Taken(matching)
    IN  [checks |-> IF Cardinality(pairs) <= room /\ taken = matching
                    THEN state.checks + Cardinality(pairs) ELSE MaxPairs + 1,
         findings |-> state.findings \cup
             If(taken # {}, Finding(rule.id, <<>>, rule.group, rule.score, "suspicious", EvidenceOf(taken)))]

\* One finding for each capability: confirmed by what the target did within two minutes
\* of its start, or not.
Confirms(capability, event) ==
    \/ capability.attack = "T1055" /\ event.kind = "injection"
    \/ capability.attack = "T1547" /\ event.kind = "persistence"
    \/ capability.attack = "T1555" /\ event.kind = "credential_read"
    \/ capability.attack = "T1562" /\ event.kind = "telemetry_tamper"

StaticConfirmation(run, index, events) ==
    LET seen == {o.at : o \in {q \in UNION {p.observations : p \in {r \in run.processes : r.pid = run.root}} : q.at > 0}}
        confirming(c) ==
            {e \in events : /\ seen # {} /\ e.pid = run.root /\ Confirms(c, e)
                            /\ e.time >= Min(seen) /\ e.time - Min(seen) <= 4
                            /\ Through(index, run.root, Min(seen), e.time)}
        first(c) == {e \in confirming(c) : \A other \in confirming(c) : ~Earlier(other, e)}
    IN  {Finding(IF confirming(c) = {} THEN "FH-B018" ELSE "FH-B017", <<c.id>>, "", 0, "informational",
                 c.evidence \cup {e.id : e \in first(c)}) : c \in PrimaryCapabilities(run)}

\* The rules in their order share the pairs that may be compared.
ApplyRules(index, events) ==
    FoldLeft(LAMBDA s, r : ApplyRule(s, r, index, events), [checks |-> 0, findings |-> {}], Rules)

First(events) == {a \in events : \A b \in events : ~Earlier(b, a)}

Partial(events) == Finding("FH-COVERAGE-001", <<>>, "", 0, "informational", {e.id : e \in First(events)})

FindingsOf(done, events) == done.findings \cup If(done.checks > MaxPairs /\ events # {}, Partial(events))

BuildFromEvents(run, index, events) ==
    FindingsOf(ApplyRules(index, events), events) \cup StaticConfirmation(run, index, events)

Build(run) ==
    IF run.detection.behavioral
    THEN BuildFromEvents(run, [pid \in Pids(run) |-> History(run, pid)], Activities(run)) ELSE {}

-----------------------------------------------------------------------------
\* deduplicate_scores: one finding scores in each group, and no evidence scores twice.

ScoreGroup(f) ==
    CASE f.group # "" -> f.group
      [] f.rule = "process_injection" -> "injection"
      [] f.rule = "credential_store_access" -> "credentials"
      [] f.rule = "suspicious_registry_autostart" -> "persistence"
      [] f.rule = "script_interpreter_network" -> "execution"
      [] OTHER -> f.rule

Stronger(f, g) == f.score > g.score \/ (f.score = g.score /\ Precedes(f.rule, g.rule))

Strongest(findings) ==
    {f \in findings : /\ f.score > 0
                      /\ \A g \in findings : ScoreGroup(g) = ScoreGroup(f) => ~Stronger(g, f)}

\* Mutant: the groups alone decide.
DeduplicateScores_Groups(findings) ==
    {IF f \in Strongest(findings) THEN f ELSE [f EXCEPT !.score = 0] : f \in findings}

\* Stronger findings take their evidence first.
Scoring(findings) ==
    CHOOSE S \in SUBSET Strongest(findings) :
        \A f \in Strongest(findings) :
            f \in S <=> \A g \in S : Stronger(g, f) => g.evidence \cap f.evidence = {}

DeduplicateScores(findings) ==
    LET scoring == Scoring(findings)
    IN  {IF f \in scoring THEN f ELSE [f EXCEPT !.score = 0] : f \in findings}
=============================================================================
