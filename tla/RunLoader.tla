------------------------------- MODULE RunLoader -------------------------------
(***************************************************************************)
(* Loading an archived run (src/report_analysis/loader.rs, telemetry.rs):  *)
(* the report and its run directory are found, the rows of the guest's     *)
(* event files checked and normalised, its artifacts verified and the      *)
(* structured telemetry among them imported.                               *)
(*                                                                         *)
(* The guest may have written anything.  A row is a record whose fields    *)
(* may be Absent or Invalid (text: ""); "id" stands for its content.  What *)
(* cannot be used becomes a warning that names the row or the file.        *)
(***************************************************************************)
EXTENDS Integers, FiniteSets, FiniteSetsExt, SequencesExt, ProcessIndex

CONSTANTS
    MaxInputFiles, MaxInputBytes,   \* read by one analysis
    MaxAssociations                 \* events given to processes (AssociationBudget)

Absent == -1
Invalid == -2
Null == -3

Kinds == {"process", "network", "filesystem", "registry"}

\* What is about a row or an entry has its id.
Warning(code, about) == <<code, about>>

Given(text) == text # ""

-----------------------------------------------------------------------------
\* AnalysisInputBudget: what is read is charged, whether it can be used or not.

Charge(spent, size) == [files |-> spent.files + 1, bytes |-> spent.bytes + size]

Affordable(spent) == spent.files <= MaxInputFiles /\ spent.bytes <= MaxInputBytes

\* A file is missing, torn (not the JSON it should be) or whole.
Read(spent, file) ==
    [spent |-> IF file.state = "missing" THEN spent ELSE Charge(spent, file.size),
     ok |-> file.state = "whole" /\ Affordable(Charge(spent, file.size))]

\* discover_runs_from_source: candidates that cannot be read are passed over, and cost.
Discover(archive) ==
    LET Consider(found, candidate) ==
            LET reading == Read(found.spent, candidate.file)
            IN  [spent |-> reading.spent,
                 runs |-> found.runs \cup
                     (IF reading.ok /\ candidate.run \in archive.directories
                            /\ archive.input \in {"root", candidate.run}
                      THEN {candidate} ELSE {})]
    IN  FoldLeft(Consider, [spent |-> [files |-> 0, bytes |-> 0], runs |-> {}], archive.candidates)

-----------------------------------------------------------------------------
\* load_event_array: a file that is missing or cannot be used is warned about, and the
\* rows of the guest's result stand in.

LoadEvents(spent, archive, kind) ==
    LET file == archive.events[kind]
        reading == Read(spent, file)
    IN  [spent |-> reading.spent,
         rows |-> IF reading.ok THEN file.rows ELSE archive.fallback[kind],
         warnings |-> IF reading.ok THEN {}
                      ELSE {Warning(IF file.state = "missing" THEN "missing_event_artifact"
                                    ELSE "malformed_artifact", kind)}]

\* Every file in turn, with the budget the ones before have left.
LoadAll(spent, archive) ==
    LET process == LoadEvents(spent, archive, "process")
        network == LoadEvents(process.spent, archive, "network")
        filesystem == LoadEvents(network.spent, archive, "filesystem")
        registry == LoadEvents(filesystem.spent, archive, "registry")
    IN  [spent |-> registry.spent,
         rows |-> [process |-> process.rows, network |-> network.rows,
                   filesystem |-> filesystem.rows, registry |-> registry.rows],
         warnings |-> process.warnings \cup network.warnings
                      \cup filesystem.warnings \cup registry.warnings]

\* What a row of each kind must have.
Required(kind, row) ==
    /\ row.intact /\ row.at >= 0
    /\ CASE kind = "process" -> row.pid >= 0 /\ Given(row.image)
         [] kind = "filesystem" -> Given(row.path) /\ Given(row.action)
         [] kind = "registry" -> Given(row.key) /\ Given(row.operation)
         [] kind = "network" -> Given(row.protocol) /\ Given(row.state) /\ row.pid # Invalid

Usable(kind, rows) == {row \in rows : Required(kind, row)}

\* Rows that are dropped, and rows that are kept without the field that is bad.
RowWarnings(kind, rows) ==
    {Warning("malformed_event", row.id) : row \in rows \ Usable(kind, rows)}
    \cup {Warning("invalid_parent", row.id) :
             row \in {r \in Usable(kind, rows) : kind = "process" /\ r.parent \in {Absent, Invalid}}}
    \cup {Warning("invalid_pid", row.id) :
             row \in {r \in Usable(kind, rows) : kind \in {"filesystem", "registry"} /\ r.pid = Invalid}}
    \cup {Warning("invalid_size_or_digest", row.id) :
             row \in {r \in Usable(kind, rows) : kind = "filesystem" /\ Invalid \in {r.size, r.sha256}}}

Known(pid) == IF pid > 0 THEN pid ELSE NoPid

Observation(row) ==
    [id |-> row.id, pid |-> row.pid, parent |-> Known(row.parent), at |-> row.at,
     status |-> row.status, image |-> row.image,
     command |-> IF row.status = "terminated" THEN {} ELSE row.command,
     guid |-> row.guid, event |-> row.event, object |-> row.object, payload |-> row.payload]

ByTime(o, other) == o.at < other.at \/ (o.at = other.at /\ o.id < other.id)

Earliest(seen) == CHOOSE o \in seen : \A other \in seen : o = other \/ ByTime(o, other)

\* normalize_processes: one process for a number, however often it was used.  The first
\* that tells a command line speaks for it, else the first that is not its end.
ProcessOf(pid, rows) ==
    LET seen == {Observation(r) : r \in {q \in rows : q.pid = pid}}
        alive == {o \in seen : o.status # "terminated"}
        telling == {o \in alive : o.command # {}}
        parents == {o \in seen : o.parent # NoPid}
    IN  [pid |-> pid, parent |-> IF parents = {} THEN NoPid ELSE Earliest(parents).parent,
         image |-> Earliest(IF telling # {} THEN telling ELSE IF alive # {} THEN alive ELSE seen).image,
         at |-> Min({o.at : o \in seen}), observations |-> seen]

Processes(rows) ==
    LET usable == Usable("process", rows)
    IN  {ProcessOf(pid, usable) : pid \in {row.pid : row \in usable}}

Explicit(pid) == IF pid >= 0 THEN pid ELSE NoPid

Owner(archive, processes, row) == Associate(processes, Explicit(row.pid), row.at, archive.root)

FileEvents(archive, processes, rows) ==
    {LET owner == Owner(archive, processes, r)
     IN  [id |-> r.id, pid |-> owner.pid, parent |-> owner.parent, inferred |-> owner.inferred,
          at |-> r.at, path |-> r.path, action |-> r.action,
          sha256 |-> IF r.sha256 = Invalid THEN Absent ELSE r.sha256] : r \in Usable("filesystem", rows)}

RegistryEvents(archive, processes, rows) ==
    {LET owner == Owner(archive, processes, r)
     IN  [id |-> r.id, pid |-> owner.pid, parent |-> owner.parent, inferred |-> owner.inferred,
          at |-> r.at, key |-> r.key, name |-> r.name, data |-> r.data, operation |-> r.operation] :
        r \in Usable("registry", rows)}

\* A DNS row holds the name it asks for as its remote address.
NetworkEvents(archive, processes, rows) ==
    {LET owner == Owner(archive, processes, r)
         dns == r.protocol = "dns" /\ Given(r.remote)
     IN  [id |-> r.id, pid |-> owner.pid, parent |-> owner.parent,
          inferred |-> owner.inferred \/ r.attributed, at |-> r.at, protocol |-> r.protocol,
          direction |-> r.direction, state |-> r.state, local |-> r.local,
          remote |-> IF dns THEN "" ELSE r.remote, domain |-> IF dns THEN r.remote ELSE r.domain,
          answers |-> r.answers, guid |-> r.guid, flow |-> r.flow] :
        r \in Usable("network", rows)}

-----------------------------------------------------------------------------
\* normalize_artifacts: each file is read once; a manifest entry holds if its size and
\* digest are those of the file, for which "stored" has one number.

Stored(archive, entry) ==
    IF entry.safe /\ entry.path \in DOMAIN archive.stored THEN archive.stored[entry.path] ELSE NoPid

Artifacts(archive) ==
    {[id |-> e.id, path |-> e.path, kind |-> e.kind, sha256 |-> e.sha256,
      size |-> e.size, verified |-> e.sha256 = Stored(archive, e)] : e \in {m \in archive.manifest : m.intact}}

ArtifactWarnings(archive) ==
    {Warning("malformed_event", e.id) : e \in {m \in archive.manifest : ~m.intact}}
    \cup {Warning("artifact_not_verified", e.id) :
             e \in {m \in archive.manifest : m.intact /\ m.sha256 # Stored(archive, m)}}

HashedFiles(archive) ==
    {e.path : e \in {m \in archive.manifest : m.intact /\ Stored(archive, m) # NoPid}}

\* normalize_capture_health: the guest has no say about the capture of the host.
Health(archive) ==
    archive.health.host \cup {h \in archive.health.guest :
        h.channel # "host_ndis" /\ \A other \in archive.health.host : other.channel # h.channel}

HealthWarnings(archive) ==
    {Warning("invalid_capture_health", source) : source \in archive.health.malformed}

\* extract_target_hashes: of the host's report, and what the guest adds to it.
TargetHashes(archive) == (archive.hashes \cup {archive.hash}) \ {Absent}

-----------------------------------------------------------------------------
\* telemetry.rs: the records of processes the run knows, up to the first that is wrong.

\* A file of telemetry is of use only if each of its rows is; then it is used up to the
\* first that comes again or is of another version.
Telemetry(archive, artifact) ==
    LET rows == archive.telemetry[artifact.path]
        bad == {i \in DOMAIN rows : ~rows[i].known \/ \E j \in 1..(i - 1) : rows[j].id = rows[i].id}
    IN  IF ~artifact.verified \/ \E i \in DOMAIN rows : ~rows[i].intact THEN [rows |-> <<>>, whole |-> FALSE]
        ELSE [rows |-> IF bad = {} THEN rows ELSE SubSeq(rows, 1, Min(bad) - 1), whole |-> bad = {}]

Imported(archive, artifacts, processes) ==
    LET taken == UNION {Range(Telemetry(archive, a).rows) : a \in {b \in artifacts : b.kind = "telemetry"}}
    IN  {r \in taken : r.at > 0 /\ r.pid \in {p.pid : p \in processes}}

\* The id of a record is made of the digest of its file and its number there: a file
\* that is listed twice makes ids twice.
Repeated(archive, artifacts) ==
    \E a, b \in {c \in artifacts : c.kind = "telemetry"} :
        a # b /\ Range(Telemetry(archive, a).rows) \cap Range(Telemetry(archive, b).rows) # {}

TelemetryWarnings(archive, artifacts) ==
    {Warning("structured_telemetry_incomplete", a.id) :
        a \in {b \in artifacts : b.kind = "telemetry" /\ ~Telemetry(archive, b).whole}}

ProcessStatus(row) == IF row.event = "start" THEN "started"
                      ELSE IF row.event = "stop" THEN "terminated" ELSE "security_observation"

\* Records of a start, a stop or an act against another process or the telemetry.
AddObservations(process, rows) ==
    [process EXCEPT !.observations = @ \cup
        {[id |-> r.id, pid |-> r.pid,
          parent |-> IF r.event \in {"start", "stop"} /\ r.parent >= 0 THEN r.parent ELSE process.parent,
          at |-> r.at, status |-> ProcessStatus(r), image |-> r.image,
          command |-> IF r.event = "start" THEN r.command ELSE {}, guid |-> r.guid,
          event |-> IF r.event \in {"start", "stop"} THEN "" ELSE r.event,
          object |-> r.object, payload |-> ""] :
            r \in {q \in rows : q.pid = process.pid /\ q.kind = "process"}}]

OwnerOf(processes, pid) == CHOOSE p \in processes : p.pid = pid

ImportedFiles(processes, rows) ==
    {[id |-> r.id, pid |-> r.pid, parent |-> OwnerOf(processes, r.pid).parent, inferred |-> FALSE,
      at |-> r.at, path |-> r.content.path, action |-> r.content.action, sha256 |-> Absent] :
        r \in {q \in rows : q.kind = "filesystem"}}

ImportedRegistry(processes, rows) ==
    {[id |-> r.id, pid |-> r.pid, parent |-> OwnerOf(processes, r.pid).parent, inferred |-> FALSE,
      at |-> r.at, key |-> r.content.key, name |-> r.content.name, data |-> r.content.data,
      operation |-> "set"] : r \in {q \in rows : q.kind = "registry"}}

ImportedNetwork(processes, rows) ==
    {[id |-> r.id, pid |-> r.pid, parent |-> OwnerOf(processes, r.pid).parent, inferred |-> FALSE,
      at |-> r.at, protocol |-> r.content.protocol, direction |-> r.content.direction,
      state |-> r.content.state, local |-> r.content.local, remote |-> r.content.remote,
      domain |-> r.content.domain, answers |-> r.content.answers, guid |-> r.guid,
      flow |-> r.content.flow] : r \in {q \in rows : q.kind = "network"}}

-----------------------------------------------------------------------------
\* load_run

Unreadable == [loaded |-> FALSE]

\* The results of the scanners are imported into a run that is loaded (Verdict).
NotImported == {}

Load(archive) ==
    LET found == Discover(archive)
        report == Read(found.spent, (CHOOSE c \in found.runs : TRUE).file)
        result == Read(report.spent, archive.result)
        events == LoadAll(result.spent, archive)
        rows == events.rows
        processes == Processes(rows["process"])
        artifacts == Artifacts(archive)
        afterwards == [files |-> events.spent.files + Cardinality(HashedFiles(archive)),
                       bytes |-> events.spent.bytes + Cardinality(HashedFiles(archive))]
        imported == Imported(archive, artifacts, processes)
        associations == Cardinality(imported) +
            FoldSet(LAMBDA k, n : n + Cardinality(Usable(k, rows[k])), 0, Kinds \ {"process"})
    IN  IF \/ Cardinality(found.runs) # 1
           \/ ~report.ok \/ ~result.ok
           \/ HashedFiles(archive) # {} /\ ~Affordable(afterwards)
           \/ associations > MaxAssociations
        THEN Unreadable
        ELSE [loaded |-> TRUE, root |-> archive.root, hash |-> archive.hash,
              processes |-> {AddObservations(p, imported) : p \in processes},
              files |-> FileEvents(archive, processes, rows["filesystem"])
                        \cup ImportedFiles(processes, imported),
              registry |-> RegistryEvents(archive, processes, rows["registry"])
                           \cup ImportedRegistry(processes, imported),
              network |-> NetworkEvents(archive, processes, rows["network"])
                          \cup ImportedNetwork(processes, imported),
              artifacts |-> artifacts, repeated |-> Repeated(archive, artifacts),
              hashes |-> TargetHashes(archive), health |-> Health(archive), complete |-> archive.complete,
              detection |-> NotImported,
              warnings |-> events.warnings \cup (UNION {RowWarnings(k, rows[k]) : k \in Kinds})
                           \cup ArtifactWarnings(archive) \cup HealthWarnings(archive)
                           \cup TelemetryWarnings(archive, artifacts)]
=============================================================================
