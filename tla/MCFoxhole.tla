------------------------------- MODULE MCFoxhole -------------------------------
(***************************************************************************)
(* Scenarios for Foxhole.  Each family varies one thing: who writes below  *)
(* the root, the options of a command, the observations an event is given  *)
(* to, the lives of a process, the behaviour that scores, the damage to an *)
(* archive, how much there is to cite, and the files VirusTotal is asked   *)
(* about.                                                                  *)
(***************************************************************************)
EXTENDS Foxhole, TLC

-----------------------------------------------------------------------------
\* A run in which the target was started and nothing happened.

Target == 1

\* Sets of at most so many elements.
UpTo2(S) == {{}} \cup {{x, y} : x, y \in S}
UpTo3(S) == {{}} \cup {{x, y, z} : x, y, z \in S}

ProcessRow(id, pid, time) ==
    [id |-> id, intact |-> TRUE, pid |-> pid, at |-> time, image |-> "payload.exe", parent |-> Null,
     status |-> "observed", command |-> {}, guid |-> "", event |-> "", object |-> "", payload |-> ""]

FileRow(id, pid, time, path, action) ==
    [id |-> id, intact |-> TRUE, pid |-> pid, at |-> time, path |-> path, action |-> action,
     size |-> 1, sha256 |-> Absent]

RegistryRow(id, pid, time, key, operation, data) ==
    [id |-> id, intact |-> TRUE, pid |-> pid, at |-> time, key |-> key, operation |-> operation,
     name |-> "", data |-> data]

NetworkRow(id, pid, time, remote) ==
    [id |-> id, intact |-> TRUE, pid |-> pid, at |-> time, protocol |-> "tcp", state |-> "connected",
     direction |-> "outbound", local |-> "127.0.0.1", remote |-> remote, domain |-> "",
     answers |-> {}, guid |-> "", flow |-> id, attributed |-> FALSE]

File(rows) == [state |-> "whole", size |-> 1, rows |-> rows]

Nothing == [kind \in Kinds |-> {}]

ScannerResult(scanner) ==
    [path |-> scanner, target |-> "primary", hash |-> 101,
     json |-> TRUE, scanner |-> scanner, pinned |-> TRUE, sameLimits |-> TRUE, truncated |-> FALSE,
     warned |-> FALSE, packs |-> IF scanner = "pe" THEN {} ELSE {"builtin"}, cites |-> <<"primary">>,
     status |-> "Completed", found |-> NoFindings]

Entry(id, path, kind, sha256) ==
    [id |-> id, path |-> path, kind |-> kind, sha256 |-> sha256, size |-> 1,
     safe |-> TRUE, intact |-> TRUE]

Scanners == <<"capa", "network", "pe", "yara">>

Configured ==
    [state |-> "given", enabled |-> ScannerNames, behavioral |-> TRUE,
     builtin |-> ScannerNames \ {"pe"}, user |-> FALSE]

Archive ==
    [candidates |-> <<[file |-> File({}), run |-> "run"]>>, directories |-> {"run"},
     input |-> "run", result |-> File({}),
     events |-> [kind \in Kinds |-> File({})], fallback |-> Nothing,
     root |-> Target, hash |-> 101, hashes |-> {101},
     manifest |-> {Entry(80 + i, Scanners[i], Scanners[i], 200 + i) : i \in DOMAIN Scanners},
     stored |-> [path \in Range(Scanners) |-> 200 + (CHOOSE i \in DOMAIN Scanners : Scanners[i] = path)],
     telemetry |-> <<>>, health |-> [host |-> {}, guest |-> {}, malformed |-> {}],
     complete |-> Channels, config |-> Configured,
     results |-> [i \in DOMAIN Scanners |-> ScannerResult(Scanners[i])], guestWarned |-> FALSE]

With(kind, rows, archive) == [archive EXCEPT !.events[kind].rows = @ \cup rows]

-----------------------------------------------------------------------------
Options ==
    [sandbox |-> "restricted", fallback |-> FALSE, hostServer |-> FALSE, external |-> FALSE,
     allowNetwork |-> FALSE, policy |-> "none", addresses |-> FALSE, images |-> FALSE,
     profile |-> "restricted", report |-> TRUE]

Want(dir, name, size, limit, manner) ==
    [path |-> [dir |-> dir, name |-> name], size |-> size, limit |-> limit, manner |-> manner]

NoFiles == [p \in Paths |-> NoFile]

Old(dir, name, size) == [dir |-> dir, name |-> name] :> [owner |-> "earlier", size |-> size, whole |-> TRUE]

NoArchive == [candidates |-> <<>>]

Scenario ==
    [wants |-> [w \in Writers |-> IF w = Analyst THEN Want("analysis", "a", 1, 1, "replace")
                                  ELSE Want("reports", "a", 1, 2, "new")], files |-> NoFiles,
     cleans |-> FALSE, args |-> [w \in Reporters |-> Options], capability |-> "available",
     commands |-> FALSE, archive |-> NoArchive, queried |-> FALSE, analyzes |-> FALSE,
     outputs |-> <<>>, faults |-> 0]

Analysis(archive) == [Scenario EXCEPT !.archive = archive, !.analyzes = TRUE]

-----------------------------------------------------------------------------
\* Two commands with reports, an analysis and a clean-up on one root.

Reporting(first, second, old, cleans, outs, faultCount) ==
    [Scenario EXCEPT
        !.wants = [@ EXCEPT !["w1"] = first, !["w2"] = second],
        !.files = [p \in Paths |-> IF p \in DOMAIN old THEN old[p] ELSE NoFile],
        !.archive = Archive, !.cleans = cleans, !.commands = TRUE, !.analyzes = outs # <<>>, !.outputs = outs,
        !.faults = faultCount]

Wanted(name, size) == Want("reports", name, size, 2, "new")

StoreFamily ==
    {Reporting(Wanted("a", s), Wanted(n, 1), <<>>, FALSE, <<>>, 1) : s \in 1..3, n \in {"a", "b"}}
    \cup {Reporting(Wanted("a", 2), Wanted(n, 2), <<>>, FALSE, <<>>, 0) : n \in {"a", "b"}}
    \cup {Reporting(Wanted("a", 1), Wanted("b", 1), Old("analysis", "a", s), FALSE, <<>>, 0) : s \in 1..2}
    \cup {Reporting(Wanted("a", 1), Wanted("a", 1), <<>>, TRUE, <<>>, 0)}
    \cup {Reporting(Wanted("a", 1), Want("outside", "a", 1, 2, "new"), Old("analysis", "a", 1),
                    TRUE, <<"a", "b">>, 1)}

-----------------------------------------------------------------------------
InvocationFamily ==
    {[Scenario EXCEPT !.commands = TRUE, !.capability = c,
                      !.args = [w \in Reporters |-> IF w = "w1" THEN a ELSE [Options EXCEPT !.sandbox = "none"]]] :
        a \in {b \in Arguments : ~b.report /\ b.profile # "normal"},
        c \in {"available", "unavailable", "probe_failed"}}

-----------------------------------------------------------------------------
\* Who an event belongs to: sightings of two processes, an event at every time.

Sighting == {1, 2} \X {1, 3, 5} \X {"observed", "terminated"}

SightingId(s) == s[1] * 10 + s[2] + (IF s[3] = "observed" THEN 0 ELSE 1)

AssociationFamily ==
    {Analysis(With("process", {[ProcessRow(SightingId(s), s[1], s[2]) EXCEPT !.status = s[3]] : s \in seen},
              With("filesystem", {FileRow(40 + t, Absent, t, IF t % 2 = 0 THEN "plain file" ELSE "tool.exe", "read") : t \in 1..6},
              With("registry", {RegistryRow(50, Null, 4, "other", "read", "")}, Archive)))) :
        seen \in UpTo3(Sighting)}

-----------------------------------------------------------------------------
\* One number, several lives: sightings with images and guids around two acts.

Lives ==
    {[ProcessRow(10 * t, Target, t) EXCEPT !.image = f[1], !.guid = f[2], !.status = f[3]] :
        t \in 1..4, f \in {<<"payload.exe", "", "observed">>, <<"payload.exe", "g1", "started">>,
                          <<"payload.exe", "g2", "observed">>, <<"tool.exe", "", "observed">>,
                          <<"payload.exe", "", "terminated">>}}

Numbered(rows) ==
    LET ranks == <<"", "g1", "g2">>
        images == <<"payload.exe", "tool.exe">>
        number(r) == r.id + (CHOOSE i \in 1..3 : ranks[i] = r.guid) + 3 * (CHOOSE i \in 1..2 : images[i] = r.image)
                          + (IF r.status = "terminated" THEN 4 ELSE 0) - 4
    IN  {[r EXCEPT !.id = number(r)] : r \in rows}

LifeFamily ==
    {Analysis(With("process", Numbered(seen),
              With("registry", {RegistryRow(91, Target, 2, "run", "set", "payload.exe")},
              With("network", {NetworkRow(92, Target, 4, "9.9.9.9")}, Archive)))) :
        seen \in UpTo3(Lives)}

-----------------------------------------------------------------------------
\* Behaviour that several rules see.

Launched == ProcessRow(1, Target, 1)
Secured(id, time, event, object) ==
    [ProcessRow(id, Target, time) EXCEPT !.status = "security_observation", !.event = event, !.object = object]

Acts ==
    {<<"process", [ProcessRow(2, 2, 3) EXCEPT !.parent = Target, !.image = "tool.exe"]>>,
     <<"process", Secured(3, 3, "process_access", "victim")>>,
     <<"process", Secured(4, 4, "process_injection", "victim")>>,
     <<"process", Secured(5, 4, "telemetry_tamper", "sysmon")>>,
     <<"filesystem", FileRow(11, Target, 2, "tool.exe", "write")>>,
     <<"filesystem", FileRow(12, Target, 3, "login data", "read")>>,
     <<"registry", RegistryRow(21, Target, 3, "run", "set", "tool.exe")>>,
     <<"registry", RegistryRow(22, Target, 2, "sam", "read", "")>>,
     <<"registry", RegistryRow(23, Target, 3, "sysmon", "set", "")>>,
     <<"network", NetworkRow(31, Target, 4, "9.9.9.9")>>}

ScoreFamily ==
    {Analysis([Archive EXCEPT !.events = [k \in Kinds |->
         File((IF k = "process" THEN {Launched} ELSE {}) \cup {a[2] : a \in {b \in acts : b[1] = k}})]]) :
        acts \in {chosen \in SUBSET Acts : Cardinality(chosen) <= 5}}

-----------------------------------------------------------------------------
\* Damage to what was recorded, one thing or two.

Row(kind, archive) == CHOOSE r \in archive.events[kind].rows : TRUE

Spoil(kind, archive, row) == [archive EXCEPT !.events[kind].rows = (@ \ {Row(kind, archive)}) \cup {row}]

Recorded ==
    With("process", {Launched},
    With("filesystem", {FileRow(11, Target, 2, "plain file", "read")},
    With("registry", {RegistryRow(21, Target, 2, "other", "read", "")},
    With("network", {[NetworkRow(31, Target, 2, "9.9.9.9") EXCEPT !.direction = "inbound"]}, Archive))))

TelemetryRow(id, pid, kind) ==
    [id |-> id, intact |-> TRUE, known |-> TRUE, at |-> 2, pid |-> pid, kind |-> kind, event |-> "", image |-> "payload.exe",
     parent |-> Absent, command |-> {}, guid |-> "g1", object |-> "",
     content |-> [path |-> "plain file", action |-> "create_or_overwrite", sha256 |-> Absent]]

\* A start, and what the process did.
TelemetryOf(id) ==
    <<TelemetryRow(id, Target, "filesystem"), [TelemetryRow(id + 1, Target, "process") EXCEPT !.event = "start"],
      [TelemetryRow(id + 2, Target, "registry") EXCEPT !.content = [key |-> "other", name |-> "", data |-> ""]],
      [TelemetryRow(id + 3, Target, "network") EXCEPT !.content =
          [protocol |-> "tcp", direction |-> "inbound", state |-> "connected", local |-> "127.0.0.1",
           remote |-> "9.9.9.9", domain |-> "", answers |-> {}, flow |-> id]]>>

WithTelemetry(archive, rows) ==
    [archive EXCEPT !.manifest = @ \cup {Entry(90, "events", "telemetry", 300)},
                    !.stored = ("events" :> 300) @@ @, !.telemetry = ("events" :> rows) @@ @]

Yara == ScannerResult("yara")

\* A second result of YARA, in a file of its own.
Again(archive, given) ==
    [archive EXCEPT !.results = Append(@, given), !.stored = (given.path :> 205) @@ @,
                    !.manifest = @ \cup {Entry(85, given.path, "yara", 205)}]

Found(id, attack, pack) ==
    [id |-> id, rule |-> attack, attack |-> attack, pack |-> pack, fits |-> TRUE, words |-> {"evil.io"}]

Finds(archive, scanner, found) ==
    [archive EXCEPT !.results = [i \in DOMAIN @ |->
                                    IF @[i].path = scanner THEN [@[i] EXCEPT !.found = found] ELSE @[i]]]

Packet(id, flow, time) ==
    [id |-> id, flow |-> flow, at |-> time, fits |-> TRUE, names |-> {"9.9.9.9", "host.test"}]

ArchiveDamage(archive, damage) ==
    CASE damage = "two runs" ->
             [archive EXCEPT !.candidates = @ \o @, !.input = "root", !.directories = {"run", "run2"},
                             !.candidates = <<@[1], [@[1] EXCEPT !.run = "run2"]>>]
      [] damage = "torn reports" ->
             [archive EXCEPT !.candidates =
                 <<[file |-> [File({}) EXCEPT !.state = "torn", !.size = 3], run |-> "run"]>> \o @]
      [] damage = "large result" -> [archive EXCEPT !.result.size = MaxInputBytes - 4]
      [] damage = "torn result" -> [archive EXCEPT !.result.state = "torn"]
      [] damage = "no processes" -> [archive EXCEPT !.events["process"].state = "missing"]
      [] damage = "torn files" -> [archive EXCEPT !.events["filesystem"].state = "torn",
                                                  !.fallback["filesystem"] = {FileRow(13, Target, 2, "tool.exe", "read")}]
      [] damage = "channel" -> [archive EXCEPT !.complete = @ \ {"network"}]
      [] damage = "health" -> [archive EXCEPT !.health.malformed = {"host"}]
      [] damage = "guest warned" -> [archive EXCEPT !.guestWarned = TRUE]
      [] damage = "no hash" -> [archive EXCEPT !.hash = Absent]

RowDamage(archive, damage) ==
    CASE damage = "process" -> Spoil("process", archive, [Row("process", archive) EXCEPT !.image = ""])
      [] damage = "parent" -> Spoil("process", archive, [Row("process", archive) EXCEPT !.parent = Absent])
      [] damage = "file pid" -> Spoil("filesystem", archive, [Row("filesystem", archive) EXCEPT !.pid = Invalid])
      [] damage = "file digest" -> Spoil("filesystem", archive, [Row("filesystem", archive) EXCEPT !.sha256 = Invalid])
      [] damage = "registry" -> Spoil("registry", archive, [Row("registry", archive) EXCEPT !.key = ""])
      [] damage = "network" -> Spoil("network", archive, [Row("network", archive) EXCEPT !.intact = FALSE])
      [] damage = "network pid" -> Spoil("network", archive, [Row("network", archive) EXCEPT !.pid = Invalid])

ArtifactDamage(archive, damage) ==
    CASE damage = "entry" -> [archive EXCEPT !.manifest = @ \cup {[Entry(95, "x", "file", 1) EXCEPT !.intact = FALSE]}]
      [] damage = "digest" -> [archive EXCEPT !.manifest = @ \cup {Entry(96, "yara", "file", 999)}]
      [] damage = "unsafe" -> [archive EXCEPT !.manifest = @ \cup {[Entry(97, "yara", "file", 204) EXCEPT !.safe = FALSE]}]
      [] damage = "telemetry" -> WithTelemetry(archive, TelemetryOf(61))
      [] damage = "telemetry cut" ->
             WithTelemetry(archive, <<TelemetryRow(61, Target, "filesystem"),
                                      [TelemetryRow(62, Target, "process") EXCEPT !.intact = FALSE]>>)
      [] damage = "telemetry of another version" ->
             WithTelemetry(archive, <<TelemetryRow(61, Target, "filesystem"),
                                      [TelemetryRow(62, Target, "process") EXCEPT !.known = FALSE]>>)
      [] damage = "telemetry again" ->
             WithTelemetry(archive, [i \in 1..2 |-> TelemetryRow(61, Target, "filesystem")])
      [] damage = "telemetry twice" ->
             LET once == WithTelemetry(archive, <<TelemetryRow(61, Target, "filesystem")>>)
             IN  [once EXCEPT !.manifest = @ \cup {Entry(98, "events", "telemetry", 300)}]
      [] damage = "foreign telemetry" -> WithTelemetry(archive, <<TelemetryRow(61, 9, "filesystem")>>)

\* What YARA is wrong about.
YaraDamage(given, damage) ==
    CASE damage = "timed out" -> [given EXCEPT !.status = "TimedOut", !.warned = TRUE]
      [] damage = "says disabled" -> [given EXCEPT !.status = "Disabled"]
      [] damage = "silent" -> [given EXCEPT !.status = "Partial"]
      [] damage = "cut" -> [given EXCEPT !.truncated = TRUE]
      [] damage = "other target" -> [given EXCEPT !.hash = 102]
      [] damage = "garbled" -> [given EXCEPT !.json = FALSE]
      [] damage = "other engine" -> [given EXCEPT !.pinned = FALSE]
      [] damage = "other limits" -> [given EXCEPT !.sameLimits = FALSE]
      [] damage = "other stage" -> [given EXCEPT !.found.strings = {"evil.io"}]
      [] damage = "foreign pack" -> [given EXCEPT !.packs = {"foreign"}]
      [] damage = "no evidence" -> [given EXCEPT !.cites = <<"nothing">>]
      [] damage = "cites twice" -> [given EXCEPT !.cites = @ \o @]
      [] damage = "cites much" -> [given EXCEPT !.cites = <<"primary", "capa", "network", "pe">>]
      [] damage = "conflict" -> [given EXCEPT !.found.findings =
                                    {Found(71, "T1055", "builtin"),
                                     [Found(72, "T1547", "builtin") EXCEPT !.rule = "T1055"]}]

YaraDamages ==
    {"timed out", "says disabled", "silent", "cut", "other target", "garbled", "other engine", "other limits",
     "other stage", "foreign pack", "no evidence", "cites twice", "cites much", "conflict"}

Sized(archive, kinds, size) ==
    [archive EXCEPT !.manifest = {IF e.kind \in kinds THEN [e EXCEPT !.size = size] ELSE e : e \in @}]

\* On the flow of the packets there are.
Connected(archive, ids) ==
    With("network", {[NetworkRow(id, Target, 2, "9.9.9.9") EXCEPT !.direction = "inbound", !.flow = 31] : id \in ids},
         archive)

ScannerDamage(archive, damage) ==
    CASE damage = "missing" -> [archive EXCEPT !.manifest = {e \in @ : e.kind # "yara"}]
      [] damage = "listed twice" -> [archive EXCEPT !.manifest = @ \cup {Entry(86, "yara", "yara", 204)}]
      [] damage = "listed as another" -> [archive EXCEPT !.manifest = @ \cup {Entry(87, "yara", "capa", 204)}]
      [] damage = "disabled" -> [archive EXCEPT !.config.enabled = @ \ {"yara"}]
      [] damage = "no behaviour" -> [archive EXCEPT !.config.behavioral = FALSE]
      [] damage = "no configuration" -> [archive EXCEPT !.config.state = "absent"]
      [] damage = "bad configuration" -> [archive EXCEPT !.config.state = "invalid"]
      [] damage = "no rules" -> [archive EXCEPT !.config.builtin = {}, !.config.user = TRUE]
      [] damage = "partial too" ->
             Again(archive, [Yara EXCEPT !.status = "Partial", !.warned = TRUE, !.path = "yara2",
                                                  !.target = "yara", !.hash = 204])
      [] damage = "again" -> Again(archive, [Yara EXCEPT !.path = "yara2"])
      [] damage = "long" -> Sized(archive, {"yara"}, MaxResultBytes + 1)
      [] damage = "too much" -> Sized(archive, ScannerNames, MaxResultBytes)
      [] damage = "another connection" -> Connected(archive, {34})
      [] damage = "other connections" -> Connected(archive, {34, 35})
      [] damage = "found" ->
             Finds(Finds(Finds(archive, "yara", [NoFindings EXCEPT !.findings = {Found(71, "T1055", "builtin")}]),
                         "network", [NoFindings EXCEPT !.packets = {Packet(i, 31, 2) : i \in 72..74}]),
                   "pe", [NoFindings EXCEPT !.strings = {"evil.io", "203.0.113.9"}])

Damages ==
    {<<"archive", d>> : d \in {"two runs", "torn reports", "large result", "torn result", "no processes",
                               "torn files", "channel", "health", "guest warned", "no hash"}}
    \cup {<<"row", d>> : d \in {"process", "parent", "file pid", "file digest", "registry", "network",
                                "network pid"}}
    \cup {<<"artifact", d>> : d \in {"entry", "digest", "unsafe", "telemetry", "telemetry cut",
                                     "telemetry of another version", "telemetry again",
                                     "telemetry twice", "foreign telemetry"}}
    \cup {<<"scanner", d>> : d \in {"missing", "listed twice", "listed as another", "disabled",
                                    "no behaviour", "no configuration", "bad configuration", "no rules",
                                    "partial too", "again", "long", "too much", "another connection",
                                    "other connections", "found"}}
    \cup {<<"yara", d>> : d \in YaraDamages}

Damage(archive, d) ==
    CASE d[1] = "archive" -> ArchiveDamage(archive, d[2])
      [] d[1] = "row" -> RowDamage(archive, d[2])
      [] d[1] = "artifact" -> ArtifactDamage(archive, d[2])
      [] d[1] = "scanner" -> ScannerDamage(archive, d[2])
      [] d[1] = "yara" ->
             LET mine == {i \in DOMAIN archive.results : archive.results[i].path = "yara"}
             IN  [archive EXCEPT !.results = [i \in DOMAIN @ |-> IF i \in mine THEN YaraDamage(@[i], d[2]) ELSE @[i]]]

VerdictFamily ==
    {Analysis(FoldSet(LAMBDA d, a : Damage(a, d), Recorded, ds)) :
        ds \in UpTo2(Damages)}

-----------------------------------------------------------------------------
\* What a packed target is able to do, and does or not.

CapabilityFamily ==
    {Analysis(Finds(Finds([Archive EXCEPT !.events = [k \in Kinds |->
                              File((IF k = "process" THEN {Launched} ELSE {}) \cup {a[2] : a \in {b \in acts : b[1] = k}})]],
                          "capa", [NoFindings EXCEPT !.findings = able]),
                    "pe", [NoFindings EXCEPT !.packed = packed])) :
        able \in SUBSET {Found(71, "T1497", "builtin"), Found(72, "T1055", "builtin"), Found(73, "T1547", "builtin")},
        packed \in BOOLEAN,
        acts \in SUBSET {<<"process", Secured(4, 3, "process_injection", "victim")>>,
                         <<"registry", RegistryRow(21, Target, 3, "run", "set", "tool.exe")>>}}

-----------------------------------------------------------------------------
\* As much of a kind as a finding or an indicator may cite, or more.

Changed == <<"plain file", "tool.exe", "script.ps1", "startup.exe", "cmd.exe">>

ReferenceFamily ==
    {Analysis(With("process", {Launched},
              With("network", {[NetworkRow(30 + i, Target, 2, "host.test") EXCEPT !.protocol = "dns"] : i \in 1..asks},
              With("filesystem", {FileRow(10 + i, Target, 2, Changed[i], "delete") : i \in 1..changes}, Archive)))) :
        asks \in {0, MaxReferences, MaxReferences + 1}, changes \in {0, MaxReferences, MaxReferences + 1}}

-----------------------------------------------------------------------------
\* Files that share digests.

Written == {<<11, "tool.exe", 301>>, <<12, "plain file", 302>>, <<13, "script.ps1", 301>>, <<14, "cmd.exe", Absent>>}

ReputationFamily ==
    {[Analysis([With("filesystem", {[FileRow(w[1], Target, 2, w[2], "read") EXCEPT !.sha256 = w[3]] : w \in written},
                     Archive) EXCEPT !.hash = h, !.hashes = {h} \ {Absent}]) EXCEPT !.queried = TRUE] :
        written \in SUBSET Written, h \in {101, 302, Absent}}

MCScenarios ==
    StoreFamily \cup InvocationFamily \cup AssociationFamily \cup LifeFamily \cup ScoreFamily
    \cup CapabilityFamily \cup VerdictFamily \cup ReferenceFamily \cup ReputationFamily
=============================================================================
