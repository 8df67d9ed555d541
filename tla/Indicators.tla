------------------------------ MODULE Indicators -------------------------------
(***************************************************************************)
(* The indicators of a run (src/report_analysis/ioc.rs): what its events,  *)
(* its verified artifacts and the results of its scanners name.            *)
(*                                                                         *)
(* A text is a model of what it says: the sets below tell addresses,       *)
(* domains, URLs and paths apart.  The text of a command line is the set   *)
(* of its words.                                                           *)
(***************************************************************************)
EXTENDS Verdict

Urls == {"http://evil.io", "http://example.com"}
Domains == {"evil.io", "example.com", "host.test"}
Addresses == {"9.9.9.9", "203.0.113.9", "127.0.0.1"}
FullPaths == {"payload.exe", "tool.exe", "startup.exe", "script.ps1", "cmd.exe", "login data",
              "cookies", "file:stream", "plain file"}

DomainOf(url) == IF url = "http://evil.io" THEN "evil.io" ELSE "example.com"

\* Common names, own addresses and the files of Windows stay visible as context.
Contextual(text) == text \in {"example.com", "http://example.com", "127.0.0.1", "cmd.exe"}

\* For what scanners name, so do names and addresses kept for tests and documents.
StaticContextual(text) == Contextual(text) \/ text \in {"host.test", "203.0.113.9"}

\* normalize: text that is not what it should be names nothing.
Sound(type, text) ==
    CASE type = "url" -> text \in Urls
      [] type = "domain" -> text \in Domains
      [] type = "ip" -> text \in Addresses
      [] type = "file_path" -> text \in FullPaths
      [] OTHER -> text # ""

\* What the report says of the target has no evidence.
Candidate(type, value, at, contextual, sources) ==
    [type |-> type, value |-> value, at |-> at, contextual |-> contextual, sources |-> sources]

Named(type, texts, e) ==
    {Candidate(type, t, e.at, Contextual(t), {e.id}) : t \in {x \in texts : Sound(type, x)}}

Hash(value, sources) == Candidate("sha256", value, 0, FALSE, sources)

\* Mutant: the digests of the manifest are taken as they are.
HashCandidates_Unverified(run) ==
    {Hash(h, {}) : h \in run.hashes} \cup {Hash(a.sha256, {a.id}) : a \in run.artifacts}

HashCandidates(run) ==
    {Hash(h, {}) : h \in run.hashes}
    \cup {Hash(a.sha256, {a.id}) : a \in {b \in run.artifacts : b.verified}}
    \cup {[Hash(f.sha256, {f.id}) EXCEPT !.at = f.at] : f \in {g \in run.files : g.sha256 # Absent}}

ProcessCandidates(run) ==
    UNION {LET urls == o.command \cap Urls
           IN  Named("process_image", {o.image}, o) \cup Named("file_path", {o.image}, o)
               \cup Named("url", urls, o)
               \cup Named("domain", {DomainOf(u) : u \in urls} \cup (o.command \cap Domains), o)
               \cup Named("ip", o.command, o) \cup Named("file_path", o.command, o) :
               o \in {p \in Observations(run) : p.status # "terminated"}}

\* Both ends of a connection; the own end is context whatever it is.
NetworkCandidates(run) ==
    UNION {Named("domain", {n.domain}, n) \cup Named("ip", {n.remote}, n)
           \cup {[c EXCEPT !.contextual = TRUE] : c \in Named("ip", {n.local}, n)} : n \in run.network}

EventCandidates(run) ==
    ProcessCandidates(run) \cup NetworkCandidates(run)
    \cup (UNION {Named("file_path", {f.path}, f) : f \in run.files})
    \cup (UNION {Named("registry_key", {r.key}, r) : r \in run.registry})

\* observables::normalize: a word of a string is an observable of each kind it has the
\* form of; a path with a stream is none.
StaticSound(type, text) == Sound(type, text) /\ text # "file:stream"

Extract(words, at, sources) ==
    {Candidate(c[1], c[2], at, StaticContextual(c[2]), sources) :
        c \in {d \in {"url", "domain", "ip", "file_path"} \X words : StaticSound(d[1], d[2])}}

\* extend_detection_iocs: strings of the target, what rules of YARA matched in it, and
\* the names and addresses of packets.
ScannerCandidates(run) ==
    UNION {Extract(s.strings, 0, s.evidence)
           \cup (IF s.scanner = "yara" THEN Extract(UNION {f.words : f \in s.findings}, 0, s.evidence) ELSE {})
           \cup (UNION {Extract(p.names, Max({0, p.at}), s.evidence) : p \in s.packets}) : s \in run.detection.stages}

\* One indicator for a value of a type: first and last seen, all its sources.  What a
\* scanner says counts for the times only if it has one of its own; an address that
\* was seen is context if it would be in what a scanner says.
Merge(candidates, static, type, value) ==
    LET mine == {c \in candidates : c.type = type /\ c.value = value}
        more == {c \in static : c.type = type /\ c.value = value}
        early == IF mine = {} THEN 0 ELSE Min({c.at : c \in mine})
        timed == {c.at : c \in more} \ {0}
    IN  [type |-> type, value |-> value,
         first |-> IF early = 0 /\ timed # {} THEN Min(timed) ELSE Min({early} \cup timed),
         last |-> Max({0} \cup {c.at : c \in mine} \cup timed),
         contextual |-> \/ \E c \in mine \cup more : c.contextual
                        \/ type = "ip" /\ StaticContextual(value),
         sources |-> UNION {c.sources : c \in mine \cup more}]

ExtractIocs(run) ==
    LET candidates == HashCandidates(run) \cup EventCandidates(run)
        static == ScannerCandidates(run)
    IN  {Merge(candidates, static, k[1], k[2]) : k \in {<<c.type, c.value>> : c \in candidates \cup static}}

IocWarnings(run) ==
    run.warnings \cup If(run.hashes = {}, Warning("target_hash_unavailable", "target"))
=============================================================================
