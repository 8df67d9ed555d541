------------------------------ MODULE Reputation -------------------------------
(***************************************************************************)
(* Asking VirusTotal about the files of a run                              *)
(* (src/report_analysis/virustotal.rs, src/virustotal_api.rs): each digest *)
(* once, no more than so many, and none after the service has refused.     *)
(***************************************************************************)
EXTENDS Integers, FiniteSets, SequencesExt

CONSTANT MaxLookups

ASSUME LookupsAssumption == MaxLookups \in Nat

\* What the service sends back, if it can be reached: a report on the digest, one on
\* another, a body that is no report or is too long, or a status.
Replies == {"report", "other_report", "garbled", "too_long", "not_found", "rate_limited",
            "rejected", "server_error", "unreachable"}

VARIABLES
    asked,     \* digests that were asked about, in order, with the replies
    refused    \* the service would not answer any more

reputationVars == <<asked, refused>>

NoDigest == -1

\* Each file of the run whose digest is known, the target first.
Candidates(run) ==
    LET target == IF run.hash # NoDigest THEN {run.hash}
                  ELSE IF run.hashes # {} THEN {CHOOSE h \in run.hashes : \A g \in run.hashes : h <= g}
                  ELSE {}
    IN  {[role |-> 0, path |-> "target", sha256 |-> h] : h \in target}
        \cup {[role |-> 1, path |-> f.path, sha256 |-> f.sha256] :
                 f \in {g \in run.files : g.sha256 # NoDigest}}

\* The target, then by path and digest.
Sooner(paths, a, b) ==
    LET place(c) == CHOOSE i \in DOMAIN paths : paths[i] = c.path
    IN  \/ a.role < b.role
        \/ a.role = b.role /\ place(a) < place(b)
        \/ a.role = b.role /\ place(a) = place(b) /\ a.sha256 < b.sha256

ReputationInit == asked = <<>> /\ refused = FALSE

\* Mutant: the report on another file is taken.
LookupResult_Unmatched(reply) ==
    IF reply \in {"report", "other_report"} THEN "available"
    ELSE IF reply = "not_found" THEN "not_found" ELSE "error"

\* A report must be one, within its size, about the digest that was asked for.
LookupResult(reply) ==
    CASE reply = "report" -> "available"
      [] reply = "not_found" -> "not_found"
      [] OTHER -> "error"

Refuses(reply) == reply \in {"rate_limited", "rejected"}

\* Files whose digest may still be asked about.
Unasked(candidates) ==
    {c \in candidates : /\ ~refused /\ Len(asked) < MaxLookups
                        /\ \A i \in DOMAIN asked : asked[i].digest # c.sha256}

\* One request about the first of them and its reply; a refusal ends the asking.
Ask(candidates, paths) ==
    \E c \in Unasked(candidates), reply \in Replies :
        /\ \A d \in Unasked(candidates) : ~Sooner(paths, d, c)
        /\ asked' = Append(asked, [digest |-> c.sha256, reply |-> reply])
        /\ refused' = Refuses(reply)

StatusOf(digest) ==
    LET mine == {i \in DOMAIN asked : asked[i].digest = digest}
    IN  IF mine = {} THEN "not_queried" ELSE LookupResult(asked[CHOOSE i \in mine : TRUE].reply)

\* Files share digests: the status is about the files.
Answers(candidates, queried) ==
    LET available == {c \in candidates : StatusOf(c.sha256) = "available"}
    IN  [files |-> {[path |-> c.path, sha256 |-> c.sha256, status |-> StatusOf(c.sha256)] : c \in candidates},
         status |-> IF ~queried THEN "not_queried"
                    ELSE IF candidates = {} THEN "no_hashes"
                    ELSE IF available = candidates THEN "complete"
                    ELSE IF available # {} THEN "partial" ELSE "unavailable"]
=============================================================================
