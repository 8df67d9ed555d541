------------------------------ MODULE ProcessIndex ------------------------------
(***************************************************************************)
(* Which process an observed event belongs to                              *)
(* (src/report_analysis/process_index.rs).  An event that names no process *)
(* goes to the one observed nearest to it within its lifetime.             *)
(*                                                                         *)
(* A process is a record with fields pid, parent, image, at and            *)
(* observations, a set of records with at least at and status.             *)
(***************************************************************************)
EXTENDS Integers, FiniteSets, FiniteSetsExt

\* u64::MAX, later than every time of a run.
Forever == 1000000

NoPid == -1

Terminations(p) == {o \in p.observations : o.status = "terminated"}

Started(p) ==
    LET starts == {o.at : o \in p.observations \ Terminations(p)}
    IN  IF starts = {} THEN p.at ELSE Min(starts)

Ended(p) == IF Terminations(p) = {} THEN Forever ELSE Min({o.at : o \in Terminations(p)})

Living(processes) == {p \in processes : Started(p) <= Ended(p)}

-----------------------------------------------------------------------------
\* Each observation is a candidate for the times behind it and for those before it.

Interval(start, end, observed, p) ==
    [start |-> start, end |-> end, observed |-> observed, pid |-> p.pid]

\* Mutant: an interval reaches beyond the end of its process.
Before_Unended(processes) ==
    UNION {{Interval(Max({Started(p), o.at}), Forever, o.at, p) :
                o \in {q \in p.observations : q.at <= Ended(p)}} : p \in Living(processes)}

Before(processes) ==
    UNION {{Interval(Max({Started(p), o.at}), Ended(p), o.at, p) :
                o \in {q \in p.observations : q.at <= Ended(p)}} : p \in Living(processes)}

After(processes) ==
    UNION {{Interval(Started(p), Min({Ended(p), o.at}), o.at, p) :
                o \in {q \in p.observations : Started(p) <= q.at}} : p \in Living(processes)}

\* Processes without an observation of their own.
Unobserved(processes) ==
    {Interval(Started(p), Ended(p), 0, p) :
        p \in {q \in Living(processes) : q.observations = {}}}

\* Timeline: the sweep adds an interval at its start and takes it out behind its end,
\* unless that is past every time; the first of the active ones by rank wins.
Active(intervals, time) ==
    {i \in intervals : i.start <= time /\ (i.end + 1 <= Forever => time < i.end + 1)}

Rank(i, preferLatest) == IF preferLatest THEN Forever - i.observed ELSE i.observed

Winners(intervals, preferLatest, time) ==
    {i \in Active(intervals, time) :
        \A j \in Active(intervals, time) :
            \/ Rank(i, preferLatest) < Rank(j, preferLatest)
            \/ Rank(i, preferLatest) = Rank(j, preferLatest) /\ i.pid <= j.pid}

Distance(a, b) == IF a <= b THEN b - a ELSE a - b

Nearest(processes, time) ==
    {[distance |-> Distance(i.observed, time), pid |-> i.pid] :
        i \in Winners(Before(processes), TRUE, time) \cup Winners(After(processes), FALSE, time)}
    \cup {[distance |-> Forever, pid |-> i.pid] :
             i \in Winners(Unobserved(processes), FALSE, time)}

-----------------------------------------------------------------------------
ForPid(processes, pid, inferred, method) ==
    LET known == {p \in processes : p.pid = pid}
    IN  [pid |-> pid,
         image |-> IF known = {} THEN "<unknown>" ELSE (CHOOSE p \in known : TRUE).image,
         parent |-> IF known = {} THEN NoPid ELSE (CHOOSE p \in known : TRUE).parent,
         inferred |-> inferred, method |-> method]

Associate(processes, explicit, time, root) ==
    IF explicit # NoPid THEN ForPid(processes, explicit, FALSE, "explicit_pid")
    ELSE LET near == Nearest(processes, time)
             best == CHOOSE n \in near :
                         \A m \in near : \/ n.distance < m.distance
                                         \/ n.distance = m.distance /\ n.pid <= m.pid
         IN  IF near = {} THEN ForPid(processes, root, TRUE, "root_target_fallback")
             ELSE ForPid(processes, best.pid, TRUE, "nearest_process_lifetime")
=============================================================================
