--------------------------- MODULE GuestProtocol ---------------------------
(***************************************************************************)
(* The files a run exchanges through its data disk and what makes them a   *)
(* conclusive answer: the status records and the order they may come in    *)
(* (src/sandbox/hyperv/guest_protocol.rs), their exclusive publication,    *)
(* and what the host demands of a stopped guest's volume before it accepts *)
(* its result (src/sandbox/hyperv/result_collector.rs).                    *)
(***************************************************************************)
EXTENDS Naturals, FiniteSets

HostStates == {"HostReady", "RequestWritten", "StartAllowed", "CancelRequested"}

GuestStates == {"GuestReady", "Running", "Completed", "Failed", "ShutdownReady"}

ProtocolStates == HostStates \cup GuestStates

\* Records that carry the digest of result.json.
ResultStates == {"Completed", "Failed", "ShutdownReady"}

Executed == {"completed", "timed_out"}

Outcomes == Executed \cup {"cancelled", "agent_failed"}

\* result.json is identified with its outcome: nothing else of it matters here.
NoResult == "none"
Results == Outcomes \cup {NoResult}

\* Sequence 0: the record is not there.  Every record names the staged request.
Record == [seq : 0..Cardinality(ProtocolStates), result : Results]

NoRecord == [seq |-> 0, result |-> NoResult]

\* evidence: the streams, event files and artifacts that belong to a result;
\* extracted: copies of files the target created are among them;
\* stray: a temporary file left behind in the status directory.
Volume == [status : [ProtocolStates -> Record], claim : BOOLEAN, result : Results,
           evidence : {"none", "partial", "complete"}, extracted : BOOLEAN,
           stray : BOOLEAN]

Published(v) == {s \in ProtocolStates : v.status[s].seq > 0}

Last(v) == IF Published(v) = {} THEN 0
           ELSE CHOOSE n \in {v.status[s].seq : s \in Published(v)} :
                  \A s \in Published(v) : v.status[s].seq <= n

-----------------------------------------------------------------------------
\* ProtocolStateMachine

Terminal(seen) == seen \cap {"Completed", "Failed", "CancelRequested", "ShutdownReady"} # {}

\* validate_prerequisites: a dependency graph, not one order; after termination
\* only ShutdownReady.
Prerequisites(state, seen) ==
    /\ Terminal(seen) => state = "ShutdownReady"
    /\ CASE state = "HostReady"       -> seen = {}
         [] state = "RequestWritten"  -> "HostReady" \in seen
         [] state = "StartAllowed"    -> "RequestWritten" \in seen /\ "Running" \notin seen
         [] state = "GuestReady"      -> "RequestWritten" \in seen
         [] state = "Running"         -> {"GuestReady", "StartAllowed"} \subseteq seen
         [] state = "Completed"       -> "Running" \in seen
         [] state = "Failed"          -> "RequestWritten" \in seen
         [] state = "CancelRequested" -> "RequestWritten" \in seen
         [] state = "ShutdownReady"   -> seen \cap {"Completed", "Failed", "CancelRequested"} # {}

\* observe: the sequence increases, no state comes twice.
Observable(state, seq, seen, last) ==
    seq > last /\ state \notin seen /\ Prerequisites(state, seen)

\* Observing the records of "states" in the order of their sequences.
Before(v, states, s) == {t \in states : v.status[t].seq < v.status[s].seq}

ObservableInOrder(v, states, seen, last) ==
    \A s \in states :
       /\ v.status[s].seq > last
       /\ \A t \in states \ {s} : v.status[t].seq # v.status[s].seq
       /\ s \notin seen /\ Prerequisites(s, seen \cup Before(v, states, s))

-----------------------------------------------------------------------------
\* write_atomic_json_new: a flushed temporary file is linked to its name unless
\* the name is taken, then removed.  What a call can leave of [linked, stray]:

Succeeded == [ok |-> TRUE, linked |-> TRUE, stray |-> FALSE, cost |-> 0]

Interfered == {[ok |-> FALSE, linked |-> l, stray |-> t, cost |-> 1] : l, t \in BOOLEAN}

\* Mutant: the file is renamed over whatever has its name.
WriteNew_Replacing(exists) == {Succeeded} \cup Interfered

WriteNew(exists) ==
    IF exists
    THEN {[ok |-> FALSE, linked |-> FALSE, stray |-> FALSE, cost |-> 0]}
    ELSE {Succeeded} \cup Interfered

\* A status record on the volume after a write with outcome w.
WithRecord(v, state, record, w) ==
    [v EXCEPT !.status[state] = IF w.linked THEN record ELSE @, !.stray = @ \/ w.stray]

-----------------------------------------------------------------------------
\* validate_status_chain and collect.

\* Every terminal record names the result, no other record names any.
Bound(v) ==
    \A s \in Published(v) :
       v.status[s].result = IF s \in ResultStates THEN v.result ELSE NoResult

OutcomeMatches(outcome, seen) ==
    CASE outcome \in Executed      -> /\ {"GuestReady", "Running", "Completed"} \subseteq seen
                                      /\ seen \cap {"Failed", "CancelRequested"} = {}
      [] outcome = "agent_failed"  -> /\ "Failed" \in seen
                                      /\ seen \cap {"Completed", "CancelRequested"} = {}
      [] outcome = "cancelled"     -> /\ "CancelRequested" \in seen
                                      /\ seen \cap {"Completed", "Failed"} = {}

StatusChainValid(v) ==
    LET seen == Published(v)
    IN  /\ ~v.stray
        /\ ObservableInOrder(v, seen, {}, 0)
        /\ Bound(v)
        /\ {"HostReady", "RequestWritten", "StartAllowed", "ShutdownReady"} \subseteq seen
        /\ OutcomeMatches(v.result, seen)

Acceptable(v) ==
    /\ v.result # NoResult
    /\ StatusChainValid(v)
    /\ v.result \in Executed => v.evidence = "complete"
=============================================================================
