-------------------------- MODULE CleanupJournal --------------------------
(***************************************************************************)
(* The cleanup journal of one Hyper-V run (src/sandbox/hyperv/cleanup.rs):  *)
(* what one generation records, which journals may be written or read, and *)
(* what writing a generation can leave on disk.  Generations are numbered  *)
(* files, created new and never replaced; recovery reads the highest valid *)
(* one, so the directory is abstracted to that one ("latest") and the set  *)
(* of file numbers already taken ("names").                                *)
(***************************************************************************)
EXTENDS Naturals

CONSTANT MaxSequence          \* MAX_JOURNAL_SEQUENCE, 10000 in the code

ASSUME MaxSequenceAssumption == MaxSequence \in Nat \ {0}

Phases == {"preparing", "vm_created", "running", "cleaning", "failed", "finished"}

\* Recorded state of the run-data disk.  A disk recorded as mounted or detached
\* carries both recorded identities, a planned one carries neither.
DataDiskStates == {"none", "planned", "mounted", "detached"}

\* "lease" names only the guest address lease, "owned" also the capture session
\* and the host firewall rule.
NetworkRecords == {"none", "lease", "owned"}

Journal == [seq : 0..MaxSequence, phase : Phases, vm : BOOLEAN,
            osDisk : BOOLEAN, osId : BOOLEAN, data : DataDiskStates,
            network : NetworkRecords]

\* CleanupJournal::new.  Sequence 0 is never on disk: it also stands for "none".
NewJournal == [seq |-> 0, phase |-> "preparing", vm |-> FALSE, osDisk |-> FALSE,
               osId |-> FALSE, data |-> "none", network |-> "none"]

NamesNothing(j) == /\ ~j.vm /\ ~j.osDisk /\ ~j.osId
                   /\ j.data = "none" /\ j.network = "none"

DataIdentified(j) == j.data \in {"mounted", "detached"}

ValidJournal(j) ==
    /\ j.seq <= MaxSequence
    /\ j.osId => j.osDisk
    /\ (j.osDisk /\ ~j.osId) => j.phase = "preparing"
    /\ j.phase = "finished" => NamesNothing(j)

-----------------------------------------------------------------------------
\* The generations on disk.
Store == [latest : Journal, names : SUBSET (1..MaxSequence)]

EmptyStore == [latest |-> NewJournal, names |-> {}]

Later(j, k) == IF j.seq > k.seq THEN j ELSE k

Numbered(j) == [j EXCEPT !.seq = @ + 1]

\* The file exists but does not parse as a journal.
TornWrite(j, store) == [store EXCEPT !.names = @ \cup {j.seq}]

Written(j, store) == [latest |-> Later(store.latest, j),
                      names  |-> store.names \cup {j.seq}]

\* Mutant: one generation more than the limit.
PersistOutcomes_OneTooMany(j, store) ==
    IF ~ValidJournal(j) \/ j.seq > MaxSequence
    THEN {[ok |-> FALSE, journal |-> j, store |-> store, cost |-> 0]}
    ELSE {[ok |-> TRUE, journal |-> Numbered(j), store |-> Written(Numbered(j), store),
           cost |-> 0]}

\* Mutant: a journal file may replace one of the same number.
PersistOutcomes_Replacing(j, store) ==
    LET next    == Numbered(j)
        written == [latest |-> next, names |-> store.names \cup {next.seq}]
    IN  IF ~ValidJournal(j) \/ j.seq >= MaxSequence
        THEN {[ok |-> FALSE, journal |-> j, store |-> store, cost |-> 0]}
        ELSE {[ok |-> TRUE, journal |-> next, store |-> written, cost |-> 0],
              [ok |-> FALSE, journal |-> next, store |-> written, cost |-> 1]}

(***************************************************************************)
(* CleanupJournal::persist as the set of its outcomes.  The journal is     *)
(* refused before it is numbered when it is invalid or the numbers have    *)
(* run out; the number stays consumed in memory when the file cannot be    *)
(* created.  An I/O error (cost 1) can leave no file, a torn file, or a    *)
(* complete file that was only not confirmed flushed.                      *)
(***************************************************************************)
PersistOutcomes(j, store) ==
    LET next == Numbered(j)
        Failed(s) == [ok |-> FALSE, journal |-> next, store |-> s, cost |-> 1]
    IN  IF ~ValidJournal(j) \/ j.seq >= MaxSequence
        THEN {[ok |-> FALSE, journal |-> j, store |-> store, cost |-> 0]}
        ELSE IF next.seq \in store.names
        THEN {[ok |-> FALSE, journal |-> next, store |-> store, cost |-> 0]}
        ELSE {[ok |-> TRUE, journal |-> next, store |-> Written(next, store), cost |-> 0]}
             \cup {Failed(s) : s \in {store, TornWrite(next, store), Written(next, store)}}
=============================================================================
