----------------------------- MODULE ArtifactStore -----------------------------
(***************************************************************************)
(* The protected artifact root (src/artifact.rs): files are written to a   *)
(* temporary sibling and moved to their name, within a ceiling for reports *)
(* and by replacement for the outputs of an analysis, while other          *)
(* processes of the tool publish, clean up and die.                        *)
(*                                                                         *)
(* A process publishes one file at a time, so the lock of its own threads  *)
(* is not modelled.  One directory is listed at one instant, its entries   *)
(* are looked at one by one afterwards.                                    *)
(***************************************************************************)
EXTENDS Integers, FiniteSets, FiniteSetsExt

CONSTANTS
    Writers,       \* publications, each by a process of the tool
    Cleaners,      \* processes started with --clean-up
    Directories,   \* below the root
    MaxFiles, MaxBytes

ASSUME StoreAssumption == MaxFiles \in Nat \ {0} /\ MaxBytes \in Nat \ {0}

ASSUME WritersAssumption ==
    IsFiniteSet(Writers) /\ Writers \cap {"none", "earlier", "a", "b"} = {}

\* A path is a name in a directory; the temporary file of a writer has its name.
Paths == [dir : Directories, name : {"a", "b"} \cup Writers]

NoFile == [owner |-> "none", size |-> 0, whole |-> FALSE]

Manners == {"new", "replace"}

\* What a writer is to write, and what may be below the root.
Wishes == [path : [dir : Directories \cup {"outside"}, name : {"a", "b"}],
           size : Nat, limit : Nat, manner : Manners]

Contents == [owner : Writers \cup {"none", "earlier"}, size : Nat, whole : BOOLEAN]

VARIABLES
    wants,      \* what each writer is to write: path, size, size limit and manner
    files,      \* the files below the root
    at,         \* next step of each writer
    unread,     \* directories its ceiling check has yet to list
    listed,     \* entries it has listed and not yet looked at
    counted,    \* entries it has counted, with their sizes
    result,     \* what secure_write_new or secure_replace_in returned
    cleaning    \* next step of each cleaner

storeVars == <<wants, files, at, unread, listed, counted, result, cleaning>>

\* While it is at these steps a writer holds the directories above its file open
\* without sharing their deletion.
PinnedSteps == {"look", "create", "write", "scan", "move"}

Temporary(w) == [dir |-> wants[w].path.dir, name |-> w]

Exists(p) == files[p] # NoFile

Existing == {p \in Paths : Exists(p)}

\* Files are bound to their writers by the scenario; the others are there before.
StoreInit(scenario) ==
    /\ wants = scenario.wants
    /\ files = scenario.files
    /\ at = [w \in Writers |-> "idle"]
    /\ unread = [w \in Writers |-> {}]
    /\ listed = [w \in Writers |-> {}]
    /\ counted = [w \in Writers |-> [files |-> 0, bytes |-> 0]]
    /\ result = [w \in Writers |-> "none"]
    /\ cleaning = [c \in Cleaners |-> IF scenario.cleans THEN "start" ELSE "none"]

-----------------------------------------------------------------------------
Goes(w, from, to) == at[w] = from /\ at' = [at EXCEPT ![w] = to]

Returns(w, r) == result' = [result EXCEPT ![w] = r] /\ at' = [at EXCEPT ![w] = "over"]

Unlink(p) == files' = [files EXCEPT ![p] = NoFile]

Removing == \E c \in Cleaners : cleaning[c] = "removing"

\* validate_relative_artifact_path
ValidName(w) == wants[w].path.dir # "outside"

\* A directory that is being removed may not be there to be pinned.
PinDirectories(w) ==
    /\ \/ /\ ValidName(w)
          /\ Goes(w, "start", IF wants[w].manner = "new" THEN "look" ELSE "create")
          /\ UNCHANGED result
       \/ /\ at[w] = "start" /\ (ValidName(w) => Removing)
          /\ Returns(w, "refused")
    /\ UNCHANGED <<wants, files, unread, listed, counted, cleaning>>

LookAtDestination(w) ==
    /\ at[w] = "look"
    /\ IF Exists(wants[w].path) THEN Returns(w, "refused")
       ELSE Goes(w, "look", "create") /\ UNCHANGED result
    /\ UNCHANGED <<wants, files, unread, listed, counted, cleaning>>

CreateTemporary(w) ==
    /\ Goes(w, "create", "write")
    /\ files' = [files EXCEPT ![Temporary(w)] = [owner |-> w, size |-> 0, whole |-> FALSE]]
    /\ UNCHANGED <<wants, unread, listed, counted, result, cleaning>>

Whole(w) == files[Temporary(w)].size = wants[w].size

\* Mutant: the ceiling is checked before the file is written.
WriteSome_Unscanned(w) ==
    /\ at[w] = "write"
    /\ IF ~Whole(w)
       THEN files' = [files EXCEPT ![Temporary(w)].size = @ + 1] /\ UNCHANGED at
       ELSE /\ files' = [files EXCEPT ![Temporary(w)].whole = TRUE]
            /\ at' = [at EXCEPT ![w] = "move"]
    /\ UNCHANGED <<wants, unread, listed, counted, result, cleaning>>

\* A piece within the size limit, or the end: flushed, synced and closed.
WriteSome(w) ==
    /\ at[w] = "write"
    /\ \/ /\ ~Whole(w) /\ files[Temporary(w)].size < wants[w].limit
          /\ files' = [files EXCEPT ![Temporary(w)].size = @ + 1]
          /\ UNCHANGED <<at, unread, result>>
       \/ /\ ~Whole(w) /\ files[Temporary(w)].size = wants[w].limit
          /\ Unlink(Temporary(w)) /\ Returns(w, "refused")
          /\ UNCHANGED unread
       \/ /\ Whole(w)
          /\ files' = [files EXCEPT ![Temporary(w)].whole = TRUE]
          /\ at' = [at EXCEPT ![w] = IF wants[w].manner = "new" THEN "scan" ELSE "move"]
          /\ unread' = [unread EXCEPT ![w] = IF wants[w].manner = "new" THEN Directories ELSE {}]
          /\ UNCHANGED result
    /\ UNCHANGED <<wants, listed, counted, cleaning>>

-----------------------------------------------------------------------------
\* enforce_artifact_ceiling

ListDirectory(w) ==
    /\ at[w] = "scan" /\ listed[w] = {}
    /\ \E d \in unread[w] :
          /\ unread' = [unread EXCEPT ![w] = @ \ {d}]
          /\ listed' = [listed EXCEPT ![w] = {p \in Existing : p.dir = d}]
    /\ UNCHANGED <<wants, files, at, counted, result, cleaning>>

Within(count) == count.files <= MaxFiles /\ count.bytes <= MaxBytes

\* An entry that is gone by now fails the check like one beyond the ceiling.
CountEntry(w) ==
    /\ at[w] = "scan"
    /\ \E p \in listed[w] :
          LET count == [files |-> counted[w].files + 1, bytes |-> counted[w].bytes + files[p].size]
          IN  /\ listed' = [listed EXCEPT ![w] = @ \ {p}]
              /\ IF Exists(p) /\ Within(count)
                 THEN counted' = [counted EXCEPT ![w] = count] /\ UNCHANGED <<files, at, result>>
                 ELSE Unlink(Temporary(w)) /\ Returns(w, "refused") /\ UNCHANGED counted
    /\ UNCHANGED <<wants, unread, cleaning>>

AcceptUsage(w) ==
    /\ unread[w] = {} /\ listed[w] = {}
    /\ Goes(w, "scan", "move")
    /\ UNCHANGED <<wants, files, unread, listed, counted, result, cleaning>>

\* Mutant: a destination that appeared since it was looked for is replaced.
MoveToName_Replacing(w) ==
    /\ at[w] = "move"
    /\ files' = [files EXCEPT ![wants[w].path] = files[Temporary(w)], ![Temporary(w)] = NoFile]
    /\ Returns(w, "published")
    /\ UNCHANGED <<wants, unread, listed, counted, cleaning>>

\* The move replaces only the outputs of an analysis.
MoveToName(w) ==
    /\ at[w] = "move"
    /\ IF ~Exists(Temporary(w)) \/ (wants[w].manner = "new" /\ Exists(wants[w].path))
       THEN Unlink(Temporary(w)) /\ Returns(w, "refused")
       ELSE /\ files' = [files EXCEPT ![wants[w].path] = files[Temporary(w)],
                                      ![Temporary(w)] = NoFile]
            /\ Returns(w, "published")
    /\ UNCHANGED <<wants, unread, listed, counted, cleaning>>

\* A call fails: the guard removes the temporary file, if it can.
FailToWrite(w) ==
    /\ at[w] \in PinnedSteps
    /\ Returns(w, "refused")
    /\ \/ Unlink(Temporary(w))
       \/ UNCHANGED files
    /\ UNCHANGED <<wants, unread, listed, counted, cleaning>>

\* The process dies: its handles are closed, its temporary file stays.
DieWriting(w) ==
    /\ at[w] \in PinnedSteps
    /\ Returns(w, "died")
    /\ UNCHANGED <<wants, files, unread, listed, counted, cleaning>>

-----------------------------------------------------------------------------
\* clean_artifacts_and_logs_at: everything below the root goes, one file after the other.

StartCleaning(c) ==
    /\ cleaning[c] = "start"
    /\ cleaning' = [cleaning EXCEPT ![c] = "removing"]
    /\ UNCHANGED <<wants, files, at, unread, listed, counted, result>>

\* A temporary file is open for its writer alone until it is written.
HeldOpen(p) == \E w \in Writers : p = Temporary(w) /\ at[w] = "write"

RemoveOne(c) ==
    /\ cleaning[c] = "removing"
    /\ \E p \in Existing : ~HeldOpen(p) /\ Unlink(p)
    /\ UNCHANGED <<wants, at, unread, listed, counted, result, cleaning>>

\* At a file or a directory that is in use, which directories are while they are
\* pinned, the rest stays.
EndCleaning(c) ==
    /\ cleaning[c] = "removing"
    /\ \/ Existing = {}
       \/ \E w \in Writers : at[w] \in PinnedSteps
    /\ cleaning' = [cleaning EXCEPT ![c] = "over"]
    /\ UNCHANGED <<wants, files, at, unread, listed, counted, result>>

Publish(w) ==
    \/ PinDirectories(w) \/ LookAtDestination(w) \/ CreateTemporary(w) \/ WriteSome(w)
    \/ ListDirectory(w) \/ CountEntry(w) \/ AcceptUsage(w) \/ MoveToName(w)

Clean(c) == StartCleaning(c) \/ RemoveOne(c) \/ EndCleaning(c)

-----------------------------------------------------------------------------
\* Properties.

Reports == {p \in Existing : p.name \notin Writers /\ files[p].owner \in Writers /\
                             wants[files[p].owner].manner = "new"}

\* secure_write_new, enforce_artifact_ceiling: however many processes publish at once,
\* the reports they publish stay within the ceilings together.
CeilingHolds ==
    /\ Cardinality(Reports) <= MaxFiles
    /\ MapThenSumSet(LAMBDA p : files[p].size, Reports) <= MaxBytes

\* "refusing to overwrite existing artifact": a name holds what one writer has
\* completely written; until somebody cleans up, a writer that was told so has its file
\* there, so that of two writers of a name one is refused.
ReportsKept ==
    /\ \A p \in Existing : p.name \notin Writers => files[p].whole
    /\ (\A c \in Cleaners : cleaning[c] \in {"none", "start"}) =>
          \A w \in Writers : result[w] = "published" => files[wants[w].path].owner = w
    /\ \A w \in Writers : result[w] = "refused" => files[wants[w].path].owner # w
=============================================================================
