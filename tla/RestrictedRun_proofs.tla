------------------------ MODULE RestrictedRun_proofs ------------------------
(***************************************************************************)
(* Proofs about the restricted-process backend, for any number of brokers, *)
(* sessions, requests and failures: every variable keeps its type; a       *)
(* profile never loses the marker by which a later run finds it, and no    *)
(* scavenger takes the profile of a run that still uses it; the target is  *)
(* contained (it runs only inside its job, with its own token, behind its  *)
(* own filters, in a profile that exists and in a session its broker has   *)
(* to itself); and what the broker reports of the run is true.             *)
(***************************************************************************)
EXTENDS RestrictedRun, TLAPS

-----------------------------------------------------------------------------
\* Type correctness.  The filters and the token of a run come from its request, which
\* no step changes.

FilterSets == UNION {SUBSET Filters(request[r]) : r \in Runs}
TokenSets == UNION {SUBSET TokensMade(request[r]) : r \in Runs}
Reports == [status : {"none", "result", "error"}, clean : BOOLEAN, leftover : BOOLEAN]

\* TypeOK, variable by variable.
OfStore ==
    /\ lease \in [Sessions -> Runs \cup {"free", "abandoned"}]
    /\ markers \in [Runs -> Runs \cup {"none", "loose"}]
    /\ profiles \subseteq Runs

OfChild ==
    /\ filters \in [Runs -> FilterSets]
    /\ job \in [Runs -> {"none", "open", "closed"}]
    /\ token \in [Runs -> TokenSets]
    /\ root \in [Runs -> {"none", "suspended", "running", "exited", "limited", "killed"}]
    /\ inJob \in [Runs -> BOOLEAN]
    /\ kids \in [Runs -> BOOLEAN]
    /\ volume \in [Runs -> Volumes]

OfClock ==
    /\ expired \in [Runs -> BOOLEAN]
    /\ interrupted \in [Runs -> BOOLEAN]
    /\ threads \in [Runs -> SUBSET {"monitor", "output", "input"}]

OfBooks ==
    /\ todo \in [Runs -> SUBSET Runs]
    /\ stale \in [Runs -> Runs]
    /\ outcome \in [Runs -> Outcomes]
    /\ prepared \in [Runs -> BOOLEAN]
    /\ report \in [Runs -> Reports]

Fixed == request \in [Runs -> Requests] /\ session \in [Runs -> Sessions]

Bounded == faults \in 0..MaxFaults /\ moves \in 0..MaxMoves

LEMMA Types ==
  TypeOK <=> /\ Fixed /\ Bounded /\ pc \in [Runs -> Steps]
             /\ OfStore /\ OfChild /\ OfClock /\ OfBooks
BY DEF TypeOK, Fixed, Bounded, OfStore, OfChild, OfClock, OfBooks, FilterSets, TokenSets, Reports

\* What a request brings along is among the sets of its run.
LEMMA SetsOfRun ==
  ASSUME NEW r \in Runs
  PROVE  /\ Filters(request[r]) \in FilterSets /\ {} \in FilterSets /\ {} \in TokenSets
         /\ \A t \in TokensMade(request[r]) : {t} \in TokenSets
<1>1. FilterSets = UNION {SUBSET Filters(request[q]) : q \in Runs}
  BY DEF FilterSets
<1>2. TokenSets = UNION {SUBSET TokensMade(request[q]) : q \in Runs}
  BY DEF TokenSets
<1> QED BY <1>1, <1>2

LEMMA SetsKept == UNCHANGED request => UNCHANGED <<FilterSets, TokenSets>>
BY DEF FilterSets, TokenSets

\* TypeOK, group by group.
Typed == /\ Fixed /\ Bounded /\ pc \in [Runs -> Steps]
         /\ OfStore /\ OfChild /\ OfClock /\ OfBooks

LEMMA PrepareTyped ==
  ASSUME Typed, NEW r \in Runs, Prepare(r)
  PROVE  Typed'
<1> USE DEF Typed
<1> USE
    DEF Prepare, PinTarget, AcquireLease, ListMarkers, OpenMarker, DeleteStaleProfile,
        RemoveStaleMarker, RemoveMarkerFile, CreateMarker, CreateProfile, StageRun,
        InstallFilters, store, child, clock, books, Step, GiveUp, Outcome
<1>1. Fixed' /\ UNCHANGED <<FilterSets, TokenSets>>
  BY SetsKept DEF Fixed
<1>2. Bounded'
  BY FaultsAssumption DEF Bounded, Fault, Move
<1>3. pc' \in [Runs -> Steps]
  BY DEF Steps, HoldingSteps, DeletingSteps
<1>4. OfStore'
  BY DEF OfStore, Fixed
<1>5. OfChild'
  BY <1>1, SetsOfRun DEF OfChild, Volumes
<1>6. OfClock'
  BY DEF OfClock
<1>7. OfBooks'
  <2>1. todo' \in [Runs -> SUBSET Runs] /\ stale' \in [Runs -> Runs]
    BY DEF OfBooks
  <2>2. outcome' \in [Runs -> Outcomes]
    BY DEF OfBooks, Outcomes
  <2>3. prepared' \in [Runs -> BOOLEAN]
    BY DEF OfBooks
  <2>4. report' \in [Runs -> Reports]
    BY DEF OfBooks, Reports
  <2> QED BY <2>1, <2>2, <2>3, <2>4 DEF OfBooks
<1> QED BY <1>1, <1>2, <1>3, <1>4, <1>5, <1>6, <1>7

LEMMA ExecuteTyped ==
  ASSUME Typed, NEW r \in Runs, Execute(r)
  PROVE  Typed'
<1> USE DEF Typed
<1> USE
    DEF Execute, CreateSuspended, AssignJob, VerifyToken, Resume, CheckRequests, WaitSlice,
        MeasureStorage, JudgeStorage, KillTree, StopMonitor, CloseJob, JoinThreads,
        ObserveFiles, CloseJobHandle, store, child, clock, books, Step, GiveUp, Outcome
<1>1. Fixed' /\ UNCHANGED <<FilterSets, TokenSets>>
  BY SetsKept DEF Fixed
<1>2. Bounded'
  BY FaultsAssumption DEF Bounded, Fault, Move
<1>3. pc' \in [Runs -> Steps]
  BY DEF Steps, HoldingSteps, DeletingSteps
<1>4. OfStore'
  BY DEF OfStore, Fixed
<1>5. OfChild'
  <2>1. filters' = filters /\ volume' = volume /\ job' \in [Runs -> {"none", "open", "closed"}]
    BY DEF OfChild
  <2>2. token' \in [Runs -> TokenSets]
    <3>1. token' = token \/ \E t \in TokensMade(request[r]) : token' = [token EXCEPT ![r] = {t}]
      OBVIOUS
    <3>2. token \in [Runs -> TokenSets]
      BY DEF OfChild
    <3> HIDE DEF TokenSets, TokensMade
    <3> QED BY ONLY <3>1, <3>2, SetsOfRun, r \in Runs
  <2>3. root' \in [Runs -> {"none", "suspended", "running", "exited", "limited", "killed"}]
    BY DEF OfChild
  <2>4. inJob' \in [Runs -> BOOLEAN] /\ kids' \in [Runs -> BOOLEAN]
    BY DEF OfChild
  <2> QED BY <1>1, <2>1, <2>2, <2>3, <2>4 DEF OfChild
<1>6. OfClock'
  BY DEF OfClock
<1>7. OfBooks'
  BY DEF OfBooks, Outcomes, Reports
<1> QED BY <1>1, <1>2, <1>3, <1>4, <1>5, <1>6, <1>7

LEMMA CleanupTyped ==
  ASSUME Typed, NEW r \in Runs, Cleanup(r)
  PROVE  Typed'
<1> USE DEF Typed
<1> USE
    DEF Cleanup, BeginCleanup, RemoveFilters, DeleteProfile, BehindProfile, RemoveMarker,
        RemoveMarkerFile, Finish, ReleaseLease, store, child, clock, books, Step, GiveUp,
        Outcome
<1>1. Fixed' /\ UNCHANGED <<FilterSets, TokenSets>>
  BY SetsKept DEF Fixed
<1>2. Bounded'
  BY FaultsAssumption DEF Bounded, Fault, Move
<1>3. pc' \in [Runs -> Steps]
  BY DEF Steps, HoldingSteps, DeletingSteps
<1>4. OfStore'
  BY DEF OfStore, Fixed
<1>5. OfChild'
  BY <1>1, SetsOfRun DEF OfChild, Volumes
<1>6. OfClock'
  BY DEF OfClock
<1>7. OfBooks'
  <2>1. todo' \in [Runs -> SUBSET Runs] /\ stale' \in [Runs -> Runs]
    BY DEF OfBooks
  <2>2. outcome' \in [Runs -> Outcomes]
    BY DEF OfBooks, Outcomes
  <2>3. prepared' \in [Runs -> BOOLEAN]
    BY DEF OfBooks
  <2>4. report' \in [Runs -> Reports]
    <3>1. /\ report \in [Runs -> Reports]
          /\ report[r] \in [status : {"none", "result", "error"}, clean : BOOLEAN,
                            leftover : BOOLEAN]
      BY DEF OfBooks, Reports
    <3>2. CASE BeginCleanup(r)
      BY <3>1, <3>2 DEF Reports
    <3>3. CASE RemoveFilters(r)
      BY <3>1, <3>3 DEF Reports
    <3>4. CASE DeleteProfile(r)
      <4>1. [report[r] EXCEPT !.clean = FALSE, !.leftover = TRUE] \in Reports
        BY <3>1 DEF Reports
      <4>2. \/ report' = report
            \/ report' = [report EXCEPT ![r].clean = FALSE, ![r].leftover = TRUE]
        BY <3>4 DEF DeleteProfile
      <4>3. \/ report' = report
            \/ report' = [report EXCEPT ![r] =
                             [report[r] EXCEPT !.clean = FALSE, !.leftover = TRUE]]
        BY ONLY <4>2, <3>1
      <4> QED BY ONLY <3>1, <4>1, <4>3
    <3>5. CASE Finish(r)
      BY <3>1, <3>5 DEF Reports
    <3>6. CASE RemoveMarker(r)
      BY <3>1, <3>6
    <3> QED BY <3>2, <3>3, <3>4, <3>5, <3>6
  <2> QED BY <2>1, <2>2, <2>3, <2>4 DEF OfBooks
<1> QED BY <1>1, <1>2, <1>3, <1>4, <1>5, <1>6, <1>7

\* What the target, the clock, the user and Windows do.
World(r) ==
    ThreadEnds(r) \/ Target(r) \/ Expire(r) \/ Interrupt(r) \/ Die(r) \/ CloseHandles(r)

LEMMA WorldTyped ==
  ASSUME Typed, NEW r \in Runs, World(r)
  PROVE  Typed'
<1> USE DEF Typed
<1> USE
    DEF World, ThreadEnds, Target, RootEnds, Descend, Fill, Expire, Interrupt, Die,
        CloseHandles, CloseJobHandle, store, child, clock, books, Step, GiveUp, Outcome
<1>1. Fixed' /\ UNCHANGED <<FilterSets, TokenSets>>
  BY SetsKept DEF Fixed
<1>2. Bounded'
  BY FaultsAssumption DEF Bounded, Fault, Move
<1>3. pc' \in [Runs -> Steps]
  BY DEF Steps, HoldingSteps, DeletingSteps
<1>4. OfStore'
  BY DEF OfStore, Fixed
<1>5. OfChild'
  BY <1>1, SetsOfRun DEF OfChild, Volumes
<1>6. OfClock'
  BY DEF OfClock
<1>7. OfBooks'
  BY DEF OfBooks, Outcomes, Reports
<1> QED BY <1>1, <1>2, <1>3, <1>4, <1>5, <1>6, <1>7

LEMMA TypedInit == Init => Typed
<1> SUFFICES ASSUME Init PROVE Typed
  OBVIOUS
<1>1. Fixed
  BY ScenariosAssumption DEF Init, Fixed
<1>2. ({} \in FilterSets /\ {} \in TokenSets) \/ Runs = {}
  BY SetsOfRun
<1>3. Bounded /\ pc \in [Runs -> Steps] /\ OfStore
  BY FaultsAssumption DEF Init, Bounded, OfStore, Steps
<1>4. OfChild
  BY <1>2 DEF Init, OfChild, Volumes
<1>5. OfClock /\ OfBooks
  BY DEF Init, OfClock, OfBooks, Outcomes, Reports, NoReport
<1> QED BY <1>1, <1>3, <1>4, <1>5 DEF Typed

LEMMA TypedNext == Typed /\ [Next]_vars => Typed'
<1> SUFFICES ASSUME Typed, [Next]_vars PROVE Typed'
  OBVIOUS
<1>1. CASE UNCHANGED vars
  BY <1>1, SetsKept
  DEF vars, store, child, clock, books, Typed, Fixed, Bounded, OfStore, OfChild, OfClock, OfBooks
<1>2. ASSUME NEW r \in Runs, Broker(r) \/ World(r) PROVE Typed'
  BY <1>2, PrepareTyped, ExecuteTyped, CleanupTyped, WorldTyped DEF Broker
<1> QED BY <1>1, <1>2 DEF Next, World

\* Every step leaves every variable within its type.
THEOREM TypeCorrect == Spec => []TypeOK
BY TypedInit, TypedNext, Types, PTL DEF Typed, Spec

-----------------------------------------------------------------------------
\* Profiles and their markers.

\* Steps in front of the run's own marker.
Early == {"pin", "lease", "list", "scavenge", "reclaim", "unmark_stale"}

ProfileTypes ==
    /\ pc \in [Runs -> Steps]
    /\ markers \in [Runs -> Runs \cup {"none", "loose"}]
    /\ profiles \subseteq Runs
    /\ stale \in [Runs -> Runs]
    /\ prepared \in [Runs -> BOOLEAN]

\* What a run has of its own before the profile is there.
BeforeProfile ==
    \A r \in Runs :
       /\ pc[r] \in Early => markers[r] = "none" /\ r \notin profiles
       /\ pc[r] = "create" => markers[r] = r /\ r \notin profiles
       /\ pc[r] \in Early \cup {"create"} => ~prepared[r]

BehindDeletion == \A r \in Runs : pc[r] = "unmark" => r \notin profiles

\* A scavenger holds the marker whose profile it deletes, and the run it belongs to
\* can no longer create the profile that was deleted.
Scavenging ==
    \A r \in Runs :
       /\ pc[r] = "reclaim" => markers[stale[r]] = r
       /\ pc[r] = "unmark_stale" => /\ stale[r] \notin profiles
                                    /\ pc[stale[r]] \notin Early \cup {"create"}

ProfileInv ==
    /\ ProfileTypes
    /\ BeforeProfile
    /\ BehindDeletion
    /\ Scavenging
    /\ ProfilesMarked
    /\ LiveProfileKept

USE DEF Early, HoldingSteps, DeletingSteps

-----------------------------------------------------------------------------
LEMMA ProfileInit == Init => ProfileInv
  BY NamesAssumption
  DEF Init, ProfileInv, ProfileTypes, BeforeProfile, BehindDeletion, Scavenging,
      ProfilesMarked, LiveProfileKept, OwnsProfile, Steps

(***************************************************************************)
(* A step that leaves markers, profiles and the scavenger's target alone,  *)
(* and takes its broker forward to a step that claims no more than the one *)
(* it comes from.                                                          *)
(***************************************************************************)
Forward(r, to) ==
    /\ pc' = [pc EXCEPT ![r] = to]
    /\ to \in Steps \ {"create", "reclaim", "unmark_stale", "unmark"}
    /\ to \in Early => pc[r] \in Early
    /\ to \in HoldingSteps \cup DeletingSteps => OwnsProfile(r)
    /\ to = "begin_cleanup" /\ prepared'[r] => OwnsProfile(r)

LEMMA ForwardKeeps ==
  ASSUME ProfileInv, NEW r \in Runs, NEW to, Forward(r, to),
         prepared' \in [Runs -> BOOLEAN],
         \A q \in Runs \ {r} : prepared'[q] = prepared[q],
         to \in Early => ~prepared'[r],
         UNCHANGED <<markers, profiles, stale>>
  PROVE  ProfileInv'
<1> USE DEF ProfileInv, ProfileTypes
<1>1. ProfileTypes'
  BY DEF Forward
<1>2. \A q \in Runs : pc'[q] = IF q = r THEN to ELSE pc[q]
  BY DEF Forward
<1>3. BeforeProfile'
  BY <1>2 DEF Forward, BeforeProfile
<1>4. BehindDeletion'
  BY <1>2 DEF Forward, BehindDeletion
<1>5. Scavenging'
  <2>1. ASSUME NEW q \in Runs, pc'[q] = "unmark_stale"
        PROVE  stale[q] \notin profiles /\ pc'[stale[q]] \notin Early \cup {"create"}
    <3>1. q # r /\ pc[q] = "unmark_stale"
      BY <1>2, <2>1 DEF Forward
    <3>2. stale[q] \in Runs /\ stale[q] \notin profiles /\ pc[stale[q]] \notin Early \cup {"create"}
      BY <3>1 DEF Scavenging
    <3> QED BY <1>2, <3>2 DEF Forward
  <2>2. ASSUME NEW q \in Runs, pc'[q] = "reclaim" PROVE markers[stale[q]] = q
    BY <1>2, <2>2 DEF Forward, Scavenging
  <2> QED BY <2>1, <2>2 DEF Scavenging
<1>6. ProfilesMarked'
  BY DEF ProfilesMarked
<1>7. LiveProfileKept'
  BY <1>2 DEF Forward, LiveProfileKept, OwnsProfile
<1> QED BY <1>1, <1>3, <1>4, <1>5, <1>6, <1>7

LEMMA IdleKeeps ==
  ASSUME ProfileInv, UNCHANGED <<pc, markers, profiles, stale, prepared>>
  PROVE  ProfileInv'
BY DEF ProfileInv, ProfileTypes, BeforeProfile, BehindDeletion, Scavenging, ProfilesMarked,
       LiveProfileKept, OwnsProfile

\* The steps that touch neither a marker nor a profile.
QuietStep(r) ==
    \/ PinTarget(r) \/ AcquireLease(r) \/ ListMarkers(r) \/ StageRun(r) \/ InstallFilters(r)
    \/ Execute(r) \/ BeginCleanup(r) \/ RemoveFilters(r) \/ Finish(r) \/ Die(r)

LEMMA QuietKeeps ==
  ASSUME ProfileInv, NEW r \in Runs, QuietStep(r)
  PROVE  ProfileInv'
<1> USE DEF store, child, clock, books
<1>1. pc[r] \in Steps /\ prepared[r] \in BOOLEAN
      /\ (pc[r] \in Early \cup {"create"} => ~prepared[r])
      /\ pc \in [Runs -> Steps] /\ prepared \in [Runs -> BOOLEAN]
  BY DEF ProfileInv, ProfileTypes, BeforeProfile
<1>2. UNCHANGED <<markers, profiles, stale>>
  BY DEF QuietStep, PinTarget, AcquireLease, ListMarkers, StageRun, InstallFilters, Execute,
         CreateSuspended, AssignJob, VerifyToken, Resume, CheckRequests, WaitSlice,
         MeasureStorage, JudgeStorage, KillTree, StopMonitor, CloseJob, JoinThreads,
         ObserveFiles, BeginCleanup, RemoveFilters, Finish, Die
<1>3. CASE PinTarget(r) \/ AcquireLease(r) \/ ListMarkers(r)
  <2>1. \E to \in {"lease", "list", "scavenge", "begin_cleanup"} :
           pc' = [pc EXCEPT ![r] = to] /\ pc[r] \in {"pin", "lease", "list"} /\ prepared' = prepared
    BY <1>3 DEF PinTarget, AcquireLease, ListMarkers, Step, GiveUp
  <2> QED BY <1>1, <1>2, <2>1, ForwardKeeps DEF Forward, Steps
<1>4. CASE StageRun(r)
  <2>1. \E to \in {"filters", "delete_profile"} :
           pc' = [pc EXCEPT ![r] = to] /\ pc[r] = "stage" /\ prepared' = prepared
    BY <1>4 DEF StageRun, Step
  <2> QED BY <1>1, <1>2, <2>1, ForwardKeeps DEF Forward, Steps, OwnsProfile
<1>5. CASE InstallFilters(r)
  <2>1. pc[r] = "filters" /\ \E to \in {"launch", "delete_profile"} : pc' = [pc EXCEPT ![r] = to]
    BY <1>5 DEF InstallFilters, Step
  <2>2. prepared' \in [Runs -> BOOLEAN] /\ \A q \in Runs \ {r} : prepared'[q] = prepared[q]
    BY <1>1, <1>5 DEF InstallFilters
  <2> QED BY <1>2, <2>1, <2>2, ForwardKeeps DEF Forward, Steps, OwnsProfile
<1>6. CASE Execute(r)
  <2>1. \E to \in HoldingSteps \cup {"begin_cleanup"} :
           pc' = [pc EXCEPT ![r] = to] /\ pc[r] \in HoldingSteps /\ prepared' = prepared
    BY <1>6 DEF Execute, CreateSuspended, AssignJob, VerifyToken, Resume, CheckRequests, WaitSlice,
         MeasureStorage, JudgeStorage, KillTree, StopMonitor, CloseJob, JoinThreads,
         ObserveFiles, Step, GiveUp
  <2> QED BY <1>1, <1>2, <2>1, ForwardKeeps DEF Forward, Steps, OwnsProfile
<1>7. CASE BeginCleanup(r) \/ RemoveFilters(r)
  <2>1. prepared' = prepared
    BY <1>7 DEF BeginCleanup, RemoveFilters
  <2>2. \/ pc[r] = "begin_cleanup" /\ prepared[r] /\ pc' = [pc EXCEPT ![r] = "remove_filters"]
        \/ pc[r] = "begin_cleanup" /\ pc' = [pc EXCEPT ![r] = "finish"]
        \/ pc[r] = "remove_filters" /\ pc' = [pc EXCEPT ![r] = "delete_profile"]
    BY <1>7 DEF BeginCleanup, RemoveFilters, Step
  <2>3. CASE pc[r] = "begin_cleanup" /\ prepared[r] /\ pc' = [pc EXCEPT ![r] = "remove_filters"]
    <3>1. Forward(r, "remove_filters")
      BY <2>3 DEF Forward, Steps, OwnsProfile
    <3> QED BY <1>1, <1>2, <2>1, <3>1, ForwardKeeps
  <2>4. CASE pc[r] = "begin_cleanup" /\ pc' = [pc EXCEPT ![r] = "finish"]
    <3>1. Forward(r, "finish")
      BY <2>4 DEF Forward, Steps
    <3> QED BY <1>1, <1>2, <2>1, <3>1, ForwardKeeps
  <2>5. CASE pc[r] = "remove_filters" /\ pc' = [pc EXCEPT ![r] = "delete_profile"]
    <3>1. Forward(r, "delete_profile")
      BY <2>5 DEF Forward, Steps, OwnsProfile
    <3> QED BY <1>1, <1>2, <2>1, <3>1, ForwardKeeps
  <2> QED BY <2>2, <2>3, <2>4, <2>5
<1>8. CASE Finish(r) \/ Die(r)
  <2>1. \E to \in {"done", "dead"} : pc' = [pc EXCEPT ![r] = to] /\ prepared' = prepared
    BY <1>8 DEF Finish, Die, Step
  <2> QED BY <1>1, <1>2, <2>1, ForwardKeeps DEF Forward, Steps
<1> QED BY <1>3, <1>4, <1>5, <1>6, <1>7, <1>8 DEF QuietStep

-----------------------------------------------------------------------------
\* The steps on markers and profiles.

USE NamesAssumption

LEMMA OpenMarkerKeeps ==
  ASSUME ProfileInv, NEW r \in Runs, NEW m \in Runs, OpenMarker(r, m)
  PROVE  ProfileInv'
<1>1. CASE markers[m] = "loose"
  <2>1. /\ pc[r] = "scavenge"
        /\ markers' = [markers EXCEPT ![m] = r]
        /\ stale' = [stale EXCEPT ![r] = m]
        /\ pc' = [pc EXCEPT ![r] = "reclaim"]
        /\ profiles' = profiles /\ prepared' = prepared
    BY <1>1 DEF OpenMarker
  <2>2. m # r
    BY <1>1, <2>1 DEF ProfileInv, BeforeProfile
  <2>3. ProfileTypes'
    BY <2>1 DEF ProfileInv, ProfileTypes, Steps
  <2>4. BeforeProfile' /\ BehindDeletion'
    BY <1>1, <2>1, <2>2 DEF ProfileInv, ProfileTypes, BeforeProfile, BehindDeletion
  <2>5. Scavenging'
    BY <1>1, <2>1, <2>2 DEF ProfileInv, ProfileTypes, BeforeProfile, Scavenging
  <2>6. ProfilesMarked' /\ LiveProfileKept'
    BY <1>1, <2>1 DEF ProfileInv, ProfileTypes, ProfilesMarked, LiveProfileKept, OwnsProfile
  <2> QED BY <2>3, <2>4, <2>5, <2>6 DEF ProfileInv
<1>2. CASE markers[m] # "loose"
  BY <1>2, IdleKeeps DEF OpenMarker
<1> QED BY <1>1, <1>2

\* The marker a scavenger holds is that of another run, which has its profile no more.
LEMMA ReclaimsOthers ==
  ASSUME ProfileInv, NEW r \in Runs, pc[r] = "reclaim"
  PROVE  /\ stale[r] \in Runs \ {r} /\ ~OwnsProfile(stale[r])
         /\ pc[stale[r]] \notin Early \cup {"create"}
BY DEF ProfileInv, ProfileTypes, BeforeProfile, Scavenging, LiveProfileKept, OwnsProfile

LEMMA DeleteStaleProfileKeeps ==
  ASSUME ProfileInv, NEW r \in Runs, DeleteStaleProfile(r)
  PROVE  ProfileInv'
<1> DEFINE m == stale[r]
<1>1. /\ pc[r] = "reclaim" /\ prepared' = prepared
      /\ markers' = [markers EXCEPT ![m] = "loose"]
      /\ \/ /\ profiles' = profiles \ {m} /\ stale' = stale
            /\ pc' = [pc EXCEPT ![r] = "unmark_stale"]
         \/ /\ profiles' = profiles /\ stale' = [stale EXCEPT ![r] = r]
            /\ pc' = [pc EXCEPT ![r] = "scavenge"]
  BY DEF DeleteStaleProfile, Step
<1>2. m \in Runs \ {r} /\ ~OwnsProfile(m) /\ pc[m] \notin Early \cup {"create"}
  BY <1>1, ReclaimsOthers
<1>3. ProfileTypes'
  BY <1>1, <1>2 DEF ProfileInv, ProfileTypes, Steps
<1>4. BeforeProfile' /\ BehindDeletion'
  BY <1>1, <1>2 DEF ProfileInv, ProfileTypes, BeforeProfile, BehindDeletion
<1>5. Scavenging'
  BY <1>1, <1>2 DEF ProfileInv, ProfileTypes, Scavenging
<1>6. ProfilesMarked' /\ LiveProfileKept'
  BY <1>1, <1>2 DEF ProfileInv, ProfileTypes, ProfilesMarked, LiveProfileKept, OwnsProfile
<1> QED BY <1>3, <1>4, <1>5, <1>6 DEF ProfileInv

LEMMA RemoveStaleMarkerKeeps ==
  ASSUME ProfileInv, NEW r \in Runs, RemoveStaleMarker(r)
  PROVE  ProfileInv'
<1> DEFINE m == stale[r]
<1>1. /\ pc[r] = "unmark_stale" /\ prepared' = prepared /\ profiles' = profiles
      /\ markers' = IF markers[m] = "loose" THEN [markers EXCEPT ![m] = "none"] ELSE markers
      /\ stale' = [stale EXCEPT ![r] = r]
      /\ pc' = [pc EXCEPT ![r] = "scavenge"]
  BY DEF RemoveStaleMarker, RemoveMarkerFile, Step
<1>2. m \in Runs /\ m \notin profiles /\ pc[m] \notin Early \cup {"create"}
  BY <1>1 DEF ProfileInv, ProfileTypes, Scavenging
<1>3. ProfileTypes'
  BY <1>1, <1>2 DEF ProfileInv, ProfileTypes, Steps
<1>4. BeforeProfile' /\ BehindDeletion'
  BY <1>1, <1>2 DEF ProfileInv, ProfileTypes, BeforeProfile, BehindDeletion
<1>5. Scavenging'
  BY <1>1, <1>2 DEF ProfileInv, ProfileTypes, Scavenging
<1>6. ProfilesMarked' /\ LiveProfileKept'
  BY <1>1, <1>2 DEF ProfileInv, ProfileTypes, ProfilesMarked, LiveProfileKept, OwnsProfile
<1> QED BY <1>3, <1>4, <1>5, <1>6 DEF ProfileInv

LEMMA CreateMarkerKeeps ==
  ASSUME ProfileInv, NEW r \in Runs, CreateMarker(r)
  PROVE  ProfileInv'
<1>1. /\ pc[r] = "scavenge" /\ prepared' = prepared /\ profiles' = profiles /\ stale' = stale
      /\ \/ markers' = [markers EXCEPT ![r] = r] /\ pc' = [pc EXCEPT ![r] = "create"]
         \/ markers' = markers /\ pc' = [pc EXCEPT ![r] = "begin_cleanup"]
  BY DEF CreateMarker, Step, GiveUp
<1>2. markers[r] = "none" /\ r \notin profiles /\ ~prepared[r]
  BY <1>1 DEF ProfileInv, BeforeProfile
<1>3. ProfileTypes'
  BY <1>1 DEF ProfileInv, ProfileTypes, Steps
<1>4. BeforeProfile' /\ BehindDeletion'
  BY <1>1, <1>2 DEF ProfileInv, ProfileTypes, BeforeProfile, BehindDeletion
<1>5. Scavenging'
  <2>1. ASSUME NEW q \in Runs, pc[q] = "unmark_stale"
        PROVE  stale[q] # r
    BY <1>1, <2>1 DEF ProfileInv, Scavenging
  <2>2. ASSUME NEW q \in Runs, pc[q] = "reclaim"
        PROVE  stale[q] # r
    BY <1>2, <2>2 DEF ProfileInv, Scavenging
  <2> QED BY <1>1, <2>1, <2>2 DEF ProfileInv, ProfileTypes, Scavenging
<1>6. ProfilesMarked' /\ LiveProfileKept'
  BY <1>1, <1>2 DEF ProfileInv, ProfileTypes, ProfilesMarked, LiveProfileKept, OwnsProfile
<1> QED BY <1>3, <1>4, <1>5, <1>6 DEF ProfileInv

LEMMA CreateProfileKeeps ==
  ASSUME ProfileInv, NEW r \in Runs, CreateProfile(r)
  PROVE  ProfileInv'
<1>1. /\ pc[r] = "create" /\ prepared' = prepared /\ stale' = stale
      /\ \/ /\ profiles' = profiles \cup {r} /\ markers' = markers
            /\ pc' = [pc EXCEPT ![r] = "stage"]
         \/ /\ profiles' = profiles /\ markers' = [markers EXCEPT ![r] = "none"]
            /\ pc' = [pc EXCEPT ![r] = "begin_cleanup"]
  BY DEF CreateProfile, Step, GiveUp
<1>2. markers[r] = r /\ r \notin profiles /\ ~prepared[r]
  BY <1>1 DEF ProfileInv, BeforeProfile
<1>3. ProfileTypes'
  BY <1>1 DEF ProfileInv, ProfileTypes, Steps
<1>4. BeforeProfile' /\ BehindDeletion'
  BY <1>1, <1>2 DEF ProfileInv, ProfileTypes, BeforeProfile, BehindDeletion
<1>5. Scavenging'
  <2>1. ASSUME NEW q \in Runs, pc[q] = "unmark_stale"
        PROVE  stale[q] # r
    BY <1>1, <2>1 DEF ProfileInv, Scavenging
  <2>2. ASSUME NEW q \in Runs, pc[q] = "reclaim"
        PROVE  stale[q] # r
    BY <1>1, <2>2, ReclaimsOthers
  <2> QED BY <1>1, <2>1, <2>2 DEF ProfileInv, ProfileTypes, Scavenging
<1>6. ProfilesMarked' /\ LiveProfileKept'
  BY <1>1, <1>2 DEF ProfileInv, ProfileTypes, ProfilesMarked, LiveProfileKept, OwnsProfile
<1> QED BY <1>3, <1>4, <1>5, <1>6 DEF ProfileInv

LEMMA DeleteProfileKeeps ==
  ASSUME ProfileInv, NEW r \in Runs, DeleteProfile(r)
  PROVE  ProfileInv'
<1>1. /\ pc[r] \in DeletingSteps /\ prepared' = prepared /\ stale' = stale
      /\ \/ /\ profiles' = profiles \ {r} /\ markers' = [markers EXCEPT ![r] = "loose"]
            /\ pc' = [pc EXCEPT ![r] = "unmark"]
         \/ /\ profiles' = profiles /\ markers' = markers
            /\ pc' = [pc EXCEPT ![r] = "retry_delete"]
         \/ /\ profiles' = profiles /\ markers' = [markers EXCEPT ![r] = "loose"]
            /\ pc' = [pc EXCEPT ![r] = BehindProfile(r)]
  BY DEF DeleteProfile, Step
<1>2. OwnsProfile(r) /\ r \in profiles /\ markers[r] = r
  BY <1>1 DEF ProfileInv, LiveProfileKept, OwnsProfile
<1>3. ProfileTypes'
  BY <1>1 DEF ProfileInv, ProfileTypes, Steps, BehindProfile
<1>4. BeforeProfile' /\ BehindDeletion'
  BY <1>1, <1>2 DEF ProfileInv, ProfileTypes, BeforeProfile, BehindDeletion, BehindProfile
<1>5. Scavenging'
  <2>1. ASSUME NEW q \in Runs, pc[q] = "reclaim"
        PROVE  stale[q] # r
    BY <1>2, <2>1, ReclaimsOthers
  <2> QED BY <1>1, <2>1 DEF ProfileInv, ProfileTypes, Scavenging, BehindProfile
<1>6. ProfilesMarked' /\ LiveProfileKept'
  BY <1>1, <1>2 DEF ProfileInv, ProfileTypes, ProfilesMarked, LiveProfileKept, OwnsProfile,
                    BehindProfile
<1> QED BY <1>3, <1>4, <1>5, <1>6 DEF ProfileInv

LEMMA RemoveMarkerKeeps ==
  ASSUME ProfileInv, NEW r \in Runs, RemoveMarker(r)
  PROVE  ProfileInv'
<1>1. /\ pc[r] = "unmark" /\ prepared' = prepared /\ stale' = stale /\ profiles' = profiles
      /\ markers' = IF markers[r] = "loose" THEN [markers EXCEPT ![r] = "none"] ELSE markers
      /\ pc' = [pc EXCEPT ![r] = BehindProfile(r)]
  BY DEF RemoveMarker, RemoveMarkerFile, Step, books
<1>2. r \notin profiles
  BY <1>1 DEF ProfileInv, BehindDeletion
<1>3. ProfileTypes'
  BY <1>1 DEF ProfileInv, ProfileTypes, Steps, BehindProfile
<1>4. BeforeProfile' /\ BehindDeletion'
  BY <1>1, <1>2 DEF ProfileInv, ProfileTypes, BeforeProfile, BehindDeletion, BehindProfile
<1>5. Scavenging'
  BY <1>1 DEF ProfileInv, ProfileTypes, Scavenging, BehindProfile
<1>6. ProfilesMarked' /\ LiveProfileKept'
  BY <1>1, <1>2 DEF ProfileInv, ProfileTypes, ProfilesMarked, LiveProfileKept, OwnsProfile,
                    BehindProfile
<1> QED BY <1>3, <1>4, <1>5, <1>6 DEF ProfileInv

LEMMA CloseHandlesKeeps ==
  ASSUME ProfileInv, NEW r \in Runs, CloseHandles(r)
  PROVE  ProfileInv'
<1>1. /\ pc[r] = "dead" /\ UNCHANGED <<pc, prepared, stale, profiles>>
      /\ \/ markers' = markers
         \/ \E m \in Runs : markers[m] = r /\ markers' = [markers EXCEPT ![m] = "loose"]
  BY DEF CloseHandles, CloseJobHandle, books
<1>2. CASE markers' = markers
  BY <1>1, <1>2, IdleKeeps
<1>3. ASSUME NEW m \in Runs, markers[m] = r, markers' = [markers EXCEPT ![m] = "loose"]
      PROVE  ProfileInv'
  <2>1. ProfileTypes'
    BY <1>1, <1>3 DEF ProfileInv, ProfileTypes
  <2>2. BeforeProfile' /\ BehindDeletion'
    BY <1>1, <1>3 DEF ProfileInv, ProfileTypes, BeforeProfile, BehindDeletion
  <2>3. Scavenging'
    BY <1>1, <1>3 DEF ProfileInv, ProfileTypes, Scavenging
  <2>4. ProfilesMarked' /\ LiveProfileKept'
    BY <1>1, <1>3 DEF ProfileInv, ProfileTypes, ProfilesMarked, LiveProfileKept, OwnsProfile
  <2> QED BY <2>1, <2>2, <2>3, <2>4 DEF ProfileInv
<1> QED BY <1>1, <1>2, <1>3

-----------------------------------------------------------------------------
LEMMA ProfileNext == ProfileInv /\ [Next]_vars => ProfileInv'
<1> SUFFICES ASSUME ProfileInv, [Next]_vars PROVE ProfileInv'
  OBVIOUS
<1>1. CASE UNCHANGED vars
  BY <1>1, IdleKeeps DEF vars, store, books
<1>2. ASSUME NEW r \in Runs, Prepare(r) PROVE ProfileInv'
  BY <1>2, QuietKeeps, OpenMarkerKeeps, DeleteStaleProfileKeeps, RemoveStaleMarkerKeeps,
     CreateMarkerKeeps, CreateProfileKeeps
  DEF Prepare, QuietStep
<1>3. ASSUME NEW r \in Runs, Execute(r) \/ Cleanup(r) \/ Die(r) PROVE ProfileInv'
  BY <1>3, QuietKeeps, DeleteProfileKeeps, RemoveMarkerKeeps DEF Cleanup, QuietStep
<1>4. ASSUME NEW r \in Runs, ThreadEnds(r) \/ Target(r) \/ Expire(r) \/ Interrupt(r)
      PROVE  ProfileInv'
  BY <1>4, IdleKeeps
  DEF ThreadEnds, Target, RootEnds, Descend, Fill, Expire, Interrupt, store, books
<1>5. ASSUME NEW r \in Runs, CloseHandles(r) PROVE ProfileInv'
  BY <1>5, CloseHandlesKeeps
<1> QED BY <1>1, <1>2, <1>3, <1>4, <1>5 DEF Next, Broker

\* Whoever fails or dies wherever, a profile that exists has a marker file by which
\* a later run finds it.
THEOREM ProfilesFindable == Spec => []ProfilesMarked
<1>1. ProfileInv => ProfilesMarked
  BY DEF ProfileInv
<1> QED BY <1>1, ProfileInit, ProfileNext, PTL DEF Spec

\* The profile of a run that is still at work is there and its marker is held by
\* that run alone: no scavenger, of whatever session, takes it.
THEOREM ProfilesKept == Spec => []LiveProfileKept
<1>1. ProfileInv => LiveProfileKept
  BY DEF ProfileInv
<1> QED BY <1>1, ProfileInit, ProfileNext, PTL DEF Spec

-----------------------------------------------------------------------------
\* Containment of the target.


\* Steps of a broker that has the mutex, whose target runs, that has filters, whose
\* target is in the job, and whose target has a verified token.
Leased == {"list", "scavenge", "reclaim", "unmark_stale", "create", "unmark"}
          \cup HoldingSteps \cup DeletingSteps
Working == {"check", "block", "measure", "judge", "kill", "join_monitor", "close_job"}
Filtering == HoldingSteps \ {"stage", "filters"}
Assigned == {"verify", "resume"} \cup Working
Verified == {"resume"} \cup Working

USE NamesAssumption
USE DEF Early, HoldingSteps, DeletingSteps, Leased, Working, Filtering, Assigned, Verified

IsFcn(f) == f = [r \in Runs |-> f[r]]

Functions ==
    /\ IsFcn(pc) /\ IsFcn(filters) /\ IsFcn(job) /\ IsFcn(token) /\ IsFcn(root)
    /\ IsFcn(inJob) /\ IsFcn(kids) /\ IsFcn(prepared)
    /\ session \in [Runs -> Sessions]
    /\ request \in [Runs -> Requests]
    /\ lease = [s \in Sessions |-> lease[s]]

LeaseInv(r) == pc[r] \in Leased \/ OwnsProfile(r) => lease[session[r]] = r

TokenInv(r) ==
    /\ token[r] \subseteq TokensMade(request[r])
    /\ pc[r] \in Verified => \A t \in token[r] : VerifiedToken(t, request[r])

FilterInv(r) ==
    /\ pc[r] \in Filtering => prepared[r]
    /\ pc[r] \in Filtering \/ (pc[r] = "begin_cleanup" /\ prepared[r]) =>
          filters[r] = Filters(request[r])
    /\ filters[r] # {} => \/ pc[r] \in Filtering \cup {"dead"}
                          \/ pc[r] = "begin_cleanup" /\ prepared[r]

ProcessInv(r) ==
    /\ pc[r] \in Assigned => inJob[r]
    /\ pc[r] \in Assigned \cup {"assign"} => job[r] = "open"
    /\ Busy(r) => pc[r] \in Working \cup {"dead"}
    /\ root[r] = "suspended" =>
          pc[r] \in {"assign", "verify", "resume", "join_monitor", "close_job", "dead"}

RunInv(r) == LeaseInv(r) /\ TokenInv(r) /\ FilterInv(r) /\ ProcessInv(r)

ContainInv == Functions /\ \A r \in Runs : RunInv(r)

-----------------------------------------------------------------------------
\* What a step of r leaves of another run.

Untouched(q) ==
    /\ pc'[q] = pc[q] /\ filters'[q] = filters[q] /\ job'[q] = job[q]
    /\ token'[q] = token[q] /\ root'[q] = root[q] /\ inJob'[q] = inJob[q]
    /\ kids'[q] = kids[q] /\ prepared'[q] = prepared[q]

LeaseKept(r) == \A s \in Sessions : lease'[s] = lease[s] \/ lease[s] \in {"free", "abandoned", r}

Elsewhere(r) ==
    /\ Functions'
    /\ UNCHANGED <<request, session>>
    /\ LeaseKept(r)
    /\ \A q \in Runs \ {r} : Untouched(q)

LEMMA ElsewhereKeeps ==
  ASSUME ContainInv, NEW r \in Runs, Elsewhere(r), NEW q \in Runs \ {r}
  PROVE  RunInv(q)'
<1>1. Untouched(q) /\ UNCHANGED <<request, session>> /\ session[q] \in Sessions /\ RunInv(q)
  BY DEF ContainInv, Elsewhere, Functions
<1>2. LeaseInv(q)'
  <2>1. lease[session[q]] = q => lease'[session[q]] = q
    BY <1>1, NamesAssumption DEF Elsewhere, LeaseKept
  <2> QED BY <1>1, <2>1 DEF RunInv, LeaseInv, OwnsProfile, Untouched
<1>3. TokenInv(q)'
  BY <1>1 DEF RunInv, TokenInv, Untouched
<1>4. FilterInv(q)'
  BY <1>1 DEF RunInv, FilterInv, Untouched
<1>5. ProcessInv(q)'
  BY <1>1 DEF RunInv, ProcessInv, Untouched, Busy
<1> QED BY <1>2, <1>3, <1>4, <1>5 DEF RunInv

LEMMA PrepareElsewhere ==
  ASSUME Functions, NEW r \in Runs, Prepare(r)
  PROVE  Elsewhere(r)
<1> USE DEF Functions, IsFcn, Elsewhere, LeaseKept, Untouched, store, child, clock, books,
            Step, GiveUp, Outcome
<1>1. CASE PinTarget(r)
  BY <1>1 DEF PinTarget
<1>2. CASE AcquireLease(r)
  BY <1>2 DEF AcquireLease
<1>3. CASE ListMarkers(r) \/ CreateMarker(r) \/ CreateProfile(r)
  BY <1>3 DEF ListMarkers, CreateMarker, CreateProfile
<1>4. ASSUME NEW m \in Runs, OpenMarker(r, m) PROVE Elsewhere(r)
  BY <1>4 DEF OpenMarker
<1>5. CASE DeleteStaleProfile(r) \/ RemoveStaleMarker(r)
  BY <1>5 DEF DeleteStaleProfile, RemoveStaleMarker
<1>6. CASE StageRun(r)
  BY <1>6 DEF StageRun
<1>7. CASE InstallFilters(r)
  BY <1>7 DEF InstallFilters
<1> QED BY <1>1, <1>2, <1>3, <1>4, <1>5, <1>6, <1>7 DEF Prepare

LEMMA ExecuteElsewhere ==
  ASSUME Functions, NEW r \in Runs, Execute(r)
  PROVE  Elsewhere(r)
<1> USE DEF Functions, IsFcn, Elsewhere, LeaseKept, Untouched, store, child, clock, books,
            Step, GiveUp, Outcome, CloseJobHandle
<1>1. CASE CreateSuspended(r)
  BY <1>1 DEF CreateSuspended
<1>2. CASE AssignJob(r)
  BY <1>2 DEF AssignJob
<1>3. CASE VerifyToken(r)
  BY <1>3 DEF VerifyToken
<1>4. CASE Resume(r)
  BY <1>4 DEF Resume
<1>5. CASE CheckRequests(r) \/ WaitSlice(r)
  BY <1>5 DEF CheckRequests, WaitSlice
<1>6. CASE MeasureStorage(r) \/ JudgeStorage(r)
  BY <1>6 DEF MeasureStorage, JudgeStorage
<1>7. CASE KillTree(r)
  BY <1>7 DEF KillTree
<1>8. CASE StopMonitor(r) \/ CloseJob(r)
  BY <1>8 DEF StopMonitor, CloseJob
<1>9. CASE JoinThreads(r) \/ ObserveFiles(r)
  BY <1>9 DEF JoinThreads, ObserveFiles
<1> QED BY <1>1, <1>2, <1>3, <1>4, <1>5, <1>6, <1>7, <1>8, <1>9 DEF Execute

LEMMA CleanupElsewhere ==
  ASSUME Functions, NEW r \in Runs, Cleanup(r)
  PROVE  Elsewhere(r)
<1> USE DEF Functions, IsFcn, Elsewhere, LeaseKept, Untouched, store, child, clock, books,
            Step, BehindProfile
<1>1. CASE BeginCleanup(r) \/ RemoveFilters(r)
  BY <1>1 DEF BeginCleanup, RemoveFilters
<1>2. CASE DeleteProfile(r)
  BY <1>2 DEF DeleteProfile
<1>3. CASE RemoveMarker(r)
  BY <1>3 DEF RemoveMarker
<1>4. CASE Finish(r)
  BY <1>4 DEF Finish, ReleaseLease
<1> QED BY <1>1, <1>2, <1>3, <1>4 DEF Cleanup

LEMMA WorldElsewhere ==
  ASSUME Functions, NEW r \in Runs, World(r)
  PROVE  Elsewhere(r)
<1> USE DEF Functions, IsFcn, Elsewhere, LeaseKept, Untouched, store, child, clock, books
<1>1. CASE ThreadEnds(r) \/ Expire(r) \/ Interrupt(r) \/ Die(r)
  BY <1>1 DEF ThreadEnds, Expire, Interrupt, Die
<1>2. CASE Target(r)
  BY <1>2 DEF Target, RootEnds, Descend, Fill
<1>3. CASE CloseHandles(r)
  BY <1>3 DEF CloseHandles, CloseJobHandle
<1> QED BY <1>1, <1>2, <1>3 DEF World

-----------------------------------------------------------------------------
\* What the steps of a run do to its own invariant.

LEMMA PrepareOwn ==
  ASSUME ContainInv, ProfileInv, NEW r \in Runs, Prepare(r)
  PROVE  RunInv(r)'
<1>0. /\ Functions /\ RunInv(r) /\ prepared \in [Runs -> BOOLEAN]
      /\ pc[r] \in Early \cup {"create"} => ~prepared[r]
  BY DEF ContainInv, ProfileInv, ProfileTypes, BeforeProfile
<1> USE <1>0 DEF Functions, IsFcn, RunInv, LeaseInv, TokenInv, FilterInv, ProcessInv,
            OwnsProfile, Busy, store, child, clock, books, Step, GiveUp, Outcome
<1>1. CASE PinTarget(r)
  BY <1>1 DEF PinTarget
<1>2. CASE AcquireLease(r)
  BY <1>2 DEF AcquireLease
<1>3. CASE ListMarkers(r)
  BY <1>3 DEF ListMarkers
<1>4. ASSUME NEW m \in Runs, OpenMarker(r, m) PROVE RunInv(r)'
  BY <1>4 DEF OpenMarker
<1>5. CASE DeleteStaleProfile(r)
  BY <1>5 DEF DeleteStaleProfile
<1>6. CASE RemoveStaleMarker(r)
  BY <1>6 DEF RemoveStaleMarker
<1>7. CASE CreateMarker(r)
  BY <1>7 DEF CreateMarker
<1>8. CASE CreateProfile(r)
  BY <1>8 DEF CreateProfile
<1>9. CASE StageRun(r)
  BY <1>9 DEF StageRun
<1>10. CASE InstallFilters(r)
  BY <1>10 DEF InstallFilters
<1> QED BY <1>1, <1>2, <1>3, <1>4, <1>5, <1>6, <1>7, <1>8, <1>9, <1>10 DEF Prepare

LEMMA ExecuteOwn ==
  ASSUME ContainInv, ProfileInv, NEW r \in Runs, Execute(r)
  PROVE  RunInv(r)'
<1>0. /\ Functions /\ RunInv(r) /\ prepared \in [Runs -> BOOLEAN]
      /\ pc[r] \in Early \cup {"create"} => ~prepared[r]
  BY DEF ContainInv, ProfileInv, ProfileTypes, BeforeProfile
<1> USE <1>0 DEF Functions, IsFcn, RunInv, LeaseInv, TokenInv, FilterInv, ProcessInv,
            OwnsProfile, Busy, store, child, clock, books, Step, GiveUp, Outcome
<1>1. CASE CreateSuspended(r)
  BY <1>1 DEF CreateSuspended
<1>2. CASE AssignJob(r)
  BY <1>2 DEF AssignJob
<1>3. CASE VerifyToken(r)
  BY <1>3 DEF VerifyToken, CloseJobHandle
<1>4. CASE Resume(r)
  BY <1>4 DEF Resume
<1>5. CASE CheckRequests(r) \/ WaitSlice(r)
  BY <1>5 DEF CheckRequests, WaitSlice
<1>6. CASE MeasureStorage(r) \/ JudgeStorage(r)
  BY <1>6 DEF MeasureStorage, JudgeStorage
<1>7. CASE KillTree(r)
  BY <1>7 DEF KillTree, Ended
<1>8. CASE StopMonitor(r)
  BY <1>8 DEF StopMonitor
<1>9. CASE CloseJob(r)
  BY <1>9 DEF CloseJob, CloseJobHandle
<1>10. CASE JoinThreads(r) \/ ObserveFiles(r)
  BY <1>10 DEF JoinThreads, ObserveFiles
<1> QED BY <1>1, <1>2, <1>3, <1>4, <1>5, <1>6, <1>7, <1>8, <1>9, <1>10 DEF Execute

LEMMA CleanupOwn ==
  ASSUME ContainInv, ProfileInv, NEW r \in Runs, Cleanup(r)
  PROVE  RunInv(r)'
<1>0. /\ Functions /\ RunInv(r) /\ prepared \in [Runs -> BOOLEAN]
      /\ pc[r] \in Early \cup {"create"} => ~prepared[r]
  BY DEF ContainInv, ProfileInv, ProfileTypes, BeforeProfile
<1> USE <1>0 DEF Functions, IsFcn, RunInv, LeaseInv, TokenInv, FilterInv, ProcessInv,
            OwnsProfile, Busy, store, child, clock, books, Step, BehindProfile
<1>1. CASE BeginCleanup(r)
  BY <1>1 DEF BeginCleanup
<1>2. CASE RemoveFilters(r)
  BY <1>2 DEF RemoveFilters
<1>3. CASE DeleteProfile(r)
  BY <1>3 DEF DeleteProfile
<1>4. CASE RemoveMarker(r)
  BY <1>4 DEF RemoveMarker
<1>5. CASE Finish(r)
  BY <1>5 DEF Finish, ReleaseLease
<1> QED BY <1>1, <1>2, <1>3, <1>4, <1>5 DEF Cleanup

LEMMA WorldOwn ==
  ASSUME ContainInv, ProfileInv, NEW r \in Runs, World(r)
  PROVE  RunInv(r)'
<1>0. /\ Functions /\ RunInv(r) /\ prepared \in [Runs -> BOOLEAN]
      /\ pc[r] \in Early \cup {"create"} => ~prepared[r]
  BY DEF ContainInv, ProfileInv, ProfileTypes, BeforeProfile
<1> USE <1>0 DEF Functions, IsFcn, RunInv, LeaseInv, TokenInv, FilterInv, ProcessInv,
            OwnsProfile, Busy, store, child, clock, books
<1>1. CASE ThreadEnds(r) \/ Expire(r) \/ Interrupt(r) \/ Die(r)
  BY <1>1 DEF ThreadEnds, Expire, Interrupt, Die
<1>2. CASE Target(r)
  BY <1>2 DEF Target, RootEnds, Descend, Fill
<1>3. CASE CloseHandles(r)
  BY <1>3 DEF CloseHandles, CloseJobHandle
<1> QED BY <1>1, <1>2, <1>3 DEF World

-----------------------------------------------------------------------------
LEMMA ContainInit == Init => ContainInv
<1> SUFFICES ASSUME Init PROVE ContainInv
  OBVIOUS
<1>1. Functions
  BY ScenariosAssumption DEF Init, Functions, IsFcn
<1>2. ASSUME NEW r \in Runs PROVE RunInv(r)
  BY <1>2 DEF Init, RunInv, LeaseInv, TokenInv, FilterInv, ProcessInv, OwnsProfile, Busy
<1> QED BY <1>1, <1>2 DEF ContainInv

LEMMA ContainNext == ContainInv /\ ProfileInv /\ [Next]_vars => ContainInv'
<1> SUFFICES ASSUME ContainInv, ProfileInv, [Next]_vars PROVE ContainInv'
  OBVIOUS
<1>1. CASE UNCHANGED vars
  BY <1>1
  DEF vars, store, child, clock, books, ContainInv, Functions, IsFcn, RunInv, LeaseInv, TokenInv,
      FilterInv, ProcessInv, OwnsProfile, Busy
<1>2. ASSUME NEW r \in Runs, Broker(r) \/ World(r)
      PROVE  ContainInv'
  <2>1. Elsewhere(r) /\ RunInv(r)'
    BY <1>2, PrepareElsewhere, ExecuteElsewhere, CleanupElsewhere, WorldElsewhere,
       PrepareOwn, ExecuteOwn, CleanupOwn, WorldOwn
    DEF Broker, ContainInv
  <2>2. \A q \in Runs \ {r} : RunInv(q)'
    BY <2>1, ElsewhereKeeps
  <2> QED BY <2>1, <2>2 DEF ContainInv, Elsewhere
<1> QED BY <1>1, <1>2 DEF Next, World

-----------------------------------------------------------------------------
\* Of the tokens Windows may have made, only the one asked for passes the verification.
LEMMA TokenExact ==
  ASSUME NEW q \in Requests, NEW t \in TokensMade(q), VerifiedToken(t, q)
  PROVE  t = Token(q)
BY DEF TokensMade, Token, VerifiedToken, ExactCapabilities, Capabilities, IntegrityOf,
       LowIntegrity

\* A broker that gets the mutex of its session finds nothing of an earlier run of
\* the session at work, unless the earlier broker died.
THEOREM SessionExclusive == Spec => []SessionToItself
<1>1. ContainInv => SessionToItself
  BY DEF ContainInv, Functions, RunInv, LeaseInv, FilterInv, ProcessInv, SessionToItself,
         OwnsProfile
<1> QED BY <1>1, ContainInit, ContainNext, ProfileInit, ProfileNext, PTL DEF Spec

\* A block of everything matches every flow of its direction and family.
LEMMA Covers ==
  ASSUME NEW a \in Addresses
  PROVE  SameNetwork(0, a, 0)
BY DEF SameNetwork, Addresses, AddressBits

(***************************************************************************)
(* The filters of a request let through exactly what its policy permits:   *)
(* a flow always meets the block of its direction and family, and only the *)
(* permit of an allowed network outweighs it.                              *)
(***************************************************************************)
LEMMA PolicyHolds ==
  ASSUME NEW q \in Requests, NEW flow \in Flows
  PROVE  Admits(Filters(q), flow) <=> Permitted(q, flow)
<1> DEFINE matching == Matching(Filters(q), flow)
           permits == {n \in q.allowed :
                          /\ q.mode = "allow_list" /\ flow.direction = "connect"
                          /\ n.family = flow.family
                          /\ SameNetwork(n.address, flow.address, n.prefix)}
           block == BlockAll(flow.direction, flow.family)
<1>1. CASE ~Filtered(q)
  BY <1>1 DEF Admits, Matching, Filters, Permitted
<1>2. CASE Filtered(q)
  <2>1. /\ flow.direction \in {"connect", "accept"} /\ flow.family \in Families
        /\ flow.address \in Addresses
    BY DEF Flows
  <2>2. block \in matching
    BY <1>2, <2>1, Covers DEF Matching, Filters, BlockAll
  <2>3. \A f \in matching : f = block \/ \E n \in permits : f = Permit(n)
    BY <1>2, <2>1 DEF Matching, Filters, BlockAll, Permit
  <2>4. \A n \in permits : Permit(n) \in matching
    BY <1>2, <2>1 DEF Matching, Filters, Permit
  <2>5. block.weight = 1 /\ block.action = "block"
    BY DEF BlockAll
  <2>6. \A n \in permits : Permit(n).weight = 15 /\ Permit(n).action = "permit"
    BY DEF Permit
  <2>7. \A f \in matching : f.weight <= 15
    BY <2>3, <2>5, <2>6
  <2> HIDE DEF matching, permits, block
  <2>8. Admits(Filters(q), flow) <=>
           \E f \in matching : f.action = "permit" /\ \A g \in matching : g.weight <= f.weight
    BY <2>2 DEF Admits, matching
  <2>9. Admits(Filters(q), flow) <=> permits # {}
    BY <2>3, <2>4, <2>5, <2>6, <2>7, <2>8
  <2> QED BY <1>2, <2>9 DEF permits, Permitted
<1> QED BY <1>1, <1>2

\* As long as its broker lives, a target runs only inside its open job, with the token
\* the request asks for, with exactly the network its policy permits, in a profile
\* that exists, and while its broker has the session to itself.
THEOREM TargetContained == Spec => []Contained
<1>1. ContainInv /\ ProfileInv => Contained
  <2> SUFFICES ASSUME ContainInv, ProfileInv, NEW r \in Runs,
                      root[r] = "running" \/ kids[r], pc[r] # "dead"
               PROVE  /\ inJob[r] /\ job[r] = "open"
                      /\ \A t \in token[r] : t = Token(request[r])
                      /\ PolicyEnforced(r)
                      /\ r \in profiles
                      /\ lease[session[r]] = r
    BY DEF Contained
  <2>1. RunInv(r) /\ request[r] \in Requests /\ pc[r] \in Working
    BY DEF ContainInv, Functions, RunInv, ProcessInv, Busy
  <2>2. inJob[r] /\ job[r] = "open"
    BY <2>1 DEF RunInv, ProcessInv
  <2>3. \A t \in token[r] : t \in TokensMade(request[r]) /\ VerifiedToken(t, request[r])
    BY <2>1 DEF RunInv, TokenInv
  <2>4. \A t \in token[r] : t = Token(request[r])
    BY <2>1, <2>3, TokenExact
  <2>5. filters[r] = Filters(request[r])
    BY <2>1 DEF RunInv, FilterInv
  <2>6. PolicyEnforced(r)
    BY <2>1, <2>5, PolicyHolds DEF PolicyEnforced
  <2>7. r \in profiles
    BY <2>1 DEF ProfileInv, LiveProfileKept, OwnsProfile
  <2>8. lease[session[r]] = r
    BY <2>1 DEF RunInv, LeaseInv
  <2> QED BY <2>2, <2>4, <2>6, <2>7, <2>8
<1> QED BY <1>1, ContainInit, ContainNext, ProfileInit, ProfileNext, PTL DEF Spec

-----------------------------------------------------------------------------
\* What a run returns is true: nothing of the target is left alive, what is left on
\* the host is named, and the verdict is what ended the target.

Waiting == {"check", "block", "measure", "judge"}
Unlaunched == Early \cup {"create", "stage", "filters", "launch"}

USE NamesAssumption
USE DEF Early, HoldingSteps, DeletingSteps, Working, Filtering, Waiting, Unlaunched

Answers ==
    /\ IsFcn(threads) /\ IsFcn(outcome) /\ IsFcn(expired) /\ IsFcn(interrupted)
    /\ report \in [Runs -> Reports]

\* The threads that use the pipes of the target are joined before anything is returned.
ThreadInv(r) == threads[r] # {} => pc[r] \in Working \cup {"join_threads"}

\* A profile behind a result is known to be left over.
LeftoverInv(r) ==
    /\ pc[r] \in DeletingSteps \cup {"unmark"} /\ ~prepared[r] => outcome[r] = "error"
    /\ pc[r] = "retry_delete" /\ prepared[r] => report[r].leftover /\ ~report[r].clean
    /\ pc[r] = "begin_cleanup" /\ ~prepared[r] /\ r \in profiles => outcome[r] = "error"
    /\ pc[r] \in {"finish", "done"} /\ r \in profiles =>
          outcome[r] \in {"error", "interrupted"} \/ (report[r].leftover /\ ~report[r].clean)
    /\ pc[r] = "done" /\ report[r].status = "result" => outcome[r] \notin {"error", "interrupted"}

\* At each step, what is decided of the verdict and what became of the target.
VerdictInv(r) ==
    /\ outcome[r] = "timed_out" => expired[r]
    /\ pc[r] \in Unlaunched \cup {"assign", "verify", "resume"} => outcome[r] = "none"
    /\ pc[r] \in Unlaunched => root[r] = "none"
    /\ pc[r] \in {"assign", "verify", "resume"} => root[r] = "suspended"
    /\ pc[r] \in Waiting => root[r] \in {"running", "exited", "limited"}
    /\ pc[r] = "kill" => /\ outcome[r] \in {"timed_out", "interrupted", "quota"}
                         /\ root[r] \in {"running", "exited", "limited"}
    /\ pc[r] \in {"join_monitor", "close_job"} /\ root[r] \in {"running", "suspended"} =>
          outcome[r] = "error"
    /\ outcome[r] \in {"exited", "exited_over"} => root[r] \in {"exited", "limited"}
    /\ outcome[r] = "dry_run" => root[r] = "none"
    /\ pc[r] # "dead" /\ root[r] = "killed" =>
          outcome[r] \in {"error", "interrupted", "timed_out", "quota"}
    /\ pc[r] \notin Unlaunched \cup {"dead"} /\ root[r] = "none" => outcome[r] \in {"error", "dry_run"}

AnswerInv == Answers /\ \A r \in Runs : ThreadInv(r) /\ LeftoverInv(r) /\ VerdictInv(r)

\* What a step of r leaves of another run.
Aloof(q) ==
    /\ threads'[q] = threads[q] /\ outcome'[q] = outcome[q] /\ expired'[q] = expired[q]
    /\ report'[q] = report[q]
    /\ q \in profiles' => q \in profiles

LEMMA AloofKeeps ==
  ASSUME NEW q \in Runs, ThreadInv(q), LeftoverInv(q), VerdictInv(q), Untouched(q), Aloof(q)
  PROVE  ThreadInv(q)' /\ LeftoverInv(q)' /\ VerdictInv(q)'
<1>1. ThreadInv(q)'
  BY DEF ThreadInv, Aloof, Untouched
<1>2. LeftoverInv(q)'
  BY DEF LeftoverInv, Aloof, Untouched
<1>3. VerdictInv(q)'
  BY DEF VerdictInv, Aloof, Untouched
<1> QED BY <1>1, <1>2, <1>3

Apart(r) == Answers' /\ \A q \in Runs \ {r} : Aloof(q)

LEMMA PrepareApart ==
  ASSUME Answers, NEW r \in Runs, Prepare(r)
  PROVE  Apart(r)
<1> USE DEF Answers, IsFcn, Apart, Aloof, store, child, clock, books, Step, GiveUp, Outcome
<1>1. CASE PinTarget(r) \/ AcquireLease(r) \/ ListMarkers(r)
  BY <1>1 DEF PinTarget, AcquireLease, ListMarkers
<1>2. ASSUME NEW m \in Runs, OpenMarker(r, m) PROVE Apart(r)
  BY <1>2 DEF OpenMarker
<1>3. CASE DeleteStaleProfile(r) \/ RemoveStaleMarker(r)
  BY <1>3 DEF DeleteStaleProfile, RemoveStaleMarker
<1>4. CASE CreateMarker(r) \/ CreateProfile(r)
  BY <1>4 DEF CreateMarker, CreateProfile
<1>5. CASE StageRun(r) \/ InstallFilters(r)
  BY <1>5 DEF StageRun, InstallFilters
<1> QED BY <1>1, <1>2, <1>3, <1>4, <1>5 DEF Prepare

LEMMA ExecuteApart ==
  ASSUME Answers, NEW r \in Runs, Execute(r)
  PROVE  Apart(r)
<1> USE DEF Answers, IsFcn, Apart, Aloof, store, child, clock, books, Step, GiveUp, Outcome
<1>1. CASE CreateSuspended(r) \/ AssignJob(r) \/ VerifyToken(r)
  BY <1>1 DEF CreateSuspended, AssignJob, VerifyToken
<1>2. CASE Resume(r)
  BY <1>2 DEF Resume
<1>3. CASE CheckRequests(r) \/ WaitSlice(r)
  BY <1>3 DEF CheckRequests, WaitSlice
<1>4. CASE MeasureStorage(r) \/ JudgeStorage(r)
  BY <1>4 DEF MeasureStorage, JudgeStorage
<1>5. CASE KillTree(r) \/ StopMonitor(r) \/ CloseJob(r)
  BY <1>5 DEF KillTree, StopMonitor, CloseJob
<1>6. CASE JoinThreads(r) \/ ObserveFiles(r)
  BY <1>6 DEF JoinThreads, ObserveFiles
<1> QED BY <1>1, <1>2, <1>3, <1>4, <1>5, <1>6 DEF Execute

LEMMA CleanupApart ==
  ASSUME Answers, NEW r \in Runs, Cleanup(r)
  PROVE  Apart(r)
<1> USE DEF Answers, Reports, IsFcn, Apart, Aloof, store, child, clock, books, Step
<1>1. CASE BeginCleanup(r)
  BY <1>1 DEF BeginCleanup
<1>2. CASE RemoveFilters(r)
  BY <1>2 DEF RemoveFilters
<1>3. CASE DeleteProfile(r)
  <2>1. \/ report' = report
        \/ report' = [report EXCEPT ![r].clean = FALSE, ![r].leftover = TRUE]
    BY <1>3 DEF DeleteProfile
  <2>2. UNCHANGED <<threads, outcome, expired, interrupted>> /\ profiles' \subseteq profiles
    BY <1>3 DEF DeleteProfile
  <2>3. report' \in [Runs -> Reports]
    <3>1. [report[r] EXCEPT !.clean = FALSE, !.leftover = TRUE] \in Reports
      OBVIOUS
    <3>2. CASE report' = [report EXCEPT ![r] = [report[r] EXCEPT !.clean = FALSE, !.leftover = TRUE]]
      BY <3>1, <3>2
    <3> QED BY <2>1, <3>2
  <2>4. \A q \in Runs \ {r} : report'[q] = report[q]
    BY <2>1
  <2> QED BY <2>2, <2>3, <2>4
<1>4. CASE RemoveMarker(r)
  BY <1>4 DEF RemoveMarker
<1>5. CASE Finish(r)
  <2>1. \E status \in {"error", "result"} : report' = [report EXCEPT ![r].status = status]
    BY <1>5 DEF Finish
  <2>2. UNCHANGED <<threads, outcome, expired, interrupted, profiles>>
    BY <1>5 DEF Finish
  <2>3. report' \in [Runs -> Reports]
    BY <2>1
  <2> QED BY <2>1, <2>2, <2>3
<1> QED BY <1>1, <1>2, <1>3, <1>4, <1>5 DEF Cleanup

LEMMA WorldApart ==
  ASSUME Answers, NEW r \in Runs, World(r)
  PROVE  Apart(r)
<1> USE DEF Answers, IsFcn, Apart, Aloof, store, child, clock, books
<1>1. CASE ThreadEnds(r)
  BY <1>1 DEF ThreadEnds
<1>2. CASE Target(r)
  BY <1>2 DEF Target, RootEnds, Descend, Fill
<1>3. CASE Expire(r) \/ Interrupt(r) \/ Die(r) \/ CloseHandles(r)
  BY <1>3 DEF Expire, Interrupt, Die, CloseHandles
<1> QED BY <1>1, <1>2, <1>3 DEF World

-----------------------------------------------------------------------------
\* What the steps of a run do to its own part of the invariant.

AnswerOwn(r) == ThreadInv(r)' /\ LeftoverInv(r)' /\ VerdictInv(r)'

LEMMA PrepareAnswers ==
  ASSUME AnswerInv, ContainInv, ProfileInv, NEW r \in Runs, Prepare(r)
  PROVE  AnswerOwn(r)
<1>0. /\ Answers /\ Functions /\ ThreadInv(r) /\ LeftoverInv(r) /\ VerdictInv(r)
      /\ prepared \in [Runs -> BOOLEAN] /\ RunInv(r)
      /\ pc[r] \in Early \cup {"create"} => ~prepared[r] /\ r \notin profiles
      /\ pc[r] = "unmark" => r \notin profiles
  BY DEF AnswerInv, ContainInv, ProfileInv, ProfileTypes, BeforeProfile, BehindDeletion
<1> USE <1>0 DEF Answers, Functions, IsFcn, Reports, AnswerOwn, store, child, clock, books, Step, GiveUp,
                 Outcome, BehindProfile
<1>1. CASE PinTarget(r)
  <2>1. ThreadInv(r)'
    BY <1>1 DEF ThreadInv, PinTarget
  <2>2. LeftoverInv(r)'
    BY <1>1 DEF LeftoverInv, RunInv, FilterInv, PinTarget
  <2>3. VerdictInv(r)'
    BY <1>1 DEF VerdictInv, PinTarget
  <2> QED BY <2>1, <2>2, <2>3
<1>2. CASE AcquireLease(r)
  <2>1. ThreadInv(r)'
    BY <1>2 DEF ThreadInv, AcquireLease
  <2>2. LeftoverInv(r)'
    BY <1>2 DEF LeftoverInv, RunInv, FilterInv, AcquireLease
  <2>3. VerdictInv(r)'
    BY <1>2 DEF VerdictInv, AcquireLease
  <2> QED BY <2>1, <2>2, <2>3
<1>3. CASE ListMarkers(r)
  <2>1. ThreadInv(r)'
    BY <1>3 DEF ThreadInv, ListMarkers
  <2>2. LeftoverInv(r)'
    BY <1>3 DEF LeftoverInv, RunInv, FilterInv, ListMarkers
  <2>3. VerdictInv(r)'
    BY <1>3 DEF VerdictInv, ListMarkers
  <2> QED BY <2>1, <2>2, <2>3
<1>4. ASSUME NEW m \in Runs, OpenMarker(r, m) PROVE AnswerOwn(r)
  <2>1. ThreadInv(r)'
    BY <1>4 DEF ThreadInv, OpenMarker
  <2>2. LeftoverInv(r)'
    BY <1>4 DEF LeftoverInv, RunInv, FilterInv, OpenMarker
  <2>3. VerdictInv(r)'
    BY <1>4 DEF VerdictInv, OpenMarker
  <2> QED BY <2>1, <2>2, <2>3
<1>5. CASE DeleteStaleProfile(r)
  <2>1. ThreadInv(r)'
    BY <1>5 DEF ThreadInv, DeleteStaleProfile
  <2>2. LeftoverInv(r)'
    BY <1>5 DEF LeftoverInv, RunInv, FilterInv, DeleteStaleProfile
  <2>3. VerdictInv(r)'
    BY <1>5 DEF VerdictInv, DeleteStaleProfile
  <2> QED BY <2>1, <2>2, <2>3
<1>6. CASE RemoveStaleMarker(r)
  <2>1. ThreadInv(r)'
    BY <1>6 DEF ThreadInv, RemoveStaleMarker
  <2>2. LeftoverInv(r)'
    BY <1>6 DEF LeftoverInv, RunInv, FilterInv, RemoveStaleMarker
  <2>3. VerdictInv(r)'
    BY <1>6 DEF VerdictInv, RemoveStaleMarker
  <2> QED BY <2>1, <2>2, <2>3
<1>7. CASE CreateMarker(r)
  <2>1. ThreadInv(r)'
    BY <1>7 DEF ThreadInv, CreateMarker
  <2>2. LeftoverInv(r)'
    BY <1>7 DEF LeftoverInv, RunInv, FilterInv, CreateMarker
  <2>3. VerdictInv(r)'
    BY <1>7 DEF VerdictInv, CreateMarker
  <2> QED BY <2>1, <2>2, <2>3
<1>8. CASE CreateProfile(r)
  <2>1. ThreadInv(r)'
    BY <1>8 DEF ThreadInv, CreateProfile
  <2>2. LeftoverInv(r)'
    BY <1>8 DEF LeftoverInv, RunInv, FilterInv, CreateProfile
  <2>3. VerdictInv(r)'
    BY <1>8 DEF VerdictInv, CreateProfile
  <2> QED BY <2>1, <2>2, <2>3
<1>9. CASE StageRun(r)
  <2>1. ThreadInv(r)'
    BY <1>9 DEF ThreadInv, StageRun
  <2>2. LeftoverInv(r)'
    BY <1>9 DEF LeftoverInv, RunInv, FilterInv, StageRun
  <2>3. VerdictInv(r)'
    BY <1>9 DEF VerdictInv, StageRun
  <2> QED BY <2>1, <2>2, <2>3
<1>10. CASE InstallFilters(r)
  <2>1. ThreadInv(r)'
    BY <1>10 DEF ThreadInv, InstallFilters
  <2>2. LeftoverInv(r)'
    BY <1>10 DEF LeftoverInv, RunInv, FilterInv, InstallFilters
  <2>3. VerdictInv(r)'
    BY <1>10 DEF VerdictInv, InstallFilters
  <2> QED BY <2>1, <2>2, <2>3
<1> QED BY <1>1, <1>2, <1>3, <1>4, <1>5, <1>6, <1>7, <1>8, <1>9, <1>10 DEF Prepare

LEMMA ExecuteAnswers ==
  ASSUME AnswerInv, ContainInv, ProfileInv, NEW r \in Runs, Execute(r)
  PROVE  AnswerOwn(r)
<1>0. /\ Answers /\ Functions /\ ThreadInv(r) /\ LeftoverInv(r) /\ VerdictInv(r)
      /\ prepared \in [Runs -> BOOLEAN] /\ RunInv(r)
      /\ pc[r] \in Early \cup {"create"} => ~prepared[r] /\ r \notin profiles
      /\ pc[r] = "unmark" => r \notin profiles
  BY DEF AnswerInv, ContainInv, ProfileInv, ProfileTypes, BeforeProfile, BehindDeletion
<1> USE <1>0 DEF Answers, Functions, IsFcn, Reports, AnswerOwn, store, child, clock, books, Step, GiveUp,
                 Outcome, BehindProfile
<1>1. CASE CreateSuspended(r)
  <2>1. ThreadInv(r)'
    BY <1>1 DEF ThreadInv, CreateSuspended
  <2>2. LeftoverInv(r)'
    BY <1>1 DEF LeftoverInv, RunInv, FilterInv, CreateSuspended
  <2>3. VerdictInv(r)'
    BY <1>1 DEF VerdictInv, CreateSuspended
  <2> QED BY <2>1, <2>2, <2>3
<1>2. CASE AssignJob(r)
  <2>1. ThreadInv(r)'
    BY <1>2 DEF ThreadInv, AssignJob
  <2>2. LeftoverInv(r)'
    BY <1>2 DEF LeftoverInv, RunInv, FilterInv, AssignJob
  <2>3. VerdictInv(r)'
    BY <1>2 DEF VerdictInv, AssignJob
  <2> QED BY <2>1, <2>2, <2>3
<1>3. CASE VerifyToken(r)
  <2>1. ThreadInv(r)'
    BY <1>3 DEF ThreadInv, VerifyToken, CloseJobHandle
  <2>2. LeftoverInv(r)'
    BY <1>3 DEF LeftoverInv, RunInv, FilterInv, VerifyToken, CloseJobHandle
  <2>3. VerdictInv(r)'
    BY <1>3 DEF VerdictInv, VerifyToken, CloseJobHandle
  <2> QED BY <2>1, <2>2, <2>3
<1>4. CASE Resume(r)
  <2>1. ThreadInv(r)'
    BY <1>4 DEF ThreadInv, Resume
  <2>2. LeftoverInv(r)'
    BY <1>4 DEF LeftoverInv, RunInv, FilterInv, Resume
  <2>3. VerdictInv(r)'
    BY <1>4 DEF VerdictInv, Resume
  <2> QED BY <2>1, <2>2, <2>3
<1>5. CASE CheckRequests(r)
  <2>1. ThreadInv(r)'
    BY <1>5 DEF ThreadInv, CheckRequests
  <2>2. LeftoverInv(r)'
    BY <1>5 DEF LeftoverInv, RunInv, FilterInv, CheckRequests
  <2>3. VerdictInv(r)'
    BY <1>5 DEF VerdictInv, CheckRequests
  <2> QED BY <2>1, <2>2, <2>3
<1>6. CASE WaitSlice(r)
  <2>1. ThreadInv(r)'
    BY <1>6 DEF ThreadInv, WaitSlice, Ended
  <2>2. LeftoverInv(r)'
    BY <1>6 DEF LeftoverInv, RunInv, FilterInv, WaitSlice, Ended
  <2>3. VerdictInv(r)'
    BY <1>6 DEF VerdictInv, WaitSlice, Ended
  <2> QED BY <2>1, <2>2, <2>3
<1>7. CASE MeasureStorage(r)
  <2>1. ThreadInv(r)'
    BY <1>7 DEF ThreadInv, MeasureStorage
  <2>2. LeftoverInv(r)'
    BY <1>7 DEF LeftoverInv, RunInv, FilterInv, MeasureStorage
  <2>3. VerdictInv(r)'
    BY <1>7 DEF VerdictInv, MeasureStorage
  <2> QED BY <2>1, <2>2, <2>3
<1>8. CASE JudgeStorage(r)
  <2>1. ThreadInv(r)'
    BY <1>8 DEF ThreadInv, JudgeStorage
  <2>2. LeftoverInv(r)'
    BY <1>8 DEF LeftoverInv, RunInv, FilterInv, JudgeStorage
  <2>3. VerdictInv(r)'
    BY <1>8 DEF VerdictInv, JudgeStorage
  <2> QED BY <2>1, <2>2, <2>3
<1>9. CASE KillTree(r)
  <2>1. ThreadInv(r)'
    BY <1>9 DEF ThreadInv, KillTree, Ended
  <2>2. LeftoverInv(r)'
    BY <1>9 DEF LeftoverInv, RunInv, FilterInv, KillTree, Ended
  <2>3. VerdictInv(r)'
    BY <1>9 DEF VerdictInv, KillTree, Ended
  <2> QED BY <2>1, <2>2, <2>3
<1>10. CASE StopMonitor(r)
  <2>1. ThreadInv(r)'
    BY <1>10 DEF ThreadInv, StopMonitor
  <2>2. LeftoverInv(r)'
    BY <1>10 DEF LeftoverInv, RunInv, FilterInv, StopMonitor
  <2>3. VerdictInv(r)'
    BY <1>10 DEF VerdictInv, StopMonitor
  <2> QED BY <2>1, <2>2, <2>3
<1>11. CASE CloseJob(r)
  <2>1. ThreadInv(r)'
    BY <1>11 DEF ThreadInv, CloseJob, CloseJobHandle
  <2>2. LeftoverInv(r)'
    BY <1>11 DEF LeftoverInv, RunInv, FilterInv, CloseJob, CloseJobHandle
  <2>3. VerdictInv(r)'
    BY <1>11 DEF VerdictInv, CloseJob, CloseJobHandle
  <2> QED BY <2>1, <2>2, <2>3
<1>12. CASE JoinThreads(r)
  <2>1. ThreadInv(r)'
    BY <1>12 DEF ThreadInv, JoinThreads
  <2>2. LeftoverInv(r)'
    BY <1>12 DEF LeftoverInv, RunInv, FilterInv, JoinThreads
  <2>3. VerdictInv(r)'
    BY <1>12 DEF VerdictInv, JoinThreads
  <2> QED BY <2>1, <2>2, <2>3
<1>13. CASE ObserveFiles(r)
  <2>1. ThreadInv(r)'
    BY <1>13 DEF ThreadInv, ObserveFiles
  <2>2. LeftoverInv(r)'
    BY <1>13 DEF LeftoverInv, RunInv, FilterInv, ObserveFiles
  <2>3. VerdictInv(r)'
    BY <1>13 DEF VerdictInv, ObserveFiles
  <2> QED BY <2>1, <2>2, <2>3
<1> QED BY <1>1, <1>2, <1>3, <1>4, <1>5, <1>6, <1>7, <1>8, <1>9, <1>10, <1>11, <1>12, <1>13 DEF Execute

LEMMA CleanupAnswers ==
  ASSUME AnswerInv, ContainInv, ProfileInv, NEW r \in Runs, Cleanup(r)
  PROVE  AnswerOwn(r)
<1>0. /\ Answers /\ Functions /\ ThreadInv(r) /\ LeftoverInv(r) /\ VerdictInv(r)
      /\ prepared \in [Runs -> BOOLEAN] /\ RunInv(r)
      /\ pc[r] \in Early \cup {"create"} => ~prepared[r] /\ r \notin profiles
      /\ pc[r] = "unmark" => r \notin profiles
  BY DEF AnswerInv, ContainInv, ProfileInv, ProfileTypes, BeforeProfile, BehindDeletion
<1> USE <1>0 DEF Answers, Functions, IsFcn, Reports, AnswerOwn, store, child, clock, books, Step, GiveUp,
                 Outcome, BehindProfile
<1>1. CASE BeginCleanup(r)
  <2>1. ThreadInv(r)'
    BY <1>1 DEF ThreadInv, BeginCleanup
  <2>2. LeftoverInv(r)'
    BY <1>1 DEF LeftoverInv, BeginCleanup
  <2>3. VerdictInv(r)'
    BY <1>1 DEF VerdictInv, BeginCleanup
  <2> QED BY <2>1, <2>2, <2>3
<1>2. CASE RemoveFilters(r)
  <2>1. ThreadInv(r)'
    BY <1>2 DEF ThreadInv, RemoveFilters
  <2>2. LeftoverInv(r)'
    BY <1>2 DEF LeftoverInv, RunInv, FilterInv, RemoveFilters
  <2>3. VerdictInv(r)'
    BY <1>2 DEF VerdictInv, RemoveFilters
  <2> QED BY <2>1, <2>2, <2>3
<1>3. CASE DeleteProfile(r)
  <2>1. ThreadInv(r)'
    BY <1>3 DEF ThreadInv, DeleteProfile
  <2>2. LeftoverInv(r)'
    BY <1>3 DEF LeftoverInv, RunInv, FilterInv, DeleteProfile
  <2>3. VerdictInv(r)'
    BY <1>3 DEF VerdictInv, DeleteProfile
  <2> QED BY <2>1, <2>2, <2>3
<1>4. CASE RemoveMarker(r)
  <2>1. ThreadInv(r)'
    BY <1>4 DEF ThreadInv, RemoveMarker
  <2>2. LeftoverInv(r)'
    BY <1>4 DEF LeftoverInv, RunInv, FilterInv, RemoveMarker
  <2>3. VerdictInv(r)'
    BY <1>4 DEF VerdictInv, RemoveMarker
  <2> QED BY <2>1, <2>2, <2>3
<1>5. CASE Finish(r)
  <2>1. ThreadInv(r)'
    BY <1>5 DEF ThreadInv, Finish
  <2>2. LeftoverInv(r)'
    BY <1>5 DEF LeftoverInv, RunInv, FilterInv, Finish
  <2>3. VerdictInv(r)'
    BY <1>5 DEF VerdictInv, Finish
  <2> QED BY <2>1, <2>2, <2>3
<1> QED BY <1>1, <1>2, <1>3, <1>4, <1>5 DEF Cleanup

LEMMA WorldAnswers ==
  ASSUME AnswerInv, ContainInv, ProfileInv, NEW r \in Runs, World(r)
  PROVE  AnswerOwn(r)
<1>0. /\ Answers /\ Functions /\ ThreadInv(r) /\ LeftoverInv(r) /\ VerdictInv(r)
      /\ prepared \in [Runs -> BOOLEAN] /\ RunInv(r)
      /\ pc[r] \in Early \cup {"create"} => ~prepared[r] /\ r \notin profiles
      /\ pc[r] = "unmark" => r \notin profiles
  BY DEF AnswerInv, ContainInv, ProfileInv, ProfileTypes, BeforeProfile, BehindDeletion
<1> USE <1>0 DEF Answers, Functions, IsFcn, Reports, AnswerOwn, store, child, clock, books, Step, GiveUp,
                 Outcome, BehindProfile
<1>1. CASE ThreadEnds(r)
  <2>1. ThreadInv(r)'
    BY <1>1 DEF ThreadInv, ThreadEnds
  <2>2. LeftoverInv(r)'
    BY <1>1 DEF LeftoverInv, RunInv, FilterInv, ThreadEnds
  <2>3. VerdictInv(r)'
    BY <1>1 DEF VerdictInv, ThreadEnds
  <2> QED BY <2>1, <2>2, <2>3
<1>2. CASE Target(r)
  <2>1. ThreadInv(r)'
    BY <1>2 DEF ThreadInv, Target, RootEnds, Descend, Fill
  <2>2. LeftoverInv(r)'
    BY <1>2 DEF LeftoverInv, RunInv, FilterInv, Target, RootEnds, Descend, Fill
  <2>3. VerdictInv(r)'
    BY <1>2 DEF VerdictInv, Target, RootEnds, Descend, Fill
  <2> QED BY <2>1, <2>2, <2>3
<1>3. CASE Expire(r)
  <2>1. ThreadInv(r)'
    BY <1>3 DEF ThreadInv, Expire
  <2>2. LeftoverInv(r)'
    BY <1>3 DEF LeftoverInv, RunInv, FilterInv, Expire
  <2>3. VerdictInv(r)'
    BY <1>3 DEF VerdictInv, Expire
  <2> QED BY <2>1, <2>2, <2>3
<1>4. CASE Interrupt(r)
  <2>1. ThreadInv(r)'
    BY <1>4 DEF ThreadInv, Interrupt
  <2>2. LeftoverInv(r)'
    BY <1>4 DEF LeftoverInv, RunInv, FilterInv, Interrupt
  <2>3. VerdictInv(r)'
    BY <1>4 DEF VerdictInv, Interrupt
  <2> QED BY <2>1, <2>2, <2>3
<1>5. CASE Die(r)
  <2>1. ThreadInv(r)'
    BY <1>5 DEF ThreadInv, Die
  <2>2. LeftoverInv(r)'
    BY <1>5 DEF LeftoverInv, RunInv, FilterInv, Die
  <2>3. VerdictInv(r)'
    BY <1>5 DEF VerdictInv, Die
  <2> QED BY <2>1, <2>2, <2>3
<1>6. CASE CloseHandles(r)
  <2>1. ThreadInv(r)'
    BY <1>6 DEF ThreadInv, CloseHandles, CloseJobHandle
  <2>2. LeftoverInv(r)'
    BY <1>6 DEF LeftoverInv, RunInv, FilterInv, CloseHandles, CloseJobHandle
  <2>3. VerdictInv(r)'
    BY <1>6 DEF VerdictInv, CloseHandles, CloseJobHandle
  <2> QED BY <2>1, <2>2, <2>3
<1> QED BY <1>1, <1>2, <1>3, <1>4, <1>5, <1>6 DEF World

-----------------------------------------------------------------------------
LEMMA AnswerInit == Init => AnswerInv
<1> SUFFICES ASSUME Init PROVE AnswerInv
  OBVIOUS
<1>1. Answers
  BY DEF Init, Answers, Reports, NoReport, IsFcn
<1>2. ASSUME NEW r \in Runs PROVE ThreadInv(r) /\ LeftoverInv(r) /\ VerdictInv(r)
  BY <1>2 DEF Init, ThreadInv, LeftoverInv, VerdictInv
<1> QED BY <1>1, <1>2 DEF AnswerInv

LEMMA AnswerNext == AnswerInv /\ ContainInv /\ ProfileInv /\ [Next]_vars => AnswerInv'
<1> SUFFICES ASSUME AnswerInv, ContainInv, ProfileInv, [Next]_vars PROVE AnswerInv'
  OBVIOUS
<1>1. CASE UNCHANGED vars
  BY <1>1
  DEF vars, store, child, clock, books, AnswerInv, Answers, IsFcn, ThreadInv, LeftoverInv, VerdictInv
<1>2. ASSUME NEW r \in Runs, Broker(r) \/ World(r)
      PROVE  AnswerInv'
  <2>1. Elsewhere(r)
    BY <1>2, PrepareElsewhere, ExecuteElsewhere, CleanupElsewhere, WorldElsewhere
    DEF Broker, ContainInv
  <2>2. Apart(r)
    BY <1>2, PrepareApart, ExecuteApart, CleanupApart, WorldApart DEF Broker, AnswerInv
  <2>3. AnswerOwn(r)
    BY <1>2, PrepareAnswers, ExecuteAnswers, CleanupAnswers, WorldAnswers DEF Broker
  <2>4. ASSUME NEW q \in Runs \ {r} PROVE ThreadInv(q)' /\ LeftoverInv(q)' /\ VerdictInv(q)'
    BY <2>1, <2>2, AloofKeeps DEF AnswerInv, Elsewhere, Apart
  <2> QED BY <2>2, <2>3, <2>4 DEF AnswerInv, Apart, AnswerOwn
<1> QED BY <1>1, <1>2 DEF Next, World

\* When start_with_request returns, nothing of the target is alive and its filters are
\* gone; a profile that is left behind a result is among its leftovers.
THEOREM ReportHonest == Spec => []HonestReport
<1>1. AnswerInv /\ ContainInv => HonestReport
  BY DEF AnswerInv, ThreadInv, LeftoverInv, ContainInv, RunInv, FilterInv, ProcessInv, Busy,
         HonestReport
<1> QED BY <1>1, AnswerInit, AnswerNext, ContainInit, ContainNext, ProfileInit, ProfileNext, PTL
        DEF Spec

\* What a result says of the end of the target is what ended it.
THEOREM VerdictProved == Spec => []VerdictTrue
<1>1. AnswerInv => VerdictTrue
  BY DEF AnswerInv, LeftoverInv, VerdictInv, VerdictTrue
<1> QED BY <1>1, AnswerInit, AnswerNext, ContainInit, ContainNext, ProfileInit, ProfileNext, PTL
        DEF Spec
=============================================================================
