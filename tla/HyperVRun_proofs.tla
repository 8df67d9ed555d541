-------------------------- MODULE HyperVRun_proofs --------------------------
(***************************************************************************)
(* Proofs about HyperVRun for every number of journal generations and      *)
(* disturbances: type correctness, containment of the running guest, and   *)
(* the order of teardown.                                                  *)
(***************************************************************************)
EXTENDS HyperVRun, TLAPS

-----------------------------------------------------------------------------
\* The operations of HostResources yield outcomes.

\* The three forms of an outcome are well typed.
LEMMA OutcomesTyped ==
    ASSUME NEW h \in Host
    PROVE  Done(h) \in Outcome /\ Refused(h) \in Outcome /\ Broken(h) \in Outcome
  BY DEF Outcome, Done, Refused, Broken

\* A script whose target and intermediate hosts are typed has typed outcomes.
LEMMA ScriptTyped ==
    ASSUME NEW h \in Host, NEW done \in Host, NEW between \in SUBSET Host
    PROVE  Script(h, done, between) \subseteq Outcome
  BY OutcomesTyped DEF Script

\* Replacing one field of a host by an allowed value yields a host.
LEMMA HostFields ==
    ASSUME NEW h \in Host
    PROVE  /\ \A x \in {"absent", "off", "running"} : [h EXCEPT !.vm = x] \in Host
           /\ \A x \in {"none", "default", "controlled"} : [h EXCEPT !.nic = x] \in Host
           /\ \A x \in BOOLEAN : /\ [h EXCEPT !.acls = x] \in Host
                                 /\ [h EXCEPT !.rule = x] \in Host
                                 /\ [h EXCEPT !.lease = x] \in Host
           /\ \A x \in {"absent", "running", "stopped"} : [h EXCEPT !.capture = x] \in Host
           /\ \A x \in {"absent", "anonymous", "identified"} : [h EXCEPT !.osDisk = x] \in Host
           /\ \A x \in {"absent", "detached", "mounted"} : [h EXCEPT !.dataDisk = x] \in Host
  BY DEF Host

\* Every operation on the run's network has typed outcomes.
LEMMA NetworkOperationsTyped ==
    ASSUME NEW m \in Modes, NEW h \in Host
    PROVE  /\ AllocateLease(h) \subseteq Outcome
           /\ ReleaseLease(h) \subseteq Outcome
           /\ PrepareAdapter(h) \subseteq Outcome
           /\ ConfigureNetwork(m, h) \subseteq Outcome
           /\ VerifyNetwork(m, h) \subseteq Outcome
           /\ StopCapture(h) \subseteq Outcome
           /\ RemoveHostControls(m, h) \subseteq Outcome
  <1>1. AllocateLease(h) \subseteq Outcome /\ ReleaseLease(h) \subseteq Outcome
    BY HostFields, OutcomesTyped DEF AllocateLease, ReleaseLease
  <1>2. PrepareAdapter(h) \subseteq Outcome
    BY HostFields, OutcomesTyped, ScriptTyped DEF PrepareAdapter
  <1>3. ConfigureNetwork(m, h) \subseteq Outcome
    <2> DEFINE acls    == [h EXCEPT !.acls = TRUE]
               rule    == [acls EXCEPT !.rule = (m = "host_server")]
               capture == [rule EXCEPT !.capture = "running"]
               session == [rule EXCEPT !.capture = "stopped"]
               offline == [h EXCEPT !.nic = "none"]
    <2>1. /\ acls \in Host /\ rule \in Host /\ capture \in Host /\ session \in Host
          /\ offline \in Host
      BY DEF Host
    <2>2. /\ ConfigureNetwork(m, h) \subseteq
               {Refused(h)} \cup Script(h, offline, {})
                 \cup Script(h, capture, {acls, rule, session})
      BY DEF ConfigureNetwork
    <2> HIDE DEF acls, rule, capture, session, offline
    <2>3. {acls, rule, session} \in SUBSET Host /\ {} \in SUBSET Host
      BY <2>1
    <2>4. /\ Script(h, capture, {acls, rule, session}) \subseteq Outcome
          /\ Script(h, offline, {}) \subseteq Outcome
      BY <2>1, <2>3, ScriptTyped
    <2> QED
      BY <2>2, <2>4, OutcomesTyped
  <1>4. VerifyNetwork(m, h) \subseteq Outcome
    BY OutcomesTyped DEF VerifyNetwork
  <1>5. StopCapture(h) \subseteq Outcome
    BY HostFields, OutcomesTyped, ScriptTyped DEF StopCapture
  <1>6. RemoveHostControls(m, h) \subseteq Outcome
    <2> DEFINE stopped   == [h EXCEPT !.capture = IF @ = "running" THEN "stopped" ELSE @]
               noCapture == [h EXCEPT !.capture = "absent"]
               noRule    == [noCapture EXCEPT !.rule = FALSE]
    <2>1. stopped \in Host /\ noCapture \in Host /\ noRule \in Host
      BY DEF Host
    <2>2. RemoveHostControls(m, h) \subseteq
            {Refused(noCapture), Broken(h), Broken(stopped)}
              \cup Script(h, noRule, {stopped, noCapture})
      BY DEF RemoveHostControls
    <2> HIDE DEF stopped, noCapture, noRule
    <2>3. {stopped, noCapture} \in SUBSET Host
      BY <2>1
    <2>4. Script(h, noRule, {stopped, noCapture}) \subseteq Outcome
      BY <2>1, <2>3, ScriptTyped
    <2> QED
      BY <2>1, <2>2, <2>4, OutcomesTyped
  <1> QED
    BY <1>1, <1>2, <1>3, <1>4, <1>5, <1>6

\* Every operation on the run's disks has typed outcomes.
LEMMA DiskOperationsTyped ==
    ASSUME NEW h \in Host, NEW identified \in BOOLEAN
    PROVE  /\ CreateOsDisk(h) \subseteq Outcome
           /\ CreateDataDisk(h) \subseteq Outcome
           /\ MountDataDisk(h) \subseteq Outcome
           /\ DismountDataDisk(h) \subseteq Outcome
           /\ DeleteDataDisk(h, identified) \subseteq Outcome
           /\ DeleteOsDisk(h, identified) \subseteq Outcome
  <1> USE HostFields, OutcomesTyped, ScriptTyped
  <1>1. CreateOsDisk(h) \subseteq Outcome
    <2>1. [ok |-> TRUE, host |-> [h EXCEPT !.osDisk = "anonymous"], cost |-> 1] \in Outcome
      BY DEF Outcome
    <2> QED
      BY <2>1 DEF CreateOsDisk
  <1>2. CreateDataDisk(h) \subseteq Outcome /\ MountDataDisk(h) \subseteq Outcome
    BY DEF CreateDataDisk, MountDataDisk
  <1>3. DismountDataDisk(h) \subseteq Outcome
    BY DEF DismountDataDisk
  <1>4. DeleteDataDisk(h, identified) \subseteq Outcome
    BY DEF DeleteDataDisk
  <1>5. DeleteOsDisk(h, identified) \subseteq Outcome
    BY DEF DeleteOsDisk
  <1> QED
    BY <1>1, <1>2, <1>3, <1>4, <1>5

\* Every operation on the virtual machine has typed outcomes.
LEMMA VmOperationsTyped ==
    ASSUME NEW h \in Host
    PROVE  /\ CreateVm(h) \subseteq Outcome
           /\ AttachDisks(h) \subseteq Outcome
           /\ DetachDisks(h) \subseteq Outcome
           /\ StartVm(h) \subseteq Outcome
           /\ StopVm(h) \subseteq Outcome
           /\ RemoveVm(h) \subseteq Outcome
           /\ PoweredOff(h) \in Host
  <1>1. PoweredOff(h) \in Host /\ WithoutVm(h) \in Host
    <2>1. PoweredOff(h) \in Host
      BY HostFields DEF PoweredOff
    <2>2. WithoutVm(h) \in Host
      BY DEF Host, WithoutVm
    <2> QED
      BY <2>1, <2>2
  <1>2. [h EXCEPT !.vm = "off", !.nic = "default"] \in Host
    BY DEF Host
  <1> USE HostFields, OutcomesTyped, ScriptTyped
  <1>3. CreateVm(h) \subseteq Outcome /\ AttachDisks(h) \subseteq Outcome /\ DetachDisks(h) \subseteq Outcome
    BY <1>2 DEF CreateVm, AttachDisks, DetachDisks
  <1>4. StartVm(h) \subseteq Outcome
    BY DEF StartVm
  <1>5. StopVm(h) \subseteq Outcome
    BY <1>1 DEF StopVm
  <1>6. RemoveVm(h) \subseteq Outcome
    BY <1>1 DEF RemoveVm
  <1> QED
    BY <1>1, <1>3, <1>4, <1>5, <1>6

\* Every outcome of CleanupJournal::persist is a journal and a store.
PersistResult == [ok : BOOLEAN, journal : Journal, store : Store, cost : {0, 1}]

\* Persisting a typed journal yields a typed journal and store.
LEMMA PersistTyped ==
    ASSUME NEW j \in Journal, NEW s \in Store
    PROVE  PersistOutcomes(j, s) \subseteq PersistResult
  <1> DEFINE next == Numbered(j)
             Result(ok, k, t, c) == [ok |-> ok, journal |-> k, store |-> t, cost |-> c]
  <1>1. ASSUME NEW ok \in BOOLEAN, NEW k \in Journal, NEW t \in Store, NEW c \in {0, 1}
        PROVE  Result(ok, k, t, c) \in PersistResult
    BY DEF PersistResult
  <1> HIDE DEF Result
  <1>2. CASE ~ValidJournal(j) \/ j.seq >= MaxSequence
    <2>1. PersistOutcomes(j, s) = {Result(FALSE, j, s, 0)}
      BY <1>2 DEF PersistOutcomes, Result
    <2> QED
      BY <2>1, <1>1
  <1>3. CASE ValidJournal(j) /\ ~(j.seq >= MaxSequence)
    <2>1. j.seq \in 0..MaxSequence /\ j.seq + 1 \in 1..MaxSequence
      BY <1>3, MaxSequenceAssumption DEF Journal
    <2>2. next \in Journal /\ next.seq \in 1..MaxSequence
      BY <2>1, MaxSequenceAssumption DEF Journal, Numbered
    <2>3. TornWrite(next, s) \in Store
      BY <2>2 DEF Store, TornWrite
    <2>4. Written(next, s) \in Store
      BY <2>2 DEF Store, Written, Later
    <2>5. PersistOutcomes(j, s) \subseteq
             {Result(FALSE, next, s, 0), Result(TRUE, next, Written(next, s), 0)}
             \cup {Result(FALSE, next, t, 1) : t \in {s, TornWrite(next, s), Written(next, s)}}
      BY <1>3 DEF PersistOutcomes, Result
    <2> HIDE DEF next
    <2> QED
      BY <2>2, <2>3, <2>4, <2>5, <1>1
  <1> QED
    BY <1>2, <1>3

-----------------------------------------------------------------------------
\* Type correctness: one lemma per shape of step, then one step per action.

\* Disturbances stay within their bound.
LEMMA SpendTyped ==
    ASSUME NEW cost \in {0, 1}, disturbances \in 0..MaxDisturbances, Spend(cost)
    PROVE  disturbances' \in 0..MaxDisturbances
  BY MaxDisturbancesAssumption DEF Spend

\* Taking a typed outcome of a script keeps the host typed.
LEMMA ScriptOutcomeTyped ==
    ASSUME TypeOK, NEW outcomes \in SUBSET Outcome, NEW o \in outcomes,
           ScriptOutcome(outcomes, o)
    PROVE  host' \in Host /\ disturbances' \in 0..MaxDisturbances
  <1>1. o \in Outcome
    OBVIOUS
  <1>2. o.cost \in {0, 1} /\ o.host \in Host
    BY <1>1 DEF Outcome
  <1>3. (IF interrupted THEN 0 ELSE o.cost) \in {0, 1}
    BY <1>2
  <1> QED
    BY <1>2, <1>3, SpendTyped DEF ScriptOutcome, TypeOK

\* Taking a typed outcome of a file operation keeps the host typed.
LEMMA FileOutcomeTyped ==
    ASSUME TypeOK, NEW o \in Outcome, FileOutcome(o)
    PROVE  host' \in Host /\ disturbances' \in 0..MaxDisturbances
  <1>1. o.cost \in {0, 1} /\ o.host \in Host
    BY DEF Outcome
  <1> QED
    BY <1>1, SpendTyped DEF FileOutcome, TypeOK

\* Taking an outcome of a write keeps the store typed.
LEMMA PersistOutcomeTyped ==
    ASSUME TypeOK, NEW o \in PersistResult, PersistOutcome(o)
    PROVE  /\ store' \in Store /\ disturbances' \in 0..MaxDisturbances
           /\ o.journal \in Journal
  <1>1. o.cost \in {0, 1} /\ o.store \in Store /\ o.journal \in Journal
    BY DEF PersistResult
  <1> QED
    BY <1>1, SpendTyped DEF PersistOutcome, TypeOK

\* A preparation step that runs a script keeps the types.
LEMMA ProvisionTyped ==
    ASSUME TypeOK, NEW here, NEW outcomes \in SUBSET Outcome, NEW next \in Steps,
           Provision(here, outcomes, next), exposed' \in BOOLEAN
    PROVE  TypeOK'
  <1>1. PICK o \in outcomes :
          /\ ScriptOutcome(outcomes, o)
          /\ IF o.ok THEN pc' = next /\ UNCHANGED journal ELSE AbandonPreparation
    BY DEF Provision
  <1>2. host' \in Host /\ disturbances' \in 0..MaxDisturbances
    BY <1>1, ScriptOutcomeTyped
  <1>3. pc' \in Steps /\ journal' \in Journal
    BY <1>1 DEF AbandonPreparation, TypeOK, Steps, StoppingSteps
  <1> QED
    BY <1>2, <1>3 DEF Provision, TypeOK

\* A preparation step that writes a generation keeps the types.
LEMMA TrackTyped ==
    ASSUME TypeOK, NEW here, NEW j \in Journal, NEW next \in Steps,
           Track(here, j, next), exposed' \in BOOLEAN
    PROVE  TypeOK'
  <1>1. PICK o \in PersistOutcomes(j, store) :
          /\ PersistOutcome(o)
          /\ IF o.ok
             THEN pc' = next /\ journal' = o.journal /\ tracked' = o.journal
             ELSE AbandonPreparation /\ UNCHANGED tracked
    BY DEF Track
  <1>2. o \in PersistResult
    BY PersistTyped DEF TypeOK
  <1>3. /\ store' \in Store /\ disturbances' \in 0..MaxDisturbances
        /\ o.journal \in Journal
    BY <1>1, <1>2, PersistOutcomeTyped
  <1>4. pc' \in Steps /\ journal' \in Journal /\ tracked' \in Journal
    BY <1>1, <1>3 DEF AbandonPreparation, TypeOK, Steps, StoppingSteps
  <1> QED
    BY <1>3, <1>4 DEF Track, TypeOK

\* An execution step that runs a script keeps the types.
LEMMA RunScriptTyped ==
    ASSUME TypeOK, NEW here, NEW outcomes \in SUBSET Outcome,
           NEW ok \in Steps, NEW failed \in Steps,
           RunScript(here, outcomes, ok, failed), exposed' \in BOOLEAN
    PROVE  TypeOK'
  <1>1. PICK o \in outcomes :
          ScriptOutcome(outcomes, o) /\ pc' = IF o.ok THEN ok ELSE failed
    BY DEF RunScript
  <1>2. host' \in Host /\ disturbances' \in 0..MaxDisturbances
    BY <1>1, ScriptOutcomeTyped
  <1> QED
    BY <1>1, <1>2 DEF RunScript, TypeOK

\* An execution step that writes a generation keeps the types.
LEMMA RecordTyped ==
    ASSUME TypeOK, NEW here, NEW j \in Journal, NEW ok \in Steps, NEW failed \in Steps,
           Record(here, j, ok, failed), exposed' \in BOOLEAN
    PROVE  TypeOK'
  <1>1. PICK o \in PersistOutcomes(j, store) :
          PersistOutcome(o) /\ journal' = o.journal /\ pc' = IF o.ok THEN ok ELSE failed
    BY DEF Record
  <1>2. o \in PersistResult
    BY PersistTyped DEF TypeOK
  <1>3. /\ store' \in Store /\ disturbances' \in 0..MaxDisturbances
        /\ journal' \in Journal
    BY <1>1, <1>2, PersistOutcomeTyped
  <1> QED
    BY <1>1, <1>3 DEF Record, TypeOK

\* A cleanup step that reports its failure keeps the types.
LEMMA ReconcileTyped ==
    ASSUME TypeOK, NEW here, NEW outcomes \in SUBSET Outcome, NEW done \in Journal,
           NEW failed \in Report, NEW next \in Steps,
           Reconcile(here, outcomes, done, failed, next), exposed' \in BOOLEAN
    PROVE  TypeOK'
  <1>1. PICK o \in outcomes :
          /\ ScriptOutcome(outcomes, o)
          /\ journal' = IF o.ok THEN done ELSE journal
          /\ report' = IF o.ok THEN report ELSE failed
    BY DEF Reconcile
  <1>2. host' \in Host /\ disturbances' \in 0..MaxDisturbances
    BY <1>1, ScriptOutcomeTyped
  <1> QED
    BY <1>1, <1>2 DEF Reconcile, TypeOK

\* Whatever cleanup reports is a report.
LEMMA ReportTyped ==
    ASSUME TypeOK
    PROVE  /\ NoReport \in Report /\ OpenReport \in Report
           /\ \A kinds \in SUBSET Leftovers : Retaining(kinds) \in Report
           /\ Warning \in Report
           /\ \A o : RecordedPersist(o) \in Report
           /\ RetainedWithVm \in SUBSET Leftovers
  <1>1. NoReport \in Report /\ OpenReport \in Report
    BY DEF NoReport, OpenReport, Report
  <1>2. \A kinds \in SUBSET Leftovers : Retaining(kinds) \in Report
    BY DEF TypeOK, Report, Retaining
  <1>3. Warning \in Report
    BY <1>2 DEF Warning
  <1>4. \A o : RecordedPersist(o) \in Report
    BY <1>2 DEF TypeOK, RecordedPersist, Leftovers
  <1>5. RetainedWithVm \in SUBSET Leftovers
    BY DEF RetainedWithVm, Leftovers
  <1> QED
    BY <1>1, <1>2, <1>3, <1>4, <1>5

\* Every edit the run makes to its journal yields a journal.
LEMMA JournalEdits ==
    ASSUME NEW j \in Journal
    PROVE  /\ \A x \in NetworkRecords : [j EXCEPT !.network = x] \in Journal
           /\ \A x \in DataDiskStates : [j EXCEPT !.data = x] \in Journal
           /\ \A x \in Phases : [j EXCEPT !.phase = x] \in Journal
           /\ \A x \in BOOLEAN : /\ [j EXCEPT !.vm = x] \in Journal
                                 /\ [j EXCEPT !.osDisk = x] \in Journal
                                 /\ [j EXCEPT !.osId = x] \in Journal
           /\ [j EXCEPT !.vm = TRUE, !.phase = "vm_created"] \in Journal
           /\ [j EXCEPT !.osDisk = FALSE, !.osId = FALSE] \in Journal
           /\ NewJournal \in Journal
  <1>1. NewJournal \in Journal
    BY MaxSequenceAssumption
       DEF NewJournal, Journal, Phases, DataDiskStates, NetworkRecords
  <1>2. [j EXCEPT !.vm = TRUE, !.phase = "vm_created"] \in Journal
    BY DEF Journal, Phases
  <1>3. [j EXCEPT !.osDisk = FALSE, !.osId = FALSE] \in Journal
    BY DEF Journal
  <1> QED
    BY <1>1, <1>2, <1>3 DEF Journal

\* Every preparation step keeps the types.
LEMMA PrepareTyped ==
    ASSUME TypeOK, Prepare, exposed' \in BOOLEAN
    PROVE  TypeOK'
  <1>1. mode \in Modes /\ host \in Host /\ journal \in Journal
    BY DEF TypeOK
  <1>2. \A s \in PrepareSteps : s \in Steps
    BY DEF Steps
  <1>3. "verify_before_start" \in Steps
    BY DEF Steps, ExecuteSteps
  <1>4. CASE CreateJournal
    <2>1. (IF mode = "deny_all" THEN "plan_os_disk" ELSE "reserve_address") \in Steps
      BY <1>2 DEF PrepareSteps
    <2> QED
      BY <1>1, <1>4, <2>1, TrackTyped DEF CreateJournal
  <1>5. CASE ReserveAddress
    <2>1. PICK o \in AllocateLease(host) :
            /\ FileOutcome(o)
            /\ IF o.ok THEN pc' = "journal_lease" /\ UNCHANGED journal ELSE AbandonPreparation
      BY <1>5 DEF ReserveAddress
    <2>2. o \in Outcome
      BY <1>1, NetworkOperationsTyped
    <2>3. host' \in Host /\ disturbances' \in 0..MaxDisturbances
      BY <2>1, <2>2, FileOutcomeTyped
    <2>4. pc' \in Steps /\ journal' \in Journal
      BY <2>1 DEF AbandonPreparation, TypeOK, Steps, PrepareSteps, StoppingSteps
    <2> QED
      BY <1>5, <2>3, <2>4 DEF ReserveAddress, TypeOK
  <1>6. CASE JournalLease
    <2>1. [journal EXCEPT !.network = "lease"] \in Journal /\ "plan_os_disk" \in Steps
      BY <1>1, <1>2, JournalEdits DEF PrepareSteps, NetworkRecords
    <2> QED
      BY <1>6, <2>1, TrackTyped DEF JournalLease
  <1>7. CASE PlanOsDisk
    <2>1. [journal EXCEPT !.osDisk = TRUE] \in Journal /\ "create_os_disk" \in Steps
      BY <1>1, <1>2, JournalEdits DEF PrepareSteps
    <2> QED
      BY <1>7, <2>1, TrackTyped DEF PlanOsDisk
  <1>8. CASE ProvisionOsDisk
    <2>1. CreateOsDisk(host) \in SUBSET Outcome /\ "journal_os_identity" \in Steps
      BY <1>1, <1>2, DiskOperationsTyped DEF PrepareSteps
    <2> QED
      BY <1>8, <2>1, ProvisionTyped DEF ProvisionOsDisk
  <1>9. CASE JournalOsIdentity
    <2>1. /\ [journal EXCEPT !.osId = (host.osDisk = "identified")] \in Journal
          /\ "plan_data_disk" \in Steps
      BY <1>1, <1>2, JournalEdits DEF PrepareSteps
    <2> QED
      BY <1>9, <2>1, TrackTyped DEF JournalOsIdentity
  <1>10. CASE PlanDataDisk
    <2>1. [journal EXCEPT !.data = "planned"] \in Journal /\ "create_data_disk" \in Steps
      BY <1>1, <1>2, JournalEdits DEF PrepareSteps, DataDiskStates
    <2> QED
      BY <1>10, <2>1, TrackTyped DEF PlanDataDisk
  <1>11. CASE ProvisionDataDisk
    <2>1. CreateDataDisk(host) \in SUBSET Outcome /\ "journal_data_mounted" \in Steps
      BY <1>1, <1>2, DiskOperationsTyped DEF PrepareSteps
    <2> QED
      BY <1>11, <2>1, ProvisionTyped DEF ProvisionDataDisk
  <1>12. CASE JournalDataMounted
    <2>1. [journal EXCEPT !.data = "mounted"] \in Journal /\ "stage_and_dismount" \in Steps
      BY <1>1, <1>2, JournalEdits DEF PrepareSteps, DataDiskStates
    <2> QED
      BY <1>12, <2>1, TrackTyped DEF JournalDataMounted
  <1>13. CASE StageAndDismount
    <2>1. DismountDataDisk(host) \in SUBSET Outcome /\ "journal_data_detached" \in Steps
      BY <1>1, <1>2, DiskOperationsTyped DEF PrepareSteps
    <2> QED
      BY <1>13, <2>1, ProvisionTyped DEF StageAndDismount
  <1>14. CASE JournalDataDetached
    <2>1. [journal EXCEPT !.data = "detached"] \in Journal /\ "create_vm" \in Steps
      BY <1>1, <1>2, JournalEdits DEF PrepareSteps, DataDiskStates
    <2> QED
      BY <1>14, <2>1, TrackTyped DEF JournalDataDetached
  <1>15. CASE ProvisionVm
    <2>1. CreateVm(host) \in SUBSET Outcome /\ "journal_vm" \in Steps
      BY <1>1, <1>2, VmOperationsTyped DEF PrepareSteps
    <2> QED
      BY <1>15, <2>1, ProvisionTyped DEF ProvisionVm
  <1>16. CASE JournalVm
    <2>1. /\ [journal EXCEPT !.vm = TRUE, !.phase = "vm_created"] \in Journal
          /\ "attach_disks" \in Steps
      BY <1>1, <1>2, JournalEdits DEF PrepareSteps
    <2> QED
      BY <1>16, <2>1, TrackTyped DEF JournalVm
  <1>17. CASE AttachRunDisks
    <2>1. /\ AttachDisks(host) \in SUBSET Outcome
          /\ (IF mode = "deny_all" THEN "configure_network" ELSE "prepare_adapter") \in Steps
      BY <1>1, <1>2, VmOperationsTyped DEF PrepareSteps
    <2> QED
      BY <1>17, <2>1, ProvisionTyped DEF AttachRunDisks
  <1>18. CASE PrepareControlledAdapter
    <2>1. PrepareAdapter(host) \in SUBSET Outcome /\ "journal_network" \in Steps
      BY <1>1, <1>2, NetworkOperationsTyped DEF PrepareSteps
    <2> QED
      BY <1>18, <2>1, ProvisionTyped DEF PrepareControlledAdapter
  <1>19. CASE JournalNetwork
    <2>1. [journal EXCEPT !.network = "owned"] \in Journal /\ "configure_network" \in Steps
      BY <1>1, <1>2, JournalEdits DEF PrepareSteps, NetworkRecords
    <2> QED
      BY <1>19, <2>1, TrackTyped DEF JournalNetwork
  <1>20. CASE Configure
    <2>1. ConfigureNetwork(mode, host) \in SUBSET Outcome /\ "verify_prepared" \in Steps
      BY <1>1, <1>2, NetworkOperationsTyped DEF PrepareSteps
    <2> QED
      BY <1>20, <2>1, ProvisionTyped DEF Configure
  <1>21. CASE VerifyPrepared
    <2>1. VerifyNetwork(mode, host) \in SUBSET Outcome /\ "journal_ready" \in Steps
      BY <1>1, <1>2, NetworkOperationsTyped DEF PrepareSteps
    <2> QED
      BY <1>21, <2>1, ProvisionTyped DEF VerifyPrepared
  <1>22. CASE JournalReady
    BY <1>1, <1>3, <1>22, TrackTyped DEF JournalReady
  <1> QED
    BY <1>4, <1>5, <1>6, <1>7, <1>8, <1>9, <1>10, <1>11, <1>12, <1>13, <1>14, <1>15,
       <1>16, <1>17, <1>18, <1>19, <1>20, <1>21, <1>22 DEF Prepare

\* Every execution step keeps the types.
LEMMA ExecuteTyped ==
    ASSUME TypeOK, Execute, exposed' \in BOOLEAN
    PROVE  TypeOK'
  <1>1. mode \in Modes /\ host \in Host /\ journal \in Journal
    BY DEF TypeOK
  <1>2. \A s \in ExecuteSteps : s \in Steps
    BY DEF Steps
  <1>3. "begin_cleanup" \in Steps
    BY DEF Steps, StoppingSteps
  <1>4. CollectionEnd \in Steps
    BY <1>2, <1>3 DEF CollectionEnd, ExecuteSteps
  <1>5. CASE VerifyBeforeStart
    <2>1. VerifyNetwork(mode, host) \in SUBSET Outcome /\ "start_vm" \in Steps
      BY <1>1, <1>2, NetworkOperationsTyped DEF ExecuteSteps
    <2> QED
      BY <1>3, <1>5, <2>1, RunScriptTyped DEF VerifyBeforeStart
  <1>6. CASE Start
    <2>1. StartVm(host) \in SUBSET Outcome /\ "journal_running" \in Steps
      BY <1>1, <1>2, VmOperationsTyped DEF ExecuteSteps
    <2> QED
      BY <1>3, <1>6, <2>1, RunScriptTyped DEF Start
  <1>7. CASE JournalRunning
    <2>1. [journal EXCEPT !.phase = "running"] \in Journal /\ "observe" \in Steps
      BY <1>1, <1>2, JournalEdits DEF ExecuteSteps, Phases
    <2> QED
      BY <1>3, <1>7, <2>1, RecordTyped DEF JournalRunning
  <1>8. CASE WaitForCompletion
    <2>1. PoweredOff(host) \in Host
      BY <1>1, VmOperationsTyped
    <2>2. host' \in Host
      BY <1>1, <1>8, <2>1 DEF WaitForCompletion, ObservePoweredOff, ObserveTimedOut,
         ObserveQuota, ObserveError, WatcherStopped
    <2>3. disturbances' \in 0..MaxDisturbances
      <3>1. PICK cost \in {0, 1} : Spend(cost)
        BY <1>8 DEF WaitForCompletion, ObservePoweredOff, ObserveTimedOut,
           ObserveQuota, ObserveError
      <3> QED
        BY <3>1, SpendTyped DEF TypeOK
    <2>4. completion' \in Completions /\ pc' \in Steps
      BY <1>2, <1>8 DEF WaitForCompletion, ObservePoweredOff, ObserveTimedOut, ObserveQuota,
         ObserveError, Completions, ExecuteSteps, TypeOK
    <2> QED
      BY <1>8, <2>2, <2>3, <2>4 DEF WaitForCompletion, TypeOK
  <1>9. CASE StopAfterError
    <2>1. StopVm(host) \in SUBSET Outcome
      BY <1>1, VmOperationsTyped
    <2> QED
      BY <1>3, <1>9, <2>1, RunScriptTyped DEF StopAfterError
  <1>10. CASE ForceStop
    <2>1. StopVm(host) \in SUBSET Outcome /\ "collect_mount" \in Steps
      BY <1>1, <1>2, VmOperationsTyped DEF ExecuteSteps
    <2> QED
      BY <1>10, <2>1, RunScriptTyped DEF ForceStop
  <1>11. CASE VerifyAfter
    <2>1. PICK o \in VerifyNetwork(mode, host) :
            /\ ScriptOutcome(VerifyNetwork(mode, host), o)
            /\ pc' = IF o.ok /\ completion = "powered_off"
                     THEN "collect_mount" ELSE "begin_cleanup"
            /\ accepted' = (o.ok /\ completion = "timed_out")
      BY <1>11 DEF VerifyAfter
    <2>2. VerifyNetwork(mode, host) \in SUBSET Outcome
      BY <1>1, NetworkOperationsTyped
    <2>3. host' \in Host /\ disturbances' \in 0..MaxDisturbances
      BY <2>1, <2>2, ScriptOutcomeTyped
    <2>4. pc' \in Steps
      BY <1>2, <1>3, <2>1 DEF ExecuteSteps
    <2>5. accepted' \in BOOLEAN
      BY <2>1
    <2> QED
      BY <1>11, <2>3, <2>4, <2>5 DEF VerifyAfter, TypeOK
  <1>12. CASE CollectMount
    <2>1. MountDataDisk(host) \in SUBSET Outcome /\ "journal_collect_mount" \in Steps
      BY <1>1, <1>2, DiskOperationsTyped DEF ExecuteSteps
    <2> QED
      BY <1>4, <1>12, <2>1, RunScriptTyped DEF CollectMount
  <1>13. CASE JournalCollectMount
    <2>1. [journal EXCEPT !.data = "mounted"] \in Journal /\ "collect_dismount" \in Steps
      BY <1>1, <1>2, JournalEdits DEF ExecuteSteps, DataDiskStates
    <2> QED
      BY <1>4, <1>13, <2>1, RecordTyped DEF JournalCollectMount
  <1>14. CASE CollectDismount
    <2>1. PICK o \in DismountDataDisk(host) :
            /\ ScriptOutcome(DismountDataDisk(host), o)
            /\ journal' = IF o.ok THEN [journal EXCEPT !.data = "detached"] ELSE journal
      BY <1>14 DEF CollectDismount
    <2>2. DismountDataDisk(host) \in SUBSET Outcome
      BY <1>1, DiskOperationsTyped
    <2>3. host' \in Host /\ disturbances' \in 0..MaxDisturbances
      BY <2>1, <2>2, ScriptOutcomeTyped
    <2>4. journal' \in Journal /\ "journal_collect_dismount" \in Steps
      BY <1>1, <1>2, <2>1, JournalEdits DEF ExecuteSteps, DataDiskStates
    <2> QED
      BY <1>14, <2>3, <2>4 DEF CollectDismount, TypeOK
  <1>15. CASE JournalCollectDismount
    <2>1. PICK o \in PersistOutcomes(journal, store) :
            /\ PersistOutcome(o)
            /\ journal' = o.journal
            /\ accepted' \in {FALSE, completion = "powered_off" /\ o.ok
                                       /\ journal.data = "detached"}
      BY <1>15 DEF JournalCollectDismount
    <2>2. o \in PersistResult
      BY PersistTyped DEF TypeOK
    <2>3. /\ store' \in Store /\ disturbances' \in 0..MaxDisturbances
          /\ journal' \in Journal
      BY <2>1, <2>2, PersistOutcomeTyped
    <2>4. accepted' \in BOOLEAN
      BY <2>1
    <2> QED
      BY <1>4, <1>15, <2>3, <2>4 DEF JournalCollectDismount, TypeOK
  <1> QED
    BY <1>5, <1>6, <1>7, <1>8, <1>9, <1>10, <1>11, <1>12, <1>13, <1>14, <1>15 DEF Execute

\* The process ends with a fresh memory, which is typed.
LEMMA ExitTyped ==
    ASSUME TypeOK, Exit, mode' = mode, host' \in Host, store' \in Store,
           report' \in Report, disturbances' \in 0..MaxDisturbances, exposed' \in BOOLEAN
    PROVE  TypeOK'
  <1>1. NewJournal \in Journal
    BY JournalEdits DEF TypeOK
  <1> QED
    BY <1>1 DEF Exit, TypeOK, Steps, Completions

\* Every cleanup step keeps the types.
LEMMA CleanTyped ==
    ASSUME TypeOK, Clean, exposed' \in BOOLEAN
    PROVE  TypeOK'
  <1>1. mode \in Modes /\ host \in Host /\ journal \in Journal /\ report \in Report
    BY DEF TypeOK
  <1>2. /\ \A s \in ReclaimSteps : s \in Steps
        /\ \A s \in StoppingSteps : s \in Steps
        /\ "finish" \in Steps
    BY DEF Steps
  <1>3. /\ Warning \in Report
        /\ Retaining({"network"}) \in Report /\ Retaining({"data_disk"}) \in Report
        /\ Retaining({"os_disk"}) \in Report /\ Retaining({"run_root"}) \in Report
        /\ Retaining(RetainedWithVm) \in Report
        /\ \A o : RecordedPersist(o) \in Report
    BY ReportTyped DEF Leftovers
  <1>4. CASE BeginCleanup
    <2>1. CASE journal.seq = 0
      <3>1. [OpenReport EXCEPT !.status = "success"] \in Report
        BY DEF OpenReport, Report
      <3> QED
        BY <1>4, <2>1, <3>1, ExitTyped DEF BeginCleanup, TypeOK
    <2>2. CASE journal.seq # 0
      <3>1. NewJournal \in Journal /\ OpenReport \in Report
        BY <1>1, JournalEdits, ReportTyped
      <3> QED
        BY <1>2, <1>4, <2>2, <3>1 DEF BeginCleanup, TypeOK, StoppingSteps, Completions
    <2> QED
      BY <2>1, <2>2
  <1>5. CASE RefuseCleanup
    <2>1. [Retaining({"run_root"}) EXCEPT !.status = "failure"] \in Report
      BY <1>3 DEF Report
    <2>2. disturbances' \in 0..MaxDisturbances
      BY <1>5, SpendTyped DEF RefuseCleanup, TypeOK
    <2> QED
      BY <1>5, <2>1, <2>2, ExitTyped DEF RefuseCleanup, TypeOK
  <1>6. CASE StartCleanup
    <2> DEFINE j == [journal EXCEPT !.phase = "cleaning"]
    <2>1. PICK o \in PersistOutcomes(j, store) :
            PersistOutcome(o) /\ journal' = o.journal /\ report' = RecordedPersist(o)
      BY <1>6 DEF StartCleanup
    <2>2. j \in Journal
      BY <1>1, JournalEdits DEF Phases
    <2> HIDE DEF j
    <2>3. o \in PersistResult
      BY <2>2, PersistTyped DEF TypeOK
    <2>4. /\ store' \in Store /\ disturbances' \in 0..MaxDisturbances
          /\ journal' \in Journal
      BY <2>1, <2>3, PersistOutcomeTyped
    <2>5. pc' \in Steps /\ report' \in Report
      BY <1>2, <1>3, <1>6, <2>1 DEF StartCleanup, StoppingSteps
    <2> QED
      BY <1>6, <2>4, <2>5 DEF StartCleanup, TypeOK
  <1>7. CASE StopVmForCleanup
    <2>1. StopVm(host) \in SUBSET Outcome /\ "detach_disks" \in Steps
      BY <1>1, <1>2, VmOperationsTyped DEF StoppingSteps
    <2> QED
      BY <1>1, <1>3, <1>7, <2>1, ReconcileTyped DEF StopVmForCleanup
  <1>8. CASE DetachForCleanup
    <2>1. DetachDisks(host) \in SUBSET Outcome /\ "remove_vm" \in Steps
      BY <1>1, <1>2, VmOperationsTyped DEF StoppingSteps
    <2> QED
      BY <1>1, <1>3, <1>8, <2>1, ReconcileTyped DEF DetachForCleanup
  <1>9. CASE RemoveTheVm
    <2>1. PICK o \in RemoveVm(host) :
            /\ ScriptOutcome(RemoveVm(host), o)
            /\ IF o.ok
               THEN /\ journal' = [journal EXCEPT !.vm = FALSE]
                    /\ report' = report
                    /\ pc' = CASE journal.network = "owned" -> "finish_capture"
                               [] journal.network = "lease" -> "release_lease"
                               [] journal.network = "none"  -> "dismount_data"
               ELSE /\ journal' = journal
                    /\ report' = Retaining(RetainedWithVm)
                    /\ pc' = "finish"
      BY <1>9 DEF RemoveTheVm
    <2>2. RemoveVm(host) \in SUBSET Outcome
      BY <1>1, VmOperationsTyped
    <2>3. host' \in Host /\ disturbances' \in 0..MaxDisturbances
      BY <2>1, <2>2, ScriptOutcomeTyped
    <2>4. journal.network \in {"none", "lease", "owned"}
      BY <1>1 DEF Journal, NetworkRecords
    <2>5. pc' \in Steps
      BY <1>2, <2>1, <2>4 DEF ReclaimSteps
    <2>6. journal' \in Journal /\ report' \in Report
      BY <1>1, <1>3, <2>1, JournalEdits
    <2> QED
      BY <1>9, <2>3, <2>5, <2>6 DEF RemoveTheVm, TypeOK
  <1>10. CASE FinishCapture
    <2>1. StopCapture(host) \in SUBSET Outcome /\ "remove_controls" \in Steps
      BY <1>1, <1>2, NetworkOperationsTyped DEF ReclaimSteps
    <2> QED
      BY <1>1, <1>10, <2>1, ReconcileTyped DEF FinishCapture
  <1>11. CASE RemoveControls
    <2>1. PICK o \in RemoveHostControls(mode, host) :
            /\ ScriptOutcome(RemoveHostControls(mode, host), o)
            /\ IF o.ok THEN pc' = "release_lease" /\ UNCHANGED report
               ELSE pc' = "dismount_data" /\ report' = Retaining({"network"})
      BY <1>11 DEF RemoveControls
    <2>2. RemoveHostControls(mode, host) \in SUBSET Outcome
      BY <1>1, NetworkOperationsTyped
    <2>3. host' \in Host /\ disturbances' \in 0..MaxDisturbances
      BY <2>1, <2>2, ScriptOutcomeTyped
    <2>4. pc' \in Steps /\ report' \in Report
      BY <1>1, <1>2, <1>3, <2>1 DEF ReclaimSteps
    <2> QED
      BY <1>11, <2>3, <2>4 DEF RemoveControls, TypeOK
  <1>12. CASE ReleaseAddress
    <2>1. PICK o \in ReleaseLease(host) :
            /\ FileOutcome(o)
            /\ IF o.ok
               THEN /\ pc' = "journal_released" /\ UNCHANGED report
                    /\ journal' = [journal EXCEPT !.network = "none"]
               ELSE /\ pc' = "dismount_data" /\ UNCHANGED journal
                    /\ report' = Retaining({"network"})
      BY <1>12 DEF ReleaseAddress
    <2>2. o \in Outcome
      BY <1>1, NetworkOperationsTyped
    <2>3. host' \in Host /\ disturbances' \in 0..MaxDisturbances
      BY <2>1, <2>2, FileOutcomeTyped
    <2>4. pc' \in Steps /\ report' \in Report /\ journal' \in Journal
      BY <1>1, <1>2, <1>3, <2>1, JournalEdits DEF ReclaimSteps, NetworkRecords
    <2> QED
      BY <1>12, <2>3, <2>4 DEF ReleaseAddress, TypeOK
  <1>13. CASE JournalReleased
    <2>1. PICK o \in PersistOutcomes(journal, store) :
            PersistOutcome(o) /\ journal' = o.journal /\ report' = RecordedPersist(o)
      BY <1>13 DEF JournalReleased
    <2>2. o \in PersistResult
      BY PersistTyped DEF TypeOK
    <2>3. /\ store' \in Store /\ disturbances' \in 0..MaxDisturbances
          /\ journal' \in Journal
      BY <2>1, <2>2, PersistOutcomeTyped
    <2>4. pc' \in Steps /\ report' \in Report
      BY <1>2, <1>3, <1>13, <2>1 DEF JournalReleased, ReclaimSteps
    <2> QED
      BY <1>13, <2>3, <2>4 DEF JournalReleased, TypeOK
  <1>14. CASE DismountData
    <2>1. ReconcileMount(journal, host) \in SUBSET Outcome
      <3>1. journal.data \in {"none", "planned", "mounted", "detached"}
        BY <1>1 DEF Journal, DataDiskStates
      <3>2. DismountDataDisk(host) \in SUBSET Outcome
        BY <1>1, DiskOperationsTyped
      <3> QED
        BY <1>1, <3>1, <3>2, OutcomesTyped DEF ReconcileMount
    <2>2. /\ (IF journal.data = "mounted"
              THEN [journal EXCEPT !.data = "detached"] ELSE journal) \in Journal
          /\ "delete_data" \in Steps
      BY <1>1, <1>2, JournalEdits DEF DataDiskStates, ReclaimSteps
    <2> QED
      BY <1>3, <1>14, <2>1, <2>2, ReconcileTyped DEF DismountData
  <1>15. CASE DeleteData
    <2>1. DeleteDataDisk(host, DataIdentified(journal)) \in SUBSET Outcome
      <3>1. DataIdentified(journal) \in BOOLEAN
        BY DEF DataIdentified
      <3> QED
        BY <1>1, <3>1, DiskOperationsTyped
    <2>2. (IF journal.data = "none" THEN {Done(host)}
           ELSE DeleteDataDisk(host, DataIdentified(journal))) \in SUBSET Outcome
      BY <1>1, <2>1, OutcomesTyped
    <2>3. [journal EXCEPT !.data = "none"] \in Journal /\ "delete_os" \in Steps
      BY <1>1, <1>2, JournalEdits DEF DataDiskStates, ReclaimSteps
    <2> QED
      BY <1>3, <1>15, <2>2, <2>3, ReconcileTyped DEF DeleteData
  <1>16. CASE DeleteOs
    <2>1. journal.osId \in BOOLEAN
      BY <1>1 DEF Journal
    <2>2. DeleteOsDisk(host, journal.osId) \in SUBSET Outcome
      BY <1>1, <2>1, DiskOperationsTyped
    <2>3. (IF ~journal.osDisk THEN {Done(host)}
           ELSE DeleteOsDisk(host, journal.osId)) \in SUBSET Outcome
      BY <1>1, <2>2, OutcomesTyped
    <2>4. [journal EXCEPT !.osDisk = FALSE, !.osId = FALSE] \in Journal
      BY <1>1, JournalEdits
    <2> QED
      BY <1>2, <1>3, <1>16, <2>3, <2>4, ReconcileTyped DEF DeleteOs
  <1>17. CASE FinishCleanup
    <2> DEFINE j == [journal EXCEPT !.phase = FinishedPhase(report)]
    <2>1. PICK o \in PersistOutcomes(j, store) :
            /\ PersistOutcome(o)
            /\ report' = [RecordedPersist(o) EXCEPT
                            !.status = IF NothingReported(RecordedPersist(o))
                                       THEN "success" ELSE "failure"]
      BY <1>17 DEF FinishCleanup
    <2>2. j \in Journal
      BY <1>1, JournalEdits DEF FinishedPhase, Phases
    <2> HIDE DEF j
    <2>3. o \in PersistResult
      BY <2>2, PersistTyped DEF TypeOK
    <2>4. store' \in Store /\ disturbances' \in 0..MaxDisturbances
      BY <2>1, <2>3, PersistOutcomeTyped
    <2>5. report' \in Report
      BY <1>3, <2>1 DEF Report
    <2> QED
      BY <1>1, <1>17, <2>4, <2>5, ExitTyped DEF FinishCleanup
  <1> QED
    BY <1>4, <1>5, <1>6, <1>7, <1>8, <1>9, <1>10, <1>11, <1>12, <1>13, <1>14, <1>15,
       <1>16, <1>17 DEF Clean

\* Recovery starts from the typed journal it reads.
LEMMA RecoverTyped ==
    ASSUME TypeOK, Recover, exposed' \in BOOLEAN
    PROVE  TypeOK'
  <1>1. store.latest \in Journal /\ OpenReport \in Report /\ "start_cleanup" \in Steps
    BY ReportTyped DEF TypeOK, Store, Steps, StoppingSteps
  <1> QED
    BY <1>1 DEF Recover, TypeOK

\* Every step of the environment keeps the types.
LEMMA EnvironmentTyped ==
    ASSUME TypeOK, Environment, exposed' \in BOOLEAN
    PROVE  TypeOK'
  <1>1. host \in Host /\ NoReport \in Report /\ store \in Store
    BY ReportTyped DEF TypeOK
  <1>2. ASSUME Spend(1) PROVE disturbances' \in 0..MaxDisturbances
    BY <1>2, SpendTyped DEF TypeOK
  <1>3. CASE ControlsDrift
    <2>1. host' \in Host
      BY <1>1, <1>3, HostFields DEF ControlsDrift
    <2> QED
      BY <1>2, <1>3, <2>1 DEF ControlsDrift, TypeOK
  <1>4. CASE GuestPowersOff
    <2>1. host' \in Host
      BY <1>1, <1>4, VmOperationsTyped DEF GuestPowersOff
    <2> QED
      BY <1>4, <2>1 DEF GuestPowersOff, TypeOK
  <1>5. CASE Interrupt
    BY <1>2, <1>5 DEF Interrupt, TypeOK
  <1>6. CASE ProcessCrash
    BY <1>1, <1>2, <1>6, ExitTyped DEF ProcessCrash
  <1>7. CASE HostReboot
    <2> DEFINE off == PoweredOff(host)
               disk(d) == IF d = "mounted" THEN "detached" ELSE d
    <2>1. off \in Host
      BY <1>1, VmOperationsTyped
    <2>2. PICK c \in {"absent", "stopped"} :
            host' = [off EXCEPT !.dataDisk = disk(@), !.capture = c]
      BY <1>7 DEF HostReboot, AfterReboot
    <2> HIDE DEF off
    <2>3. host' \in Host
      BY <2>1, <2>2 DEF Host
    <2> QED
      BY <1>1, <1>2, <1>7, <2>3, ExitTyped DEF HostReboot
  <1> QED
    BY <1>3, <1>4, <1>5, <1>6, <1>7 DEF Environment

\* The initial states are typed.
LEMMA InitTyped == Init => TypeOK
  <1> SUFFICES ASSUME Init PROVE TypeOK
    OBVIOUS
  <1>1. NewJournal \in Journal
    BY MaxSequenceAssumption
       DEF NewJournal, Journal, Phases, DataDiskStates, NetworkRecords
  <1>2. CleanHost \in Host /\ NoReport \in Report
    BY DEF CleanHost, Host, NoReport, Report
  <1>3. EmptyStore \in Store
    BY <1>1 DEF EmptyStore, Store
  <1>4. 0 \in 0..MaxDisturbances
    BY MaxDisturbancesAssumption
  <1> QED
    BY <1>1, <1>2, <1>3, <1>4 DEF Init, TypeOK, Steps, PrepareSteps, Completions

\* Every step, and every stutter, keeps the types.
LEMMA NextTyped == TypeOK /\ [Next]_vars => TypeOK'
  <1> SUFFICES ASSUME TypeOK, [Next]_vars PROVE TypeOK'
    OBVIOUS
  <1>1. ASSUME TrackExposure PROVE exposed' \in BOOLEAN
    BY <1>1 DEF TrackExposure
  <1>2. CASE UNCHANGED vars
    BY <1>2 DEF vars, TypeOK
  <1>3. CASE Process
    BY <1>1, <1>3, PrepareTyped, ExecuteTyped, CleanTyped DEF Process
  <1>4. CASE Recovery
    BY <1>1, <1>4, RecoverTyped DEF Recovery
  <1>5. CASE RecoverNothing
    BY <1>2, <1>5 DEF RecoverNothing
  <1>6. CASE Environment /\ TrackExposure
    BY <1>1, <1>6, EnvironmentTyped
  <1> QED
    BY <1>2, <1>3, <1>4, <1>5, <1>6 DEF Next

\* The run never leaves its states: in particular no journal, in memory or on disk,
\* is ever numbered beyond MAX_JOURNAL_SEQUENCE, whatever fails and however often
\* recovery is repeated.
THEOREM TypeCorrect == Spec => []TypeOK
  BY InitTyped, NextTyped, PTL DEF Spec

-----------------------------------------------------------------------------
\* The journal directory.

\* The generation recovery reads is a numbered file.  Without it a new generation
\* could have the number of the one it must follow.
LatestNamed == store.latest.seq \in store.names \cup {0}

Advances == store'.latest # store.latest => store'.latest.seq > store.latest.seq

\* A write leaves the newest generation or replaces it by a newer one.
LEMMA PersistAdvances ==
    ASSUME NEW j \in Journal, store \in Store, LatestNamed,
           NEW o \in PersistOutcomes(j, store), PersistOutcome(o)
    PROVE  Advances /\ LatestNamed'
  <1> DEFINE next == Numbered(j)
  <1>1. \/ o.store = store
        \/ /\ next.seq \notin store.names /\ j.seq < MaxSequence
           /\ o.store \in {TornWrite(next, store), Written(next, store)}
    BY MaxSequenceAssumption DEF PersistOutcomes, Journal
  <1>2. TornWrite(next, store) = [latest |-> store.latest,
                                  names |-> store.names \cup {next.seq}]
    BY DEF TornWrite, Store
  <1>3. /\ Written(next, store).latest = IF store.latest.seq > next.seq
                                         THEN store.latest ELSE next
        /\ Written(next, store).names = store.names \cup {next.seq}
    BY DEF Written, Later
  <1>4. /\ store.latest.seq \in Nat /\ next.seq \in Nat \ {0}
    BY MaxSequenceAssumption DEF Store, Journal, Numbered
  <1> HIDE DEF next
  <1>5. next.seq \notin store.names => next.seq # store.latest.seq
    BY <1>4 DEF LatestNamed
  <1>6. CASE o.store = store
    BY <1>6 DEF PersistOutcome, Advances, LatestNamed
  <1>7. CASE next.seq \notin store.names /\ o.store = TornWrite(next, store)
    BY <1>2, <1>7 DEF PersistOutcome, Advances, LatestNamed
  <1>8. CASE next.seq \notin store.names /\ o.store = Written(next, store)
    <2>1. store' = Written(next, store)
      BY <1>8 DEF PersistOutcome
    <2>2. CASE store.latest.seq > next.seq
      BY <1>3, <2>1, <2>2 DEF Advances, LatestNamed
    <2>3. CASE next.seq > store.latest.seq
      BY <1>3, <1>4, <2>1, <2>3 DEF Advances, LatestNamed
    <2> QED
      BY <1>4, <1>5, <1>8, <2>2, <2>3
  <1> QED
    BY <1>1, <1>6, <1>7, <1>8

\* Whatever writes fail or are torn, and however often recovery is repeated, the
\* generation that recovery reads is only ever replaced by a later one.
THEOREM JournalMonotone == Spec => JournalAdvances
  <1>1. TypeOK /\ LatestNamed /\ Next => Advances /\ LatestNamed'
    <2> SUFFICES ASSUME TypeOK, LatestNamed, Next PROVE Advances /\ LatestNamed'
      OBVIOUS
    <2>1. store \in Store /\ journal \in Journal
      BY DEF TypeOK
    <2>2. ASSUME store' = store PROVE Advances /\ LatestNamed'
      BY <2>2 DEF Advances, LatestNamed
    <2>3. ASSUME NEW here, NEW j \in Journal, NEW next, Track(here, j, next) PROVE Advances /\ LatestNamed'
      BY <2>1, <2>3, PersistAdvances DEF Track
    <2>4. ASSUME NEW here, NEW j \in Journal, NEW ok, NEW failed, Record(here, j, ok, failed)
          PROVE  Advances /\ LatestNamed'
      BY <2>1, <2>4, PersistAdvances DEF Record
    <2>5. CASE Prepare
      <3>1. CASE \/ CreateJournal \/ JournalLease \/ PlanOsDisk \/ JournalOsIdentity
                 \/ PlanDataDisk \/ JournalDataMounted \/ JournalDataDetached
                 \/ JournalVm \/ JournalNetwork \/ JournalReady
        <4>1. /\ [journal EXCEPT !.network = "lease"] \in Journal
              /\ [journal EXCEPT !.network = "owned"] \in Journal
              /\ [journal EXCEPT !.osDisk = TRUE] \in Journal
              /\ [journal EXCEPT !.osId = (host.osDisk = "identified")] \in Journal
              /\ [journal EXCEPT !.data = "planned"] \in Journal
              /\ [journal EXCEPT !.data = "mounted"] \in Journal
              /\ [journal EXCEPT !.data = "detached"] \in Journal
              /\ [journal EXCEPT !.vm = TRUE, !.phase = "vm_created"] \in Journal
          BY <2>1, JournalEdits DEF NetworkRecords, DataDiskStates
        <4> QED
          BY <2>1, <2>3, <3>1, <4>1 DEF CreateJournal, JournalLease, PlanOsDisk,
             JournalOsIdentity, PlanDataDisk, JournalDataMounted, JournalDataDetached,
             JournalVm, JournalNetwork, JournalReady
      <3>2. CASE \/ ReserveAddress \/ ProvisionOsDisk \/ ProvisionDataDisk
                 \/ StageAndDismount \/ ProvisionVm \/ AttachRunDisks
                 \/ PrepareControlledAdapter \/ Configure \/ VerifyPrepared
        BY <2>2, <3>2 DEF ReserveAddress, ProvisionOsDisk, ProvisionDataDisk,
           StageAndDismount, ProvisionVm, AttachRunDisks, PrepareControlledAdapter,
           Configure, VerifyPrepared, Provision
      <3> QED
        BY <2>5, <3>1, <3>2 DEF Prepare
    <2>6. CASE Execute
      <3>1. CASE JournalRunning \/ JournalCollectMount
        <4>1. /\ [journal EXCEPT !.phase = "running"] \in Journal
              /\ [journal EXCEPT !.data = "mounted"] \in Journal
          BY <2>1, JournalEdits DEF Phases, DataDiskStates
        <4> QED
          BY <2>4, <3>1, <4>1 DEF JournalRunning, JournalCollectMount
      <3>2. CASE JournalCollectDismount
        BY <2>1, <3>2, PersistAdvances DEF JournalCollectDismount
      <3>3. CASE \/ VerifyBeforeStart \/ Start \/ WaitForCompletion \/ StopAfterError
                 \/ ForceStop \/ VerifyAfter \/ CollectMount \/ CollectDismount
        BY <2>2, <3>3 DEF VerifyBeforeStart, Start, WaitForCompletion, StopAfterError,
           ForceStop, VerifyAfter, CollectMount, CollectDismount, RunScript
      <3> QED
        BY <2>6, <3>1, <3>2, <3>3 DEF Execute
    <2>7. CASE Clean
      <3>1. CASE StartCleanup
        <4>1. [journal EXCEPT !.phase = "cleaning"] \in Journal
          BY <2>1, JournalEdits DEF Phases
        <4> QED
          BY <2>1, <3>1, <4>1, PersistAdvances DEF StartCleanup
      <3>2. CASE JournalReleased
        BY <2>1, <3>2, PersistAdvances DEF JournalReleased
      <3>3. CASE FinishCleanup
        <4>1. [journal EXCEPT !.phase = FinishedPhase(report)] \in Journal
          BY <2>1, JournalEdits DEF FinishedPhase, Phases
        <4> QED
          BY <2>1, <3>3, <4>1, PersistAdvances DEF FinishCleanup
      <3>4. CASE \/ BeginCleanup \/ RefuseCleanup \/ StopVmForCleanup \/ DetachForCleanup
                 \/ RemoveTheVm \/ FinishCapture \/ RemoveControls \/ ReleaseAddress
                 \/ DismountData \/ DeleteData \/ DeleteOs
        BY <2>2, <3>4 DEF BeginCleanup, RefuseCleanup, StopVmForCleanup, DetachForCleanup,
           RemoveTheVm, FinishCapture, RemoveControls, ReleaseAddress, DismountData,
           DeleteData, DeleteOs, Reconcile
      <3> QED
        BY <2>7, <3>1, <3>2, <3>3, <3>4 DEF Clean
    <2>8. CASE Recover \/ RecoverNothing \/ Environment
      BY <2>2, <2>8 DEF Recover, RecoverNothing, Environment, ControlsDrift, GuestPowersOff,
         Interrupt, ProcessCrash, HostReboot, vars
    <2> QED
      BY <2>5, <2>6, <2>7, <2>8 DEF Next, Process, Recovery
  <1>2. Init => LatestNamed
    BY DEF Init, EmptyStore, NewJournal, LatestNamed
  <1>3. LatestNamed /\ UNCHANGED vars => LatestNamed'
    BY DEF vars, LatestNamed
  <1>4. TypeOK /\ LatestNamed /\ [Next]_vars => LatestNamed' /\ [Advances]_vars
    BY <1>1, <1>3
  <1> QED
    BY <1>2, <1>4, TypeCorrect, PTL DEF Spec, JournalAdvances, Advances

-----------------------------------------------------------------------------
(***************************************************************************)
(* Containment, the exchange disk and the order of teardown.  None of the  *)
(* three is inductive: a boot is contained because the attestation         *)
(* directly before it was, a teardown step is safe because the removal of  *)
(* the VM was confirmed before it, and what happens to the host in between *)
(* has to be ruled out step by step.  Secured says so in one inductive     *)
(* invariant.  From the same invariant: an accepted result stands for a    *)
(* run contained on both sides of its execution, also when the host        *)
(* drifts; and, when it does not drift, every step is a step of            *)
(* DisposableVm.                                                           *)
(***************************************************************************)


\* The steps between the checked dismount of the staged data disk and the boot.
DetachedSteps ==
    {"journal_data_detached", "create_vm", "journal_vm", "attach_disks", "prepare_adapter",
     "journal_network", "configure_network", "verify_prepared", "journal_ready",
     "verify_before_start", "start_vm"}

BeforeBoot == PrepareSteps \cup {"verify_before_start", "start_vm"}

Attested == MayDrift \/ Contained(mode, host)

\* The inductive invariant.
Secured ==
    /\ pc \in BeforeBoot => host.vm # "running"
    /\ pc = "start_vm" => Attested
    /\ host.vm = "running" => Attested
    /\ pc \in ReclaimSteps => host.vm = "absent"
    /\ pc \in DetachedSteps => host.dataDisk # "mounted"
    /\ host.vm = "running" => host.dataDisk # "mounted"
    /\ host.rule => mode = "host_server"

IInv == TypeOK /\ Secured

-----------------------------------------------------------------------------
\* What a step may do to the host.

\* Nothing that teardown takes away is taken away.
Keeps(h, g) ==
    /\ h.osDisk # "absent" => g.osDisk # "absent"
    /\ h.dataDisk # "absent" => g.dataDisk # "absent"
    /\ h.lease => g.lease
    /\ h.rule => g.rule

\* The VM is not started, and the host of a running guest is left as it is.
Undisturbed(h, g) ==
    /\ g.vm = "running" => g = h
    /\ g.rule => h.rule \/ mode = "host_server"

\* A preparation step leaves the VM off, removes nothing, mounts nothing behind
\* the checked dismount and reaches the boot only through the attestation.
PrepareEffect ==
    /\ mode' = mode
    /\ host'.vm # "running"
    /\ Keeps(host, host')
    /\ host'.rule => mode = "host_server"
    /\ pc' \in (BeforeBoot \ {"start_vm"}) \cup {"begin_cleanup"}
    /\ pc' \in DetachedSteps => host'.dataDisk # "mounted"

\* Writing and tracking a generation leaves the host alone.
LEMMA TrackEffect ==
    ASSUME IInv, NEW here \in BeforeBoot, NEW j, NEW next \in BeforeBoot \ {"start_vm"},
           Track(here, j, next),
           next \in DetachedSteps => here \in DetachedSteps
    PROVE  PrepareEffect
  BY DEF IInv, Secured, Track, AbandonPreparation, PrepareEffect, Keeps, DetachedSteps

\* A preparation script is safe when each of its outcomes is.
LEMMA ProvisionEffect ==
    ASSUME IInv, NEW here \in BeforeBoot, NEW outcomes, NEW next \in BeforeBoot \ {"start_vm"},
           Provision(here, outcomes, next),
           \A o \in outcomes :
              /\ o.host.vm # "running"
              /\ Keeps(host, o.host)
              /\ o.host.rule => host.rule \/ mode = "host_server"
              /\ o.ok /\ next \in DetachedSteps => o.host.dataDisk # "mounted"
    PROVE  PrepareEffect
  <1>1. PICK o \in outcomes :
          /\ ScriptOutcome(outcomes, o)
          /\ IF o.ok THEN pc' = next /\ UNCHANGED journal ELSE AbandonPreparation
    BY DEF Provision
  <1>2. host' = o.host /\ mode' = mode
    BY <1>1 DEF ScriptOutcome, Provision
  <1>3. pc' = "begin_cleanup" \/ (o.ok /\ pc' = next)
    BY <1>1 DEF AbandonPreparation
  <1>4. "begin_cleanup" \notin DetachedSteps
    BY DEF DetachedSteps
  <1> QED
    BY <1>2, <1>3, <1>4 DEF IInv, Secured, PrepareEffect

\* Every preparation step has the effect above.
LEMMA PrepareEffects ==
    ASSUME IInv, Prepare
    PROVE  PrepareEffect
  <1>1. host \in Host /\ mode \in Modes /\ Secured
    BY DEF IInv, TypeOK
  <1>2. /\ \A s \in PrepareSteps \cup {"verify_before_start"} :
              s \in BeforeBoot \ {"start_vm"}
        /\ DetachedSteps \subseteq BeforeBoot
    BY DEF BeforeBoot, PrepareSteps, DetachedSteps
  <1>3. pc \in BeforeBoot => host.vm # "running"
    BY <1>1 DEF Secured
  <1>4. pc \in DetachedSteps => host.dataDisk # "mounted"
    BY <1>1 DEF Secured
  <1>5. CASE CreateJournal
    BY <1>2, <1>5, TrackEffect DEF CreateJournal, PrepareSteps, DetachedSteps
  <1>6. CASE ReserveAddress
    <2>1. PICK o \in AllocateLease(host) :
            /\ FileOutcome(o)
            /\ IF o.ok THEN pc' = "journal_lease" /\ UNCHANGED journal ELSE AbandonPreparation
      BY <1>6 DEF ReserveAddress
    <2>2. /\ o.host.vm # "running" /\ Keeps(host, o.host)
          /\ o.host.rule => mode = "host_server"
      BY <1>1, <1>3, <1>6 DEF ReserveAddress, AllocateLease, Done, Broken, Keeps, Secured,
         Host, BeforeBoot, PrepareSteps
    <2>3. pc' \in {"journal_lease", "begin_cleanup"}
      BY <2>1 DEF AbandonPreparation
    <2> QED
      BY <1>6, <2>1, <2>2, <2>3 DEF ReserveAddress, FileOutcome, PrepareEffect, BeforeBoot,
         PrepareSteps, DetachedSteps
  <1>7. CASE JournalLease
    BY <1>2, <1>7, TrackEffect DEF JournalLease, PrepareSteps, DetachedSteps
  <1>8. CASE PlanOsDisk
    BY <1>2, <1>8, TrackEffect DEF PlanOsDisk, PrepareSteps, DetachedSteps
  <1>9. CASE ProvisionOsDisk
    <2>1. pc \in BeforeBoot /\ pc = "create_os_disk"
      BY <1>9 DEF ProvisionOsDisk, Provision, BeforeBoot, PrepareSteps
    <2>2. \A o \in CreateOsDisk(host) :
            o.host.vm # "running" /\ Keeps(host, o.host) /\ o.host.rule = host.rule
      BY <1>1, <1>3, <2>1 DEF CreateOsDisk, Script, Done, Refused, Broken, Keeps, Host
    <2> QED
      BY <1>2, <1>9, <2>1, <2>2, ProvisionEffect
         DEF ProvisionOsDisk, PrepareSteps, DetachedSteps
  <1>10. CASE JournalOsIdentity
    BY <1>2, <1>10, TrackEffect DEF JournalOsIdentity, PrepareSteps, DetachedSteps
  <1>11. CASE PlanDataDisk
    BY <1>2, <1>11, TrackEffect DEF PlanDataDisk, PrepareSteps, DetachedSteps
  <1>12. CASE ProvisionDataDisk
    <2>1. pc \in BeforeBoot /\ pc = "create_data_disk"
      BY <1>12 DEF ProvisionDataDisk, Provision, BeforeBoot, PrepareSteps
    <2>2. \A o \in CreateDataDisk(host) :
            o.host.vm # "running" /\ Keeps(host, o.host) /\ o.host.rule = host.rule
      BY <1>1, <1>3, <2>1 DEF CreateDataDisk, Script, Done, Refused, Broken, Keeps, Host
    <2> QED
      BY <1>2, <1>12, <2>1, <2>2, ProvisionEffect
         DEF ProvisionDataDisk, PrepareSteps, DetachedSteps
  <1>13. CASE JournalDataMounted
    BY <1>2, <1>13, TrackEffect DEF JournalDataMounted, PrepareSteps, DetachedSteps
  <1>14. CASE StageAndDismount
    <2>1. pc \in BeforeBoot /\ pc = "stage_and_dismount"
      BY <1>14 DEF StageAndDismount, Provision, BeforeBoot, PrepareSteps
    <2>2. \A o \in DismountDataDisk(host) :
            /\ o.host.vm # "running" /\ Keeps(host, o.host) /\ o.host.rule = host.rule
            /\ o.ok => o.host.dataDisk # "mounted"
      BY <1>1, <1>3, <2>1 DEF DismountDataDisk, Script, Done, Broken, Keeps, Host
    <2> QED
      BY <1>2, <1>14, <2>1, <2>2, ProvisionEffect DEF StageAndDismount, PrepareSteps
  <1>15. CASE JournalDataDetached
    BY <1>2, <1>15, TrackEffect DEF JournalDataDetached, PrepareSteps, DetachedSteps
  <1>16. CASE ProvisionVm
    <2>1. pc \in BeforeBoot /\ pc \in DetachedSteps /\ pc = "create_vm"
      BY <1>16 DEF ProvisionVm, Provision, BeforeBoot, PrepareSteps, DetachedSteps
    <2>2. \A o \in CreateVm(host) :
            /\ o.host.vm # "running" /\ Keeps(host, o.host) /\ o.host.rule = host.rule
            /\ o.host.dataDisk = host.dataDisk
      <3> DEFINE created == [host EXCEPT !.vm = "off", !.nic = "default"]
      <3>1. \A o \in CreateVm(host) : o.host = host \/ o.host = created
        BY DEF CreateVm, Script, Done, Refused, Broken
      <3>2. /\ created.vm = "off" /\ created.rule = host.rule /\ created.lease = host.lease
            /\ created.osDisk = host.osDisk /\ created.dataDisk = host.dataDisk
        BY <1>1 DEF Host
      <3> HIDE DEF created
      <3> QED
        BY <1>3, <2>1, <3>1, <3>2 DEF Keeps
    <2> QED
      BY <1>2, <1>4, <1>16, <2>1, <2>2, ProvisionEffect DEF ProvisionVm, PrepareSteps
  <1>17. CASE JournalVm
    BY <1>2, <1>17, TrackEffect DEF JournalVm, PrepareSteps, DetachedSteps
  <1>18. CASE AttachRunDisks
    <2>1. pc \in BeforeBoot /\ pc \in DetachedSteps /\ pc = "attach_disks"
      BY <1>18 DEF AttachRunDisks, Provision, BeforeBoot, PrepareSteps, DetachedSteps
    <2>2. \A o \in AttachDisks(host) : o.host = host
      BY DEF AttachDisks, Done, Refused, Broken
    <2>3. (IF mode = "deny_all" THEN "configure_network" ELSE "prepare_adapter") \in PrepareSteps
      BY DEF PrepareSteps
    <2> QED
      BY <1>2, <1>3, <1>4, <1>18, <2>1, <2>2, <2>3, ProvisionEffect DEF AttachRunDisks, Keeps
  <1>19. CASE PrepareControlledAdapter
    <2>1. pc \in BeforeBoot /\ pc \in DetachedSteps /\ pc = "prepare_adapter"
      BY <1>19 DEF PrepareControlledAdapter, Provision, BeforeBoot, PrepareSteps, DetachedSteps
    <2>2. \A o \in PrepareAdapter(host) :
            /\ o.host.vm # "running" /\ Keeps(host, o.host) /\ o.host.rule = host.rule
            /\ o.host.dataDisk = host.dataDisk
      BY <1>1, <1>3, <2>1 DEF PrepareAdapter, Script, Done, Refused, Broken, Keeps, Host
    <2> QED
      BY <1>2, <1>4, <1>19, <2>1, <2>2, ProvisionEffect
         DEF PrepareControlledAdapter, PrepareSteps
  <1>20. CASE JournalNetwork
    BY <1>2, <1>20, TrackEffect DEF JournalNetwork, PrepareSteps, DetachedSteps
  <1>21. CASE Configure
    <2>1. pc \in BeforeBoot /\ pc \in DetachedSteps /\ pc = "configure_network"
      BY <1>21 DEF Configure, Provision, BeforeBoot, PrepareSteps, DetachedSteps
    <2>2. host.rule => mode = "host_server"
      BY <1>1 DEF Secured
    <2>3. \A o \in ConfigureNetwork(mode, host) :
            /\ o.host.vm = host.vm /\ o.host.dataDisk = host.dataDisk
            /\ o.host.osDisk = host.osDisk /\ o.host.lease = host.lease
            /\ o.host.rule => host.rule \/ mode = "host_server"
            /\ host.rule => o.host.rule
      <3> DEFINE acls    == [host EXCEPT !.acls = TRUE]
                 rule    == [acls EXCEPT !.rule = (mode = "host_server")]
                 capture == [rule EXCEPT !.capture = "running"]
                 session == [rule EXCEPT !.capture = "stopped"]
                 offline == [host EXCEPT !.nic = "none"]
                 Same(g) == /\ g.vm = host.vm /\ g.dataDisk = host.dataDisk
                            /\ g.osDisk = host.osDisk /\ g.lease = host.lease
      <3>1. \A o \in ConfigureNetwork(mode, host) :
              o.host \in {host, acls, rule, capture, session, offline}
        BY DEF ConfigureNetwork, Script, Done, Refused, Broken
      <3>2. /\ Same(acls) /\ Same(rule) /\ Same(capture) /\ Same(session) /\ Same(offline)
            /\ acls.rule = host.rule /\ offline.rule = host.rule
            /\ \A g \in {rule, capture, session} : g.rule = (mode = "host_server")
        BY <1>1 DEF Host
      <3> HIDE DEF acls, rule, capture, session, offline
      <3> QED
        BY <2>2, <3>1, <3>2
    <2>4. \A o \in ConfigureNetwork(mode, host) : Keeps(host, o.host)
      BY <2>3 DEF Keeps
    <2> QED
      BY <1>2, <1>3, <1>4, <1>21, <2>1, <2>3, <2>4, ProvisionEffect
         DEF Configure, PrepareSteps
  <1>22. CASE VerifyPrepared
    <2>1. pc \in BeforeBoot /\ pc \in DetachedSteps /\ pc = "verify_prepared"
      BY <1>22 DEF VerifyPrepared, Provision, BeforeBoot, PrepareSteps, DetachedSteps
    <2>2. \A o \in VerifyNetwork(mode, host) : o.host = host
      BY DEF VerifyNetwork, Done, Refused, Broken
    <2> QED
      BY <1>2, <1>3, <1>4, <1>22, <2>1, <2>2, ProvisionEffect
         DEF VerifyPrepared, PrepareSteps, Keeps
  <1>23. CASE JournalReady
    BY <1>2, <1>23, TrackEffect DEF JournalReady, PrepareSteps, DetachedSteps
  <1> QED
    BY <1>5, <1>6, <1>7, <1>8, <1>9, <1>10, <1>11, <1>12, <1>13, <1>14, <1>15, <1>16,
       <1>17, <1>18, <1>19, <1>20, <1>21, <1>22, <1>23 DEF Prepare

-----------------------------------------------------------------------------
\* The other steps of the process.

\* An execution step that is not the boot: a running guest is left as it is, the
\* VM is not started, nothing is removed and no teardown step follows directly.
ExecuteEffect ==
    /\ mode' = mode
    /\ Undisturbed(host, host')
    /\ Keeps(host, host')
    /\ pc' \notin ReclaimSteps
    /\ pc' \in BeforeBoot => pc' = "start_vm" /\ pc \in BeforeBoot /\ pc \in DetachedSteps
                             /\ host' = host /\ Attested

\* The attestation only looks, and succeeds only on a contained VM.
LEMMA AttestationEffect ==
    ASSUME NEW o \in VerifyNetwork(mode, host)
    PROVE  o.host = host /\ (o.ok => Contained(mode, host))
  BY DEF VerifyNetwork, Done, Refused, Broken

\* A step that leaves the host alone disturbs nothing.
LEMMA NothingChanges == Undisturbed(host, host) /\ Keeps(host, host)
  BY DEF Undisturbed, Keeps

\* Stopping the VM changes nothing but the VM's power.
LEMMA StopEffect ==
    ASSUME host \in Host, NEW o \in StopVm(host)
    PROVE  Undisturbed(host, o.host) /\ Keeps(host, o.host)
  BY DEF StopVm, Script, Done, Broken, PoweredOff, Undisturbed, Keeps, Host

\* Dismounting the exchange disk keeps the disk and does not start the VM.
LEMMA DismountEffect ==
    ASSUME host \in Host, host.vm = "running" => host.dataDisk # "mounted",
           NEW o \in DismountDataDisk(host)
    PROVE  /\ Undisturbed(host, o.host) /\ Keeps(host, o.host)
           /\ o.host.vm = host.vm
  BY DEF DismountDataDisk, Script, Done, Broken, Undisturbed, Keeps, Host

\* The host mounts the exchange disk only while the VM does not run.
LEMMA MountEffect ==
    ASSUME host \in Host, NEW o \in MountDataDisk(host)
    PROVE  Undisturbed(host, o.host) /\ Keeps(host, o.host)
  BY DEF MountDataDisk, Script, Done, Refused, Broken, Undisturbed, Keeps, Host

\* Every execution step but the boot keeps a running guest as it was.
LEMMA ExecuteEffects ==
    ASSUME IInv, Execute, ~Start
    PROVE  ExecuteEffect
  <1>1. host \in Host /\ Secured
    BY DEF IInv, TypeOK
  <1>2. \A s \in (ExecuteSteps \ {"verify_before_start", "start_vm"}) \cup {"begin_cleanup"} :
          s \notin ReclaimSteps /\ s \notin BeforeBoot
    BY DEF ExecuteSteps, ReclaimSteps, BeforeBoot, PrepareSteps
  <1>3. CollectionEnd \notin ReclaimSteps /\ CollectionEnd \notin BeforeBoot
    BY <1>2 DEF CollectionEnd, ExecuteSteps
  <1>4. CASE VerifyBeforeStart
    <2>1. PICK o \in VerifyNetwork(mode, host) :
            host' = o.host /\ pc' = IF o.ok THEN "start_vm" ELSE "begin_cleanup"
      BY <1>4 DEF VerifyBeforeStart, RunScript, ScriptOutcome
    <2>2. host' = host /\ mode' = mode /\ pc = "verify_before_start"
      BY <1>4, <2>1, AttestationEffect DEF VerifyBeforeStart, RunScript
    <2>3. pc' = "start_vm" => Attested
      BY <2>1, AttestationEffect DEF Attested
    <2>4. pc' \in {"start_vm", "begin_cleanup"} /\ pc \in BeforeBoot /\ pc \in DetachedSteps
      BY <2>1, <2>2 DEF BeforeBoot, DetachedSteps
    <2> QED
      BY <1>2, <2>2, <2>3, <2>4, NothingChanges DEF ExecuteEffect, ReclaimSteps
  <1>5. CASE JournalRunning
    <2>1. host' = host /\ mode' = mode /\ pc' \in {"observe", "begin_cleanup"}
      BY <1>5 DEF JournalRunning, Record
    <2> QED
      BY <1>2, <2>1, NothingChanges DEF ExecuteEffect, ExecuteSteps
  <1>6. CASE WaitForCompletion
    <2>1. host' \in {host, PoweredOff(host)} /\ mode' = mode
          /\ pc' \in {"verify_after", "force_stop", "stop_after_error"}
      BY <1>6 DEF WaitForCompletion, ObservePoweredOff, ObserveTimedOut, ObserveQuota,
         ObserveError, WatcherStopped
    <2>2. Undisturbed(host, host') /\ Keeps(host, host')
      BY <1>1, <2>1 DEF PoweredOff, Undisturbed, Keeps, Host
    <2> QED
      BY <1>2, <2>1, <2>2 DEF ExecuteEffect, ExecuteSteps
  <1>7. CASE StopAfterError \/ ForceStop
    <2>1. PICK o \in StopVm(host) : host' = o.host
      BY <1>7 DEF StopAfterError, ForceStop, RunScript, ScriptOutcome
    <2>2. mode' = mode /\ pc' \in {"begin_cleanup", "collect_mount"}
      BY <1>7 DEF StopAfterError, ForceStop, RunScript
    <2> QED
      BY <1>1, <1>2, <2>1, <2>2, StopEffect DEF ExecuteEffect, ExecuteSteps
  <1>8. CASE VerifyAfter
    <2>1. PICK o \in VerifyNetwork(mode, host) : host' = o.host
      BY <1>8 DEF VerifyAfter, ScriptOutcome
    <2>2. mode' = mode /\ pc' \in {"begin_cleanup", "collect_mount"}
      BY <1>8 DEF VerifyAfter
    <2> QED
      BY <1>2, <2>1, <2>2, AttestationEffect, NothingChanges DEF ExecuteEffect, ExecuteSteps
  <1>9. CASE CollectMount
    <2>1. PICK o \in MountDataDisk(host) : host' = o.host
      BY <1>9 DEF CollectMount, RunScript, ScriptOutcome
    <2>2. mode' = mode /\ pc' \in {"journal_collect_mount", CollectionEnd}
      BY <1>9 DEF CollectMount, RunScript
    <2> QED
      BY <1>1, <1>2, <1>3, <2>1, <2>2, MountEffect DEF ExecuteEffect, ExecuteSteps
  <1>10. CASE JournalCollectMount
    <2>1. host' = host /\ mode' = mode /\ pc' \in {"collect_dismount", CollectionEnd}
      BY <1>10 DEF JournalCollectMount, Record
    <2> QED
      BY <1>2, <1>3, <2>1, NothingChanges DEF ExecuteEffect, ExecuteSteps
  <1>11. CASE CollectDismount
    <2>1. PICK o \in DismountDataDisk(host) : host' = o.host
      BY <1>11 DEF CollectDismount, ScriptOutcome
    <2>2. mode' = mode /\ pc' = "journal_collect_dismount"
      BY <1>11 DEF CollectDismount
    <2>3. host.vm = "running" => host.dataDisk # "mounted"
      BY <1>1 DEF Secured
    <2> QED
      BY <1>1, <1>2, <2>1, <2>2, <2>3, DismountEffect DEF ExecuteEffect, ExecuteSteps
  <1>12. CASE JournalCollectDismount
    <2>1. host' = host /\ mode' = mode /\ pc' = CollectionEnd
      BY <1>12 DEF JournalCollectDismount
    <2> QED
      BY <1>3, <2>1, NothingChanges DEF ExecuteEffect
  <1> QED
    BY <1>4, <1>5, <1>6, <1>7, <1>8, <1>9, <1>10, <1>11, <1>12 DEF Execute

\* The boot: from an attested, detached host, or not at all.
LEMMA StartEffect ==
    ASSUME IInv, Start
    PROVE  /\ mode' = mode
           /\ pc' \in {"journal_running", "begin_cleanup"}
           /\ host'.vm \in {host.vm, "running"}
           /\ Keeps(host, host')
           /\ host'.rule = host.rule
           /\ host'.vm = "running" => Attested' /\ host'.dataDisk # "mounted"
  <1>1. host \in Host /\ Secured /\ pc = "start_vm"
    BY DEF IInv, TypeOK, Start, RunScript
  <1>2. PICK o \in StartVm(host) :
          host' = o.host /\ pc' = IF o.ok THEN "journal_running" ELSE "begin_cleanup"
    BY DEF Start, RunScript, ScriptOutcome
  <1>3. mode' = mode
    BY DEF Start, RunScript
  <1>4. host' = host \/ host' = [host EXCEPT !.vm = "running"]
    BY <1>2 DEF StartVm, Script, Done, Refused, Broken
  <1>5. Attested /\ host.dataDisk # "mounted" /\ host.vm # "running"
    BY <1>1 DEF Secured, DetachedSteps, BeforeBoot
  <1>6. Attested'
    BY <1>1, <1>3, <1>4, <1>5 DEF Attested, Contained, Host
  <1> QED
    BY <1>1, <1>2, <1>3, <1>4, <1>5, <1>6 DEF Keeps, Host

\* A cleanup step: a running guest is left as it is or turned off, and what goes
\* goes behind the VM.
CleanEffect ==
    /\ mode' = mode
    /\ Undisturbed(host, host')
    /\ host.vm # "absent" => Keeps(host, host')
    /\ pc' \notin BeforeBoot
    /\ pc' \in ReclaimSteps => host'.vm = "absent"

\* Teardown reaches the reclaiming steps only with the VM gone.
LEMMA CleanEffects ==
    ASSUME IInv, Clean
    PROVE  CleanEffect
  <1>1. host \in Host /\ journal \in Journal /\ Secured
    BY DEF IInv, TypeOK
  <1>2. /\ \A s \in StoppingSteps \cup ReclaimSteps \cup {"finish", "down"} : s \notin BeforeBoot
        /\ \A s \in StoppingSteps \cup {"finish", "down"} : s \notin ReclaimSteps
    BY DEF StoppingSteps, ReclaimSteps, BeforeBoot, PrepareSteps
  <1>3. pc \in ReclaimSteps => host.vm = "absent"
    BY <1>1 DEF Secured
  <1>4. CASE BeginCleanup \/ RefuseCleanup \/ StartCleanup \/ FinishCleanup
    <2>1. host' = host /\ mode' = mode
          /\ pc' \in {"down", "start_cleanup", "stop_vm", "remove_vm"}
      BY <1>4 DEF BeginCleanup, RefuseCleanup, StartCleanup, FinishCleanup, Exit
    <2> QED
      BY <1>2, <2>1, NothingChanges DEF CleanEffect, StoppingSteps
  <1>5. CASE StopVmForCleanup
    <2>1. PICK o \in StopVm(host) : host' = o.host
      BY <1>5 DEF StopVmForCleanup, Reconcile, ScriptOutcome
    <2>2. mode' = mode /\ pc' = "detach_disks"
      BY <1>5 DEF StopVmForCleanup, Reconcile
    <2> QED
      BY <1>1, <1>2, <2>1, <2>2, StopEffect DEF CleanEffect, StoppingSteps
  <1>6. CASE DetachForCleanup
    <2>1. \A o \in DetachDisks(host) : o.host = host
      BY DEF DetachDisks, Done, Refused, Broken
    <2>2. host' = host /\ mode' = mode /\ pc' = "remove_vm"
      BY <1>6, <2>1 DEF DetachForCleanup, Reconcile, ScriptOutcome
    <2> QED
      BY <1>2, <2>2, NothingChanges DEF CleanEffect, StoppingSteps
  <1>7. CASE RemoveTheVm
    <2>1. PICK o \in RemoveVm(host) :
            /\ host' = o.host
            /\ IF o.ok
               THEN pc' = CASE journal.network = "owned" -> "finish_capture"
                            [] journal.network = "lease" -> "release_lease"
                            [] journal.network = "none"  -> "dismount_data"
               ELSE pc' = "finish"
      BY <1>7 DEF RemoveTheVm, ScriptOutcome
    <2>2. mode' = mode
      BY <1>7 DEF RemoveTheVm
    <2>3. o.host \in {host, PoweredOff(host), WithoutVm(host)}
          /\ (o.ok => o.host = WithoutVm(host))
      BY DEF RemoveVm, Script, Done, Broken
    <2>4. /\ Undisturbed(host, PoweredOff(host)) /\ Keeps(host, PoweredOff(host))
          /\ Undisturbed(host, WithoutVm(host)) /\ Keeps(host, WithoutVm(host))
          /\ WithoutVm(host).vm = "absent"
      BY <1>1 DEF PoweredOff, WithoutVm, Undisturbed, Keeps, Host
    <2>5. journal.network \in {"none", "lease", "owned"}
      BY <1>1 DEF Journal, NetworkRecords
    <2>6. pc' \in ReclaimSteps \/ pc' = "finish"
      BY <2>1, <2>5 DEF ReclaimSteps
    <2>7. pc' \in ReclaimSteps => o.ok
      BY <1>2, <2>1
    <2> QED
      BY <1>2, <2>1, <2>2, <2>3, <2>4, <2>6, <2>7, NothingChanges DEF CleanEffect
  <1>8. ASSUME host.vm = "absent", host'.vm = "absent", host'.rule => host.rule,
               mode' = mode, pc' \in ReclaimSteps \cup {"finish"}
        PROVE  CleanEffect
    BY <1>2, <1>8 DEF CleanEffect, Undisturbed
  <1>9. CASE FinishCapture \/ RemoveControls \/ ReleaseAddress \/ JournalReleased
             \/ DismountData \/ DeleteData \/ DeleteOs
    <2>1. /\ pc \in ReclaimSteps /\ mode' = mode
          /\ pc' \in ReclaimSteps \cup {"finish"}
      BY <1>9 DEF FinishCapture, RemoveControls, ReleaseAddress, JournalReleased,
         DismountData, DeleteData, DeleteOs, Reconcile, ReclaimSteps
    <2>2. host'.vm = host.vm /\ (host'.rule => host.rule)
      <3>1. CASE FinishCapture
        <4>1. PICK o \in StopCapture(host) : host' = o.host
          BY <3>1 DEF FinishCapture, Reconcile, ScriptOutcome
        <4> QED
          BY <1>1, <4>1 DEF StopCapture, Script, Done, Refused, Broken, Host
      <3>2. CASE RemoveControls
        <4> DEFINE stopped   == [host EXCEPT !.capture = IF @ = "running"
                                                         THEN "stopped" ELSE @]
                   noCapture == [host EXCEPT !.capture = "absent"]
                   noRule    == [noCapture EXCEPT !.rule = FALSE]
        <4>1. PICK o \in RemoveHostControls(mode, host) : host' = o.host
          BY <3>2 DEF RemoveControls, ScriptOutcome
        <4>2. o.host \in {host, stopped, noCapture, noRule}
          BY DEF RemoveHostControls, Script, Done, Refused, Broken
        <4>3. \A g \in {host, stopped, noCapture, noRule} :
                g.vm = host.vm /\ (g.rule => host.rule)
          BY <1>1 DEF Host
        <4> QED
          BY <4>1, <4>2, <4>3
      <3>3. CASE ReleaseAddress
        <4>1. PICK o \in ReleaseLease(host) : host' = o.host
          BY <3>3 DEF ReleaseAddress, FileOutcome
        <4> QED
          BY <1>1, <4>1 DEF ReleaseLease, Done, Refused, Broken, Host
      <3>4. CASE JournalReleased
        BY <3>4 DEF JournalReleased
      <3>5. CASE DismountData
        <4>1. PICK o \in ReconcileMount(journal, host) : host' = o.host
          BY <3>5 DEF DismountData, Reconcile, ScriptOutcome
        <4>2. journal.data \in {"none", "planned", "mounted", "detached"}
          BY <1>1 DEF Journal, DataDiskStates
        <4>3. o \in DismountDataDisk(host) \/ o \in {Done(host), Refused(host)}
          BY <4>2 DEF ReconcileMount
        <4> QED
          BY <1>1, <4>1, <4>3 DEF DismountDataDisk, Script, Done, Refused, Broken, Host
      <3>6. CASE DeleteData
        <4>1. PICK o \in DeleteDataDisk(host, DataIdentified(journal)) \cup {Done(host)} :
                host' = o.host
          BY <3>6 DEF DeleteData, Reconcile, ScriptOutcome
        <4> QED
          BY <1>1, <4>1 DEF DeleteDataDisk, Done, Refused, Broken, Host
      <3>7. CASE DeleteOs
        <4>1. PICK o \in DeleteOsDisk(host, journal.osId) \cup {Done(host)} :
                host' = o.host
          BY <3>7 DEF DeleteOs, Reconcile, ScriptOutcome
        <4> QED
          BY <1>1, <4>1 DEF DeleteOsDisk, Done, Refused, Broken, Host
      <3> QED
        BY <1>9, <3>1, <3>2, <3>3, <3>4, <3>5, <3>6, <3>7
    <2> QED
      BY <1>3, <1>8, <2>1, <2>2
  <1> QED
    BY <1>4, <1>5, <1>6, <1>7, <1>9 DEF Clean

\* Recovery and the environment never start a VM and never take anything away but
\* the controls that drift.
LEMMA EnvironmentEffects ==
    ASSUME IInv, Recover \/ Environment
    PROVE  /\ mode' = mode
           /\ pc' \in {pc, "down", "start_cleanup"}
           /\ host'.vm = "running" => host.vm = "running" /\ (MayDrift \/ host' = host)
           /\ host'.vm = "running" => host'.dataDisk = host.dataDisk
           /\ host'.rule => host.rule
           /\ host'.vm = "absent" <=> host.vm = "absent"
           /\ host'.dataDisk = "mounted" => host.dataDisk = "mounted"
           /\ MayDrift \/ Keeps(host, host')
           /\ host.osDisk # "absent" => host'.osDisk # "absent"
           /\ host.dataDisk # "absent" => host'.dataDisk # "absent"
           /\ host.lease => host'.lease
  <1>1. host \in Host
    BY DEF IInv, TypeOK
  <1>2. CASE Recover \/ Interrupt \/ ProcessCrash
    <2>1. mode' = mode /\ host' = host /\ pc' \in {pc, "down", "start_cleanup"}
      BY <1>2 DEF Recover, Interrupt, ProcessCrash, Exit
    <2> QED
      BY <1>1, <2>1 DEF Keeps, Host
  <1>3. CASE GuestPowersOff
    BY <1>1, <1>3 DEF GuestPowersOff, PoweredOff, Keeps, Host
  <1>4. CASE ControlsDrift
    BY <1>1, <1>4 DEF ControlsDrift, Keeps, Host
  <1>5. CASE HostReboot
    <2> DEFINE off == PoweredOff(host)
               disk(d) == IF d = "mounted" THEN "detached" ELSE d
    <2>1. PICK c \in {"absent", "stopped"} :
            host' = [off EXCEPT !.dataDisk = disk(@), !.capture = c]
      BY <1>5 DEF HostReboot, AfterReboot
    <2>2. /\ off \in Host /\ off.vm # "running" /\ (off.vm = "absent" <=> host.vm = "absent")
          /\ off.osDisk = host.osDisk /\ off.dataDisk = host.dataDisk
          /\ off.lease = host.lease /\ off.rule = host.rule
      BY <1>1 DEF PoweredOff, Host
    <2> HIDE DEF off
    <2>3. /\ host' \in Host /\ host'.vm = off.vm /\ host'.osDisk = off.osDisk
          /\ host'.dataDisk = disk(off.dataDisk)
          /\ host'.lease = off.lease /\ host'.rule = off.rule
      BY <2>1, <2>2 DEF Host
    <2>4. mode' = mode /\ pc' = "down"
      BY <1>5 DEF HostReboot, Exit
    <2>5. Keeps(host, host')
      BY <2>2, <2>3 DEF Keeps
    <2> QED
      BY <2>2, <2>3, <2>4, <2>5 DEF Keeps
  <1> QED
    BY <1>2, <1>3, <1>4, <1>5 DEF Environment

-----------------------------------------------------------------------------
\* The invariant.

\* Before anything is created, everything is secured.
LEMMA InitSecured == Init => Secured
  BY DEF Init, Secured, CleanHost, BeforeBoot, PrepareSteps, ReclaimSteps, DetachedSteps

\* The preparing, executing and reclaiming steps are different steps.
LEMMA StepDisjoint ==
    /\ \A s \in BeforeBoot \cup {"begin_cleanup", "start_cleanup", "journal_running", "down"} :
          s \notin ReclaimSteps
    /\ \A s \in {"begin_cleanup", "start_cleanup", "journal_running", "down"} :
          s \notin BeforeBoot
    /\ DetachedSteps \subseteq BeforeBoot
    /\ "start_vm" \in DetachedSteps
  BY DEF BeforeBoot, PrepareSteps, ReclaimSteps, DetachedSteps

\* Every step keeps the inductive invariant.
LEMMA NextSecured == IInv /\ [Next]_vars => Secured'
  <1> SUFFICES ASSUME IInv, [Next]_vars PROVE Secured'
    OBVIOUS
  <1>1. host \in Host /\ Secured /\ MayDrift \in BOOLEAN
    BY MayDriftAssumption DEF IInv, TypeOK
  <1>2. CASE UNCHANGED vars
    BY <1>1, <1>2 DEF vars, Secured, Attested, Contained
  <1>3. CASE Prepare
    BY <1>3, PrepareEffects, StepDisjoint DEF PrepareEffect, Secured
  <1>4. CASE Start
    BY <1>1, <1>4, StartEffect, StepDisjoint DEF Secured
  <1>5. CASE Execute /\ ~Start
    <2>1. ExecuteEffect
      BY <1>5, ExecuteEffects
    <2>2. host'.vm = "running" => Attested' /\ host'.dataDisk # "mounted"
      BY <1>1, <2>1 DEF ExecuteEffect, Undisturbed, Secured, Attested, Contained
    <2>3. pc' \in BeforeBoot => /\ pc' = "start_vm" /\ host'.vm # "running"
                                /\ Attested' /\ host'.dataDisk # "mounted"
      BY <1>1, <2>1 DEF ExecuteEffect, Secured, Attested, Contained
    <2>4. host'.rule => mode' = "host_server"
      BY <1>1, <2>1 DEF ExecuteEffect, Undisturbed, Secured
    <2> QED
      BY <2>1, <2>2, <2>3, <2>4, StepDisjoint DEF ExecuteEffect, Secured
  <1>6. CASE Clean
    <2>1. CleanEffect
      BY <1>6, CleanEffects
    <2>2. host'.vm = "running" => Attested' /\ host'.dataDisk # "mounted"
      BY <1>1, <2>1 DEF CleanEffect, Undisturbed, Secured, Attested, Contained
    <2>3. host'.rule => mode' = "host_server"
      BY <1>1, <2>1 DEF CleanEffect, Undisturbed, Secured
    <2> QED
      BY <2>1, <2>2, <2>3, StepDisjoint DEF CleanEffect, Secured
  <1>7. CASE Recover \/ Environment
    <2>1. /\ mode' = mode
          /\ pc' \in {pc, "down", "start_cleanup"}
          /\ host'.vm = "running" => host.vm = "running" /\ (MayDrift \/ host' = host)
          /\ host'.vm = "running" => host'.dataDisk = host.dataDisk
          /\ host'.rule => host.rule
          /\ host'.vm = "absent" <=> host.vm = "absent"
          /\ host'.dataDisk = "mounted" => host.dataDisk = "mounted"
      BY <1>7, EnvironmentEffects
    <2>2. host'.vm = "running" => Attested' /\ host'.dataDisk # "mounted"
      BY <1>1, <2>1 DEF Secured, Attested, Contained
    <2>3. pc' = "start_vm" => Attested'
      <3>1. CASE pc' = "start_vm"
        <4>1. pc = "start_vm"
          BY <2>1, <3>1
        <4>2. MayDrift \/ Contained(mode, host)
          BY <1>1, <4>1 DEF Secured, Attested
        <4>3. CASE Interrupt \/ ControlsDrift
          BY <4>2, <4>3 DEF Interrupt, ControlsDrift, Attested, Contained
        <4>4. CASE GuestPowersOff
          <5>1. host' = [host EXCEPT !.vm = "off"] /\ mode' = mode
            BY <4>4 DEF GuestPowersOff, PoweredOff
          <5>2. /\ host'.nic = host.nic /\ host'.acls = host.acls
                /\ host'.capture = host.capture /\ host'.rule = host.rule
            BY <1>1, <5>1 DEF Host
          <5> QED
            BY <4>2, <5>1, <5>2 DEF Attested, Contained
        <4>5. CASE Recover \/ ProcessCrash \/ HostReboot
          BY <3>1, <4>5 DEF Recover, ProcessCrash, HostReboot, Exit
        <4> QED
          BY <1>7, <4>3, <4>4, <4>5 DEF Environment
      <3> QED
        BY <3>1
    <2> QED
      BY <1>1, <2>1, <2>2, <2>3, StepDisjoint DEF Secured
  <1>8. CASE RecoverNothing
    BY <1>2, <1>8 DEF RecoverNothing
  <1> QED
    BY <1>2, <1>3, <1>4, <1>5, <1>6, <1>7, <1>8 DEF Next, Process, Recovery

\* The inductive invariant holds in every reachable state.
LEMMA Inductive == Spec => []IInv
  <1>1. Init => IInv
    BY InitTyped, InitSecured DEF IInv
  <1>2. IInv /\ [Next]_vars => IInv'
    BY NextTyped, NextSecured DEF IInv
  <1> QED
    BY <1>1, <1>2, PTL DEF Spec

\* While nobody else interferes with the controls, the guest never runs outside
\* the containment its network plan asks for: not between boot and the first
\* observation, not after a failed force-stop, not during cleanup or recovery.
THEOREM GuestContained == Spec => []ContainedWhileRunning
  <1>1. IInv => ContainedWhileRunning
    BY MayDriftAssumption
       DEF IInv, Secured, Attested, ContainedWhileRunning, Exposed
  <1> QED
    BY <1>1, Inductive, PTL

\* The exchange disk is never mounted by the host and written by the guest at the
\* same time, whichever mount, dismount or stop failed before.
THEOREM ExchangeDiskExclusive == Spec => []NoSharedDataDisk
  <1>1. IInv => NoSharedDataDisk
    BY DEF IInv, Secured, NoSharedDataDisk
  <1> QED
    BY <1>1, Inductive, PTL

\* Disks, lease and firewall rule of a run go only behind its VM.
THEOREM TeardownOrdered == Spec => TeardownBehindVm
  <1> DEFINE Behind ==
        (Removed("osDisk") \/ Removed("dataDisk") \/ (host.lease /\ ~host'.lease)
          \/ (~MayDrift /\ host.rule /\ ~host'.rule)) => host.vm = "absent"
  <1>1. IInv /\ [Next]_vars => [Behind]_vars
    <2> SUFFICES ASSUME IInv, Next PROVE Behind \/ UNCHANGED vars
      OBVIOUS
    <2>1. ASSUME Keeps(host, host') PROVE Behind
      BY <2>1 DEF Keeps, Removed
    <2>2. CASE Prepare
      BY <2>1, <2>2, PrepareEffects DEF PrepareEffect
    <2>3. CASE Execute
      BY <2>1, <2>3, StartEffect, ExecuteEffects DEF ExecuteEffect
    <2>4. CASE Clean
      BY <2>1, <2>4, CleanEffects DEF CleanEffect
    <2>5. CASE Recover \/ Environment
      <3>1. MayDrift \/ Keeps(host, host')
        BY <2>5, EnvironmentEffects
      <3>2. /\ host.osDisk # "absent" => host'.osDisk # "absent"
            /\ host.dataDisk # "absent" => host'.dataDisk # "absent"
            /\ host.lease => host'.lease
        BY <2>5, EnvironmentEffects
      <3> QED
        BY <3>1, <3>2, <2>1, MayDriftAssumption DEF Removed
    <2>6. CASE RecoverNothing
      BY <2>6 DEF RecoverNothing
    <2> QED
      BY <2>2, <2>3, <2>4, <2>5, <2>6 DEF Next, Process, Recovery
  <1> QED
    BY <1>1, Inductive, PTL DEF Spec, TeardownBehindVm
-----------------------------------------------------------------------------
\* An accepted result.

CollectSteps == {"collect_mount", "journal_collect_mount", "collect_dismount",
                 "journal_collect_dismount"}

\* From the boot to the end of the execution.
Observing == {"journal_running", "observe", "stop_after_error", "force_stop", "verify_after"}
             \cup CollectSteps

\* Controls that are lost while the guest runs are not restored before the
\* attestation that follows it, so exposure cannot hide from it; a guest that was
\* seen off has nothing left to expose.
Watched ==
    /\ pc \in BeforeBoot => ~exposed
    /\ pc \in Observing /\ exposed => ~Contained(mode, host)
    /\ pc = "force_stop" => completion # "powered_off"
    /\ completion = "powered_off" /\ pc \in CollectSteps \cup {"verify_after"} =>
          host.vm # "running"
    /\ completion = "powered_off" /\ pc \in CollectSteps => ~exposed

\* What keeps a host from becoming contained that was not.
NotRestored(h, g) ==
    /\ g.nic = h.nic
    /\ g.acls => h.acls
    /\ g.rule => h.rule
    /\ g.capture = "running" => h.capture = "running"
    /\ g.vm = "running" => h.vm = "running"

\* The operations of an execution behind the boot restore nothing.
LEMMA NothingRestored ==
    ASSUME NEW h \in Host
    PROVE  /\ NotRestored(h, h) /\ NotRestored(h, PoweredOff(h))
           /\ \A o \in StopVm(h) \cup MountDataDisk(h) \cup DismountDataDisk(h)
                        \cup VerifyNetwork(mode, h) : NotRestored(h, o.host)
  <1>1. NotRestored(h, h) /\ NotRestored(h, PoweredOff(h))
    BY DEF NotRestored, PoweredOff, Host
  <1>2. \A x \in {"mounted", "detached"} : NotRestored(h, [h EXCEPT !.dataDisk = x])
    BY DEF NotRestored, Host
  <1>3. \A o \in StopVm(h) \cup VerifyNetwork(mode, h) : o.host \in {h, PoweredOff(h)}
    BY DEF StopVm, VerifyNetwork, Script, Done, Refused, Broken
  <1>4. \A o \in MountDataDisk(h) \cup DismountDataDisk(h) :
          o.host \in {h, [h EXCEPT !.dataDisk = "mounted"], [h EXCEPT !.dataDisk = "detached"]}
    BY DEF MountDataDisk, DismountDataDisk, Script, Done, Refused, Broken
  <1> QED
    BY <1>1, <1>2, <1>3, <1>4

\* Where nothing is restored, exposure stays visible.
LEMMA ExposureVisible ==
    ASSUME host \in Host, NotRestored(host, host'), mode' = mode, TrackExposure,
           exposed => ~Contained(mode, host), exposed \in BOOLEAN
    PROVE  /\ exposed' => ~Contained(mode', host')
           /\ Contained(mode', host') => Contained(mode, host)
           /\ host.vm # "running" /\ ~exposed => ~exposed'
  <1>1. Contained(mode, host') => Contained(mode, host)
    BY DEF NotRestored, Contained
  <1>2. exposed' = (exposed \/ (host'.vm = "running" /\ ~Contained(mode', host')))
    BY DEF TrackExposure, Exposed
  <1> QED
    BY <1>1, <1>2 DEF NotRestored

Acceptable == ~accepted /\ accepted' => ~exposed'

\* Every step of the execution keeps the watch, and accepts no exposed guest.
LEMMA ExecuteWatched ==
    ASSUME IInv, Watched, Execute, TrackExposure, IInv'
    PROVE  Watched' /\ Acceptable
  <1>1. host \in Host /\ exposed \in BOOLEAN /\ host.vm \in {"absent", "off", "running"}
    BY DEF IInv, TypeOK, Host
  <1>2. /\ Observing \cap BeforeBoot = {} /\ CollectSteps \subseteq Observing
        /\ "begin_cleanup" \notin BeforeBoot \cup Observing
        /\ CollectionEnd \in {"begin_cleanup", "verify_after"}
        /\ CollectionEnd = "verify_after" => completion # "powered_off"
        /\ "verify_after" \notin CollectSteps /\ "force_stop" \notin CollectSteps
    BY DEF Observing, CollectSteps, BeforeBoot, PrepareSteps, CollectionEnd
  <1>3. CASE VerifyBeforeStart
    <2>1. /\ pc \in BeforeBoot /\ pc' \in {"start_vm", "begin_cleanup"} /\ mode' = mode
          /\ accepted' = accepted
      BY <1>3 DEF VerifyBeforeStart, RunScript, BeforeBoot
    <2>2. host'.vm = host.vm
      BY <1>3, AttestationEffect DEF VerifyBeforeStart, RunScript, ScriptOutcome
    <2>3. ~exposed'
      BY <2>1, <2>2 DEF Watched, IInv, Secured, TrackExposure, Exposed
    <2>4. "start_vm" \notin Observing /\ "begin_cleanup" \notin Observing
      BY DEF Observing, CollectSteps
    <2> QED
      BY <2>1, <2>3, <2>4 DEF Watched, Acceptable, Observing
  <1>4. CASE Start
    <2>1. /\ pc \in BeforeBoot /\ pc' \in {"journal_running", "begin_cleanup"} /\ mode' = mode
          /\ accepted' = accepted
      BY <1>4 DEF Start, RunScript, BeforeBoot
    <2>2. ~exposed
      BY <2>1 DEF Watched
    <2>3. exposed' => ~Contained(mode', host')
      BY <1>4, <2>1, <2>2 DEF TrackExposure, Exposed
    <2>4. pc' \notin BeforeBoot
      BY <2>1 DEF BeforeBoot, PrepareSteps
    <2> QED
      BY <1>2, <2>1, <2>3, <2>4 DEF Watched, Acceptable, CollectSteps
  \* The steps behind the boot.
  <1>5. ASSUME pc \in Observing, NotRestored(host, host'), mode' = mode
        PROVE  /\ exposed' => ~Contained(mode', host')
               /\ Contained(mode', host') => Contained(mode, host)
               /\ host.vm # "running" /\ ~exposed => ~exposed'
               /\ host.vm # "running" => host'.vm # "running"
    <2>1. exposed => ~Contained(mode, host)
      BY <1>5 DEF Watched
    <2> QED
      BY <1>1, <1>5, <2>1, ExposureVisible DEF NotRestored
  <1>6. CASE JournalRunning
    <2>1. /\ pc \in Observing /\ host' = host /\ mode' = mode /\ accepted' = accepted
          /\ pc' \in {"observe", "begin_cleanup"}
      BY <1>6 DEF JournalRunning, Record, Observing
    <2>2. NotRestored(host, host')
      BY <1>1, <2>1, NothingRestored
    <2>3. pc' \notin BeforeBoot
      BY <2>1 DEF BeforeBoot, PrepareSteps
    <2> QED
      BY <1>2, <1>5, <2>1, <2>2, <2>3 DEF Watched, Acceptable, CollectSteps
  <1>7. CASE WaitForCompletion
    <2>1. /\ pc \in Observing /\ mode' = mode /\ accepted' = accepted
          /\ host' \in {host, PoweredOff(host)}
      BY <1>7 DEF WaitForCompletion, ObservePoweredOff, ObserveTimedOut, ObserveQuota,
         ObserveError, WatcherStopped, Observing
    <2>2. NotRestored(host, host')
      BY <1>1, <2>1, NothingRestored
    <2>3. \/ pc' = "verify_after" /\ host'.vm # "running"
          \/ pc' = "force_stop" /\ completion' # "powered_off"
          \/ pc' = "stop_after_error"
      BY <1>7 DEF WaitForCompletion, ObservePoweredOff, ObserveTimedOut, ObserveQuota,
         ObserveError
    <2>4. pc' \notin BeforeBoot /\ pc' \notin CollectSteps
      BY <2>3 DEF BeforeBoot, PrepareSteps, CollectSteps
    <2> QED
      BY <1>5, <2>1, <2>2, <2>3, <2>4 DEF Watched, Acceptable
  <1>8. CASE StopAfterError \/ ForceStop
    <2>1. /\ pc \in Observing /\ mode' = mode /\ accepted' = accepted
          /\ completion' = completion
          /\ \/ pc' = "begin_cleanup"
             \/ pc = "force_stop" /\ pc' = "collect_mount"
      BY <1>8 DEF StopAfterError, ForceStop, RunScript, Observing
    <2>2. NotRestored(host, host')
      BY <1>1, <1>8, NothingRestored DEF StopAfterError, ForceStop, RunScript, ScriptOutcome
    <2>3. pc' \notin BeforeBoot
      BY <2>1 DEF BeforeBoot, PrepareSteps
    <2> QED
      BY <1>2, <1>5, <2>1, <2>2, <2>3 DEF Watched, Acceptable, CollectSteps
  <1>9. CASE VerifyAfter
    <2>1. PICK o \in VerifyNetwork(mode, host) :
            /\ host' = o.host
            /\ pc' = IF o.ok /\ completion = "powered_off"
                     THEN "collect_mount" ELSE "begin_cleanup"
            /\ accepted' = (o.ok /\ completion = "timed_out")
      BY <1>9 DEF VerifyAfter, ScriptOutcome
    <2>2. /\ pc = "verify_after" /\ pc \in Observing /\ mode' = mode
          /\ completion' = completion
      BY <1>9 DEF VerifyAfter, Observing
    <2>3. host' = host /\ NotRestored(host, host') /\ (o.ok => Contained(mode, host))
      BY <1>1, <2>1, AttestationEffect, NothingRestored
    <2>4. o.ok => ~exposed'
      BY <1>5, <2>2, <2>3
    <2>5. Acceptable
      BY <2>1, <2>4 DEF Acceptable
    <2>6. pc' \notin BeforeBoot
      BY <2>1 DEF BeforeBoot, PrepareSteps
    <2>7. CASE o.ok /\ completion = "powered_off"
      <3>1. pc' = "collect_mount" /\ host'.vm # "running" /\ ~exposed'
        BY <2>1, <2>2, <2>3, <2>4, <2>7 DEF Watched
      <3> QED
        BY <2>5, <2>6, <3>1 DEF Watched
    <2>8. CASE ~(o.ok /\ completion = "powered_off")
      <3>1. pc' = "begin_cleanup"
        BY <2>1, <2>8
      <3> QED
        BY <1>2, <2>5, <2>6, <3>1 DEF Watched, CollectSteps
    <2> QED
      BY <2>7, <2>8
  <1>10. CASE CollectMount \/ JournalCollectMount \/ CollectDismount \/ JournalCollectDismount
    <2>1. /\ pc \in CollectSteps /\ pc \in Observing /\ mode' = mode
          /\ completion' = completion
          /\ pc' \in CollectSteps \cup {CollectionEnd}
      BY <1>10 DEF CollectMount, JournalCollectMount, CollectDismount, JournalCollectDismount,
         RunScript, Record, CollectSteps, Observing
    <2>2. NotRestored(host, host')
      <3>1. CASE CollectMount
        BY <1>1, <3>1, NothingRestored DEF CollectMount, RunScript, ScriptOutcome
      <3>2. CASE CollectDismount
        BY <1>1, <3>2, NothingRestored DEF CollectDismount, ScriptOutcome
      <3>3. CASE JournalCollectMount \/ JournalCollectDismount
        BY <1>1, <3>3, NothingRestored DEF JournalCollectMount, Record, JournalCollectDismount
      <3> QED
        BY <1>10, <3>1, <3>2, <3>3
    <2>3. completion = "powered_off" => host'.vm # "running" /\ ~exposed'
      BY <1>5, <2>1, <2>2 DEF Watched
    <2>4. accepted' => accepted \/ completion = "powered_off"
      BY <1>10 DEF CollectMount, JournalCollectMount, CollectDismount, JournalCollectDismount,
         RunScript, Record
    <2>5. Acceptable
      BY <2>3, <2>4 DEF Acceptable
    <2>6. pc' \notin BeforeBoot /\ pc' # "force_stop"
      BY <1>2, <2>1 DEF BeforeBoot, PrepareSteps, CollectSteps
    <2>7. exposed' => ~Contained(mode', host')
      BY <1>5, <2>1, <2>2
    <2>8. pc' = "verify_after" => completion # "powered_off"
      BY <1>2, <2>1
    <2> QED
      BY <2>1, <2>3, <2>5, <2>6, <2>7, <2>8 DEF Watched
  <1> QED
    BY <1>3, <1>4, <1>6, <1>7, <1>8, <1>9, <1>10 DEF Execute

\* Every step keeps the watch, and accepts no exposed guest.
LEMMA NextWatched ==
    ASSUME IInv, IInv', Watched, [Next]_vars
    PROVE  Watched' /\ (Acceptable \/ UNCHANGED vars)
  <1>1. CASE UNCHANGED vars
    BY <1>1 DEF vars, Watched, Contained
  <1>2. CASE RecoverNothing
    BY <1>1, <1>2 DEF RecoverNothing
  <1>3. CASE Prepare /\ TrackExposure
    <2>1. pc \in PrepareSteps /\ accepted' = accepted
      BY <1>3 DEF Prepare, CreateJournal, ReserveAddress, JournalLease, PlanOsDisk,
         ProvisionOsDisk, JournalOsIdentity, PlanDataDisk, ProvisionDataDisk,
         JournalDataMounted, StageAndDismount, JournalDataDetached, ProvisionVm, JournalVm,
         AttachRunDisks, PrepareControlledAdapter, JournalNetwork, Configure,
         VerifyPrepared, JournalReady, Track, Provision, PrepareSteps
    <2>2. PrepareEffect /\ pc \in BeforeBoot
      BY <1>3, <2>1, PrepareEffects DEF BeforeBoot
    <2>3. ~exposed'
      BY <1>3, <2>2 DEF PrepareEffect, Watched, TrackExposure, Exposed
    <2>4. \A s \in BeforeBoot \cup {"begin_cleanup"} :
            s \notin Observing /\ s \notin CollectSteps \cup {"verify_after"} /\ s # "force_stop"
      BY DEF Observing, CollectSteps, BeforeBoot, PrepareSteps
    <2>5. pc' \in BeforeBoot \cup {"begin_cleanup"}
      BY <2>2 DEF PrepareEffect
    <2> QED
      BY <2>3, <2>4, <2>5 DEF Watched, Acceptable
  <1>4. CASE Execute /\ TrackExposure
    BY <1>4, ExecuteWatched
  <1>5. ASSUME accepted' => accepted, pc' \notin BeforeBoot \cup Observing
        PROVE  Watched' /\ Acceptable
    BY <1>5 DEF Watched, Acceptable, Observing
  <1>6. CASE Clean
    <2>1. accepted' => accepted
      BY <1>6 DEF Clean, BeginCleanup, RefuseCleanup, StartCleanup, StopVmForCleanup,
         DetachForCleanup, RemoveTheVm, FinishCapture, RemoveControls, ReleaseAddress,
         JournalReleased, DismountData, DeleteData, DeleteOs, FinishCleanup, Reconcile, Exit
    <2>2. pc' \in StoppingSteps \cup ReclaimSteps \cup {"finish", "down"}
      <3>1. CASE RemoveTheVm
        <4>1. journal.network \in {"none", "lease", "owned"}
          BY DEF IInv, TypeOK, Journal, NetworkRecords
        <4>2. pc' \in {"finish_capture", "release_lease", "dismount_data", "finish"}
          BY <3>1, <4>1 DEF RemoveTheVm
        <4> QED
          BY <4>2 DEF ReclaimSteps
      <3>2. CASE ~RemoveTheVm
        BY <1>6, <3>2 DEF Clean, BeginCleanup, RefuseCleanup, StartCleanup, StopVmForCleanup,
           DetachForCleanup, FinishCapture, RemoveControls, ReleaseAddress, JournalReleased,
           DismountData, DeleteData, DeleteOs, FinishCleanup, Reconcile, Exit,
           StoppingSteps, ReclaimSteps
      <3> QED
        BY <3>1, <3>2
    <2>3. pc' \notin BeforeBoot \cup Observing
      BY <2>2 DEF BeforeBoot, PrepareSteps, Observing, CollectSteps, StoppingSteps,
         ReclaimSteps
    <2> QED
      BY <1>5, <2>1, <2>3
  <1>7. CASE Recover \/ ProcessCrash \/ HostReboot
    <2>1. (accepted' => accepted) /\ pc' \in {"start_cleanup", "down"}
      BY <1>7 DEF Recover, ProcessCrash, HostReboot, Exit
    <2>2. pc' \notin BeforeBoot \cup Observing
      BY <2>1 DEF BeforeBoot, PrepareSteps, Observing, CollectSteps
    <2> QED
      BY <1>5, <2>1, <2>2
  <1>8. CASE (Interrupt \/ GuestPowersOff \/ ControlsDrift) /\ TrackExposure
    <2>1. host \in Host /\ exposed \in BOOLEAN
      BY DEF IInv, TypeOK
    <2>2. UNCHANGED <<mode, pc, completion, accepted>>
      BY <1>8 DEF Interrupt, GuestPowersOff, ControlsDrift
    <2>3. NotRestored(host, host')
      <3>1. CASE Interrupt \/ GuestPowersOff
        BY <2>1, <3>1, NothingRestored DEF Interrupt, GuestPowersOff
      <3>2. CASE ControlsDrift
        BY <2>1, <3>2 DEF ControlsDrift, NotRestored, Host
      <3> QED
        BY <1>8, <3>1, <3>2
    <2>4. host.vm # "running" => host'.vm # "running"
      BY <2>3 DEF NotRestored
    <2>5. host.vm # "running" /\ ~exposed => ~exposed'
      BY <1>8, <2>4 DEF TrackExposure, Exposed
    <2>6. pc \in BeforeBoot => ~exposed'
      BY <2>5 DEF Watched, IInv, Secured
    <2>7. pc \in Observing => (exposed' => ~Contained(mode', host'))
      BY <1>8, <2>1, <2>2, <2>3, ExposureVisible DEF Watched
    <2> QED
      BY <2>2, <2>4, <2>5, <2>6, <2>7 DEF Watched, Acceptable
  <1> QED
    BY <1>1, <1>2, <1>3, <1>4, <1>6, <1>7, <1>8 DEF Next, Process, Recovery, Environment

\* Controls may drift at any moment, also between attestation and boot: no result is
\* accepted from a guest that ran outside its containment at any time.
THEOREM AcceptanceContained == Spec => AcceptedMeansContained
  <1>1. Init => Watched
    BY DEF Init, Watched, Observing, CollectSteps
  <1>2. IInv /\ IInv' /\ Watched /\ [Next]_vars => Watched' /\ [Acceptable]_vars
    BY NextWatched
  <1> QED
    BY <1>1, <1>2, Inductive, PTL DEF Spec, AcceptedMeansContained, Acceptable

-----------------------------------------------------------------------------
\* The refinement of DisposableVm.

\* Nothing that backs the VM comes or goes.
HeldSame(h, g) ==
    /\ h.osDisk = "absent" <=> g.osDisk = "absent"
    /\ h.dataDisk = "absent" <=> g.dataDisk = "absent"
    /\ h.rule = g.rule
    /\ h.lease = g.lease

\* The VM is left alone, or turned off, and what backs it stays.
StaysOrStops(h, g) ==
    HeldSame(h, g) /\ (g.vm = h.vm \/ (h.vm = "running" /\ g.vm = "off"))

\* The fields decide what is held.
LEMMA HeldByFields ==
    ASSUME NEW h, NEW g
    PROVE  /\ HeldSame(h, g) => Held(g) = Held(h)
           /\ Keeps(h, g) => Held(h) \subseteq Held(g)
  <1>1. \A x : /\ Held(x) = {r \in {"osDisk", "dataDisk"} : x[r] # "absent"}
                             \cup {r \in {"rule", "lease"} : x[r]}
    BY DEF Held
  <1> QED
    BY <1>1 DEF HeldSame, Keeps

\* No preparation step removes or starts the VM.
LEMMA PreparationKeepsVm ==
    ASSUME IInv, Prepare
    PROVE  host'.vm \in {host.vm, "off"}
  <1>1. host \in Host
    BY DEF IInv, TypeOK
  <1>2. \A o \in AllocateLease(host) \cup DismountDataDisk(host) \cup CreateOsDisk(host)
                   \cup CreateDataDisk(host) : o.host.vm = host.vm
    BY <1>1 DEF AllocateLease, DismountDataDisk, CreateOsDisk, CreateDataDisk, Script, Done,
       Refused, Broken, Host
  <1>3. \A o \in AttachDisks(host) \cup PrepareAdapter(host) \cup VerifyNetwork(mode, host) :
          o.host.vm = host.vm
    BY <1>1 DEF AttachDisks, PrepareAdapter, VerifyNetwork, Script, Done, Refused, Broken, Host
  <1>4. \A o \in CreateVm(host) : o.host.vm \in {host.vm, "off"}
    <2> DEFINE created == [host EXCEPT !.vm = "off", !.nic = "default"]
    <2>1. \A o \in CreateVm(host) : o.host = host \/ o.host = created
      BY DEF CreateVm, Script, Done, Refused, Broken
    <2>2. created.vm = "off"
      BY <1>1 DEF Host
    <2> HIDE DEF created
    <2> QED
      BY <2>1, <2>2
  <1>5. \A o \in ConfigureNetwork(mode, host) : o.host.vm = host.vm
    <2> DEFINE acls    == [host EXCEPT !.acls = TRUE]
               rule    == [acls EXCEPT !.rule = (mode = "host_server")]
               capture == [rule EXCEPT !.capture = "running"]
               session == [rule EXCEPT !.capture = "stopped"]
               offline == [host EXCEPT !.nic = "none"]
    <2>1. \A o \in ConfigureNetwork(mode, host) :
            o.host \in {host, acls, rule, capture, session, offline}
      BY DEF ConfigureNetwork, Script, Done, Refused, Broken
    <2>2. \A g \in {host, acls, rule, capture, session, offline} : g.vm = host.vm
      BY <1>1 DEF Host
    <2> HIDE DEF acls, rule, capture, session, offline
    <2> QED
      BY <2>1, <2>2
  <1>6. ASSUME NEW here, NEW outcomes, NEW next, Provision(here, outcomes, next),
               \A o \in outcomes : o.host.vm \in {host.vm, "off"}
        PROVE  host'.vm \in {host.vm, "off"}
    BY <1>6 DEF Provision, ScriptOutcome
  <1>7. CASE \/ CreateJournal \/ JournalLease \/ PlanOsDisk \/ JournalOsIdentity
             \/ PlanDataDisk \/ JournalDataMounted \/ JournalDataDetached
             \/ JournalVm \/ JournalNetwork \/ JournalReady
    BY <1>7 DEF CreateJournal, JournalLease, PlanOsDisk, JournalOsIdentity, PlanDataDisk,
       JournalDataMounted, JournalDataDetached, JournalVm, JournalNetwork, JournalReady, Track
  <1>8. CASE ReserveAddress
    BY <1>2, <1>8 DEF ReserveAddress, FileOutcome
  <1>9. CASE ProvisionOsDisk \/ ProvisionDataDisk \/ StageAndDismount
    BY <1>2, <1>6, <1>9 DEF ProvisionOsDisk, ProvisionDataDisk, StageAndDismount
  <1>10. CASE AttachRunDisks \/ PrepareControlledAdapter \/ VerifyPrepared
    BY <1>3, <1>6, <1>10 DEF AttachRunDisks, PrepareControlledAdapter, VerifyPrepared
  <1>11. CASE ProvisionVm
    BY <1>4, <1>6, <1>11 DEF ProvisionVm
  <1>12. CASE Configure
    BY <1>5, <1>6, <1>12 DEF Configure
  <1> QED
    BY <1>7, <1>8, <1>9, <1>10, <1>11, <1>12 DEF Prepare

\* An execution step other than the boot at most turns the VM off.
LEMMA ExecutionSteady ==
    ASSUME IInv, Execute, ~Start
    PROVE  StaysOrStops(host, host')
  <1>1. host \in Host
    BY DEF IInv, TypeOK
  <1>2. /\ StaysOrStops(host, host) /\ StaysOrStops(host, PoweredOff(host))
        /\ \A o \in StopVm(host) \cup VerifyNetwork(mode, host) :
              o.host \in {host, PoweredOff(host)}
    BY <1>1 DEF StaysOrStops, HeldSame, PoweredOff, StopVm, VerifyNetwork, Script, Done,
       Refused, Broken, Host
  <1>3. host.dataDisk # "absent" =>
          \A x \in {"mounted", "detached"} : StaysOrStops(host, [host EXCEPT !.dataDisk = x])
    BY <1>1 DEF StaysOrStops, HeldSame, Host
  <1>4. \A o \in MountDataDisk(host) \cup DismountDataDisk(host) : StaysOrStops(host, o.host)
    BY <1>2, <1>3 DEF MountDataDisk, DismountDataDisk, Script, Done, Refused, Broken
  <1>5. CASE VerifyBeforeStart \/ StopAfterError \/ ForceStop \/ VerifyAfter
    BY <1>2, <1>5 DEF VerifyBeforeStart, StopAfterError, ForceStop, VerifyAfter, RunScript,
       ScriptOutcome
  <1>6. CASE JournalRunning \/ JournalCollectMount \/ JournalCollectDismount
    BY <1>2, <1>6 DEF JournalRunning, JournalCollectMount, JournalCollectDismount, Record
  <1>7. CASE WaitForCompletion
    BY <1>2, <1>7 DEF WaitForCompletion, ObservePoweredOff, ObserveTimedOut, ObserveQuota,
       ObserveError, WatcherStopped
  <1>8. CASE CollectMount \/ CollectDismount
    BY <1>4, <1>8 DEF CollectMount, CollectDismount, RunScript, ScriptOutcome
  <1> QED
    BY <1>5, <1>6, <1>7, <1>8 DEF Execute

\* What backed the VM may go.
Sheds(h, g) ==
    /\ g.osDisk # "absent" => h.osDisk # "absent"
    /\ g.dataDisk # "absent" => h.dataDisk # "absent"
    /\ g.rule => h.rule
    /\ g.lease => h.lease

\* A cleanup step turns the VM off, removes it or, behind it, takes resources away.
LEMMA CleanSteady ==
    ASSUME IInv, Clean
    PROVE  \/ StaysOrStops(host, host')
           \/ HeldSame(host, host') /\ host'.vm = "absent"
           \/ host.vm = "absent" /\ host'.vm = "absent" /\ Sheds(host, host')
  <1>1. /\ host \in Host /\ journal \in Journal
        /\ pc \in ReclaimSteps => host.vm = "absent"
    BY DEF IInv, TypeOK, Secured
  <1>2. /\ StaysOrStops(host, host) /\ StaysOrStops(host, PoweredOff(host))
        /\ HeldSame(host, WithoutVm(host)) /\ WithoutVm(host).vm = "absent"
    BY <1>1 DEF StaysOrStops, HeldSame, PoweredOff, WithoutVm, Host
  <1>3. \A o \in StopVm(host) : o.host \in {host, PoweredOff(host)}
    BY DEF StopVm, Script, Done, Broken
  <1>4. \A o \in RemoveVm(host) : o.host \in {host, PoweredOff(host), WithoutVm(host)}
    BY DEF RemoveVm, Script, Done, Broken
  <1>5. \A o \in DetachDisks(host) : o.host = host
    BY DEF DetachDisks, Done, Refused, Broken
  <1>6. CASE BeginCleanup \/ RefuseCleanup \/ StartCleanup \/ FinishCleanup \/ JournalReleased
    BY <1>2, <1>6 DEF BeginCleanup, RefuseCleanup, StartCleanup, FinishCleanup,
       JournalReleased
  <1>7. CASE StopVmForCleanup \/ DetachForCleanup
    BY <1>2, <1>3, <1>5, <1>7 DEF StopVmForCleanup, DetachForCleanup, Reconcile, ScriptOutcome
  <1>8. CASE RemoveTheVm
    BY <1>2, <1>4, <1>8 DEF RemoveTheVm, ScriptOutcome
  <1>9. CASE FinishCapture \/ RemoveControls \/ ReleaseAddress \/ DismountData
             \/ DeleteData \/ DeleteOs
    <2>1. host.vm = "absent"
      BY <1>1, <1>9 DEF FinishCapture, RemoveControls, ReleaseAddress, DismountData,
         DeleteData, DeleteOs, Reconcile, ReclaimSteps
    <2> DEFINE Less(g) == g.vm = host.vm /\ Sheds(host, g)
    <2>2. Less(host')
      <3>1. CASE FinishCapture
        <4>1. PICK o \in StopCapture(host) : host' = o.host
          BY <3>1 DEF FinishCapture, Reconcile, ScriptOutcome
        <4> QED
          BY <1>1, <4>1 DEF StopCapture, Script, Done, Refused, Broken, Sheds, Host
      <3>2. CASE RemoveControls
        <4> DEFINE stopped   == [host EXCEPT !.capture = IF @ = "running"
                                                         THEN "stopped" ELSE @]
                   noCapture == [host EXCEPT !.capture = "absent"]
                   noRule    == [noCapture EXCEPT !.rule = FALSE]
        <4>1. PICK o \in RemoveHostControls(mode, host) : host' = o.host
          BY <3>2 DEF RemoveControls, ScriptOutcome
        <4>2. o.host \in {host, stopped, noCapture, noRule}
          BY DEF RemoveHostControls, Script, Done, Refused, Broken
        <4>3. \A g \in {host, stopped, noCapture, noRule} : Less(g)
          BY <1>1 DEF Sheds, Host
        <4> HIDE DEF stopped, noCapture, noRule
        <4> QED
          BY <4>1, <4>2, <4>3
      <3>3. CASE ReleaseAddress
        <4>1. PICK o \in ReleaseLease(host) : host' = o.host
          BY <3>3 DEF ReleaseAddress, FileOutcome
        <4> QED
          BY <1>1, <4>1 DEF ReleaseLease, Done, Refused, Broken, Sheds, Host
      <3>4. CASE DismountData
        <4>1. PICK o \in ReconcileMount(journal, host) : host' = o.host
          BY <3>4 DEF DismountData, Reconcile, ScriptOutcome
        <4>2. journal.data \in {"none", "planned", "mounted", "detached"}
          BY <1>1 DEF Journal, DataDiskStates
        <4>3. o \in DismountDataDisk(host) \/ o \in {Done(host), Refused(host)}
          BY <4>2 DEF ReconcileMount
        <4> QED
          BY <1>1, <4>1, <4>3 DEF DismountDataDisk, Script, Done, Refused, Broken, Sheds, Host
      <3>5. CASE DeleteData
        <4>1. PICK o \in DeleteDataDisk(host, DataIdentified(journal)) \cup {Done(host)} :
                host' = o.host
          BY <3>5 DEF DeleteData, Reconcile, ScriptOutcome
        <4> QED
          BY <1>1, <4>1 DEF DeleteDataDisk, Done, Refused, Broken, Sheds, Host
      <3>6. CASE DeleteOs
        <4>1. PICK o \in DeleteOsDisk(host, journal.osId) \cup {Done(host)} :
                host' = o.host
          BY <3>6 DEF DeleteOs, Reconcile, ScriptOutcome
        <4> QED
          BY <1>1, <4>1 DEF DeleteOsDisk, Done, Refused, Broken, Sheds, Host
      <3> QED
        BY <1>9, <3>1, <3>2, <3>3, <3>4, <3>5, <3>6
    <2> QED
      BY <2>1, <2>2
  <1> QED
    BY <1>6, <1>7, <1>8, <1>9 DEF Clean

\* Recovery and, without drift, the environment at most turn the VM off.
LEMMA EnvironmentSteady ==
    ASSUME IInv, ~MayDrift, Recover \/ Environment
    PROVE  StaysOrStops(host, host')
  <1>1. host \in Host
    BY DEF IInv, TypeOK
  <1>2. StaysOrStops(host, host) /\ StaysOrStops(host, PoweredOff(host))
    BY <1>1 DEF StaysOrStops, HeldSame, PoweredOff, Host
  <1>3. CASE Recover \/ Interrupt \/ ProcessCrash \/ GuestPowersOff
    BY <1>2, <1>3 DEF Recover, Interrupt, ProcessCrash, GuestPowersOff
  <1>4. CASE HostReboot
    <2> DEFINE off == PoweredOff(host)
               disk(d) == IF d = "mounted" THEN "detached" ELSE d
    <2>1. PICK c \in {"absent", "stopped"} :
            host' = [off EXCEPT !.dataDisk = disk(@), !.capture = c]
      BY <1>4 DEF HostReboot, AfterReboot
    <2>2. off \in Host /\ StaysOrStops(host, off)
      BY <1>1, <1>2, VmOperationsTyped
    <2> HIDE DEF off
    <2>3. /\ host'.vm = off.vm /\ host'.osDisk = off.osDisk /\ host'.rule = off.rule
          /\ host'.lease = off.lease /\ host'.dataDisk = disk(off.dataDisk)
      BY <2>1, <2>2 DEF Host
    <2> QED
      BY <2>2, <2>3 DEF StaysOrStops, HeldSame
  <1>5. ~ControlsDrift
    BY DEF ControlsDrift
  <1> QED
    BY <1>3, <1>4, <1>5 DEF Environment

\* While nobody else interferes with the controls, every step of a run is a step of
\* the disposable VM or changes nothing of it: the guest boots only contained, stays
\* contained until it is off, and what backs it goes only behind it.
THEOREM ImplementsDisposableVm ==
    ASSUME ~MayDrift
    PROVE  Spec => Abstract!AInit /\ [][Abstract!ANext]_(Abstract!avars)
  <1>1. Init => Abstract!AInit
    <2> SUFFICES ASSUME Init PROVE Abstract!AInit
      OBVIOUS
    <2>1. host.vm = "absent" /\ Held(host) = {}
      BY DEF Init, CleanHost, Held
    <2>2. Contained(mode, host) \in BOOLEAN
      BY DEF Init, CleanHost, Contained
    <2> QED
      BY <2>1, <2>2 DEF Abstract!AInit
  <1>2. IInv /\ IInv' /\ [Next]_vars => [Abstract!ANext]_(Abstract!avars)
    <2> SUFFICES ASSUME IInv, IInv', [Next]_vars
                 PROVE  [Abstract!ANext]_(Abstract!avars)
      OBVIOUS
    <2>1. /\ host \in Host /\ host.vm \in {"absent", "off", "running"} /\ Secured
          /\ host' \in Host /\ host'.vm \in {"absent", "off", "running"}
      BY DEF IInv, TypeOK, Host
    <2>2. Contained(mode', host') \in BOOLEAN
      BY <2>1 DEF Contained, Host
    <2>3. ASSUME host' = host, mode' = mode
          PROVE  UNCHANGED Abstract!avars
      BY <2>3 DEF Abstract!avars, Contained, Held
    <2>4. ASSUME StaysOrStops(host, host'), Undisturbed(host, host'), mode' = mode
          PROVE  [Abstract!ANext]_(Abstract!avars)
      <3>1. Held(host') = Held(host)
        BY <2>4, HeldByFields DEF StaysOrStops
      <3>2. CASE host'.vm = "running"
        BY <2>3, <2>4, <3>2 DEF Undisturbed
      <3>3. CASE host.vm = "running" /\ host'.vm = "off"
        BY <2>2, <3>1, <3>3 DEF Abstract!ANext, Abstract!APowerOff
      <3>4. CASE host'.vm = host.vm /\ host.vm # "running"
        BY <2>1, <2>2, <3>1, <3>4 DEF Abstract!ANext, Abstract!AProvision
      <3> QED
        BY <2>1, <2>4, <3>2, <3>3, <3>4 DEF StaysOrStops
    <2>5. CASE UNCHANGED vars \/ RecoverNothing
      BY <2>3, <2>5 DEF vars, RecoverNothing
    <2>6. CASE Prepare
      <3>1. PrepareEffect /\ host'.vm \in {host.vm, "off"} /\ pc \in BeforeBoot
        <4>1. pc \in PrepareSteps
          BY <2>6 DEF Prepare, CreateJournal, ReserveAddress, JournalLease, PlanOsDisk,
             ProvisionOsDisk, JournalOsIdentity, PlanDataDisk, ProvisionDataDisk,
             JournalDataMounted, StageAndDismount, JournalDataDetached, ProvisionVm,
             JournalVm, AttachRunDisks, PrepareControlledAdapter, JournalNetwork, Configure,
             VerifyPrepared, JournalReady, Track, Provision, PrepareSteps
        <4> QED
          BY <2>6, <4>1, PrepareEffects, PreparationKeepsVm DEF BeforeBoot
      <3>2. host.vm \in {"absent", "off"} /\ Held(host) \subseteq Held(host')
        BY <2>1, <3>1, HeldByFields DEF PrepareEffect, Secured
      <3> QED
        BY <2>2, <3>1, <3>2 DEF Abstract!ANext, Abstract!AProvision
    <2>7. CASE Start
      <3>1. PICK o \in StartVm(host) : host' = o.host
        BY <2>7 DEF Start, RunScript, ScriptOutcome
      <3>2. /\ pc = "start_vm" /\ mode' = mode /\ Contained(mode, host)
        BY <2>1, <2>7 DEF Start, RunScript, Secured, Attested
      <3>3. host' = host \/ (host.vm = "off" /\ host' = [host EXCEPT !.vm = "running"])
        BY <3>1 DEF StartVm, Script, Done, Refused, Broken
      <3>4. CASE host.vm = "off" /\ host' = [host EXCEPT !.vm = "running"]
        <4>1. /\ host'.vm = "running" /\ HeldSame(host, host')
              /\ host'.nic = host.nic /\ host'.acls = host.acls
              /\ host'.capture = host.capture /\ host'.rule = host.rule
          BY <2>1, <3>4 DEF HeldSame, Host
        <4>2. Contained(mode', host') = Contained(mode, host) /\ Held(host') = Held(host)
          BY <3>2, <4>1, HeldByFields DEF Contained
        <4> QED
          BY <3>2, <3>4, <4>1, <4>2 DEF Abstract!ANext, Abstract!ABoot
      <3> QED
        BY <2>3, <3>2, <3>3, <3>4
    <2>8. CASE Execute /\ ~Start
      BY <2>4, <2>8, ExecutionSteady, ExecuteEffects DEF ExecuteEffect
    <2>9. CASE Clean
      <3>1. CleanEffect
        BY <2>9, CleanEffects
      <3>2. CASE StaysOrStops(host, host')
        BY <2>4, <3>1, <3>2 DEF CleanEffect
      <3>3. CASE HeldSame(host, host') /\ host'.vm = "absent"
        <4>1. Held(host') = Held(host)
          BY <3>3, HeldByFields
        <4> QED
          BY <2>2, <3>3, <4>1 DEF Abstract!ANext, Abstract!ARemove
      <3>4. CASE host.vm = "absent" /\ host'.vm = "absent" /\ Sheds(host, host')
        <4>1. Held(host') \subseteq Held(host)
          BY <3>4, HeldByFields DEF Sheds, Keeps
        <4> QED
          BY <2>2, <3>4, <4>1 DEF Abstract!ANext, Abstract!AReclaim
      <3> QED
        BY <2>9, <3>2, <3>3, <3>4, CleanSteady
    <2>10. CASE Recover \/ Environment
      <3>1. StaysOrStops(host, host')
        BY <2>10, EnvironmentSteady
      <3>2. mode' = mode /\ Undisturbed(host, host')
        BY <2>10, EnvironmentEffects DEF Undisturbed
      <3> QED
        BY <2>4, <3>1, <3>2
    <2> QED
      BY <2>5, <2>6, <2>7, <2>8, <2>9, <2>10 DEF Next, Process, Recovery
  <1> QED
    BY <1>1, <1>2, Inductive, PTL DEF Spec
=============================================================================
