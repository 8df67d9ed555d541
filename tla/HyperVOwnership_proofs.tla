----------------------- MODULE HyperVOwnership_proofs -----------------------
(***************************************************************************)
(* Ownership and honesty of a Hyper-V run, for every number of journal     *)
(* generations and disturbances: what exists on the host is named by the   *)
(* journal that recovery would read, a cleanup that succeeds has left      *)
(* nothing, and one that fails names what it left.                         *)
(***************************************************************************)
EXTENDS HyperVRun_proofs

Controls(h) == h.rule \/ h.capture # "absent"

\* No adapter and no ACLs outlive the VM.
Bare(h) == h.vm = "absent" => h.nic = "none" /\ ~h.acls

Empty(h) == /\ h.vm = "absent" /\ h.osDisk = "absent" /\ h.dataDisk = "absent"
            /\ ~Controls(h)

\* Cleanup of j finds everything that is on the host h.
Names(j, h) ==
    /\ h.vm # "absent" => j.seq > 0
    /\ h.osDisk # "absent" => j.osDisk
    /\ h.dataDisk # "absent" => j.data # "none"
    /\ Controls(h) => j.network = "owned"

Unfinished(j) == j.phase # "finished"

\* The running process holds a journal as good as the one on disk, and has not
\* reported yet.
Ongoing ==
    pc # "down" => /\ Names(journal, host) /\ Unfinished(journal)
                   /\ report.status \in {"none", "open"}

Finished ==
    ~Unfinished(store.latest) =>
        pc = "down" /\ Empty(host) /\ NamesNothing(store.latest)

Honest == report.status = "success" => Empty(host)

\* Preparation works on the journal that is on disk, and names before it creates.
Planned ==
    /\ pc \in PrepareSteps => journal = store.latest /\ tracked = store.latest
    /\ pc \in (PrepareSteps \cup ExecuteSteps) \ {"create_journal"} => journal.seq > 0
    /\ pc \in {"create_journal", "begin_cleanup"} => journal.seq > 0 \/ NamesNothing(journal)
    /\ pc \in {"create_journal", "reserve_address", "journal_lease"} =>
          journal.network = "none"
    /\ pc = "create_os_disk" => journal.osDisk
    /\ pc = "create_data_disk" => journal.data # "none"
    /\ pc = "configure_network" /\ mode # "deny_all" => journal.network = "owned"

\* What each cleanup step has removed is gone or reported.
Reclaimed ==
    /\ pc \in {"release_lease", "journal_released"} => ~Controls(host)
    /\ pc \in {"dismount_data", "delete_data", "delete_os", "finish"} =>
          (Controls(host) => "network" \in report.left)
    /\ pc \in {"delete_os", "finish"} =>
          (host.dataDisk # "absent" => "data_disk" \in report.left)
    /\ pc = "finish" => /\ host.osDisk # "absent" => "os_disk" \in report.left
                        /\ host.vm # "absent" => "vm" \in report.left

\* Every kind of resource of the host h is in left.
Tells(left, h) ==
    /\ h.vm # "absent" => "vm" \in left
    /\ h.osDisk # "absent" => "os_disk" \in left
    /\ h.dataDisk # "absent" => "data_disk" \in left
    /\ Controls(h) => "network" \in left

Told == report.status = "failure" /\ "run_root" \notin report.left => Tells(report.left, host)

Owned == /\ Bare(host) /\ Names(store.latest, host)
         /\ Ongoing /\ Finished /\ Honest /\ Planned /\ Reclaimed /\ Told

-----------------------------------------------------------------------------
\* Operations that bring no new kind of resource into being.

Shrinks(h, g) ==
    /\ Bare(h) => Bare(g)
    /\ g.vm # "absent" => h.vm # "absent"
    /\ g.osDisk # "absent" => h.osDisk # "absent"
    /\ g.dataDisk # "absent" => h.dataDisk # "absent"
    /\ Controls(g) => Controls(h)

\* What was named, empty or told of stays so when nothing comes into being.
LEMMA ShrinkingKeeps ==
    ASSUME NEW h, NEW g, Shrinks(h, g)
    PROVE  /\ Bare(h) => Bare(g)
           /\ Empty(h) => Empty(g)
           /\ \A j : Names(j, h) => Names(j, g)
           /\ \A left : Tells(left, h) => Tells(left, g)
  BY DEF Shrinks, Empty, Names, Tells

\* A host of which nothing remains is the clean host but for the lease.
LEMMA EmptyHost ==
    ASSUME NEW h \in Host, Bare(h), Empty(h)
    PROVE  NothingButLease(h)
  <1> DEFINE g == [h EXCEPT !.lease = FALSE]
  <1>1. g \in Host
    BY HostFields
  <1>2. /\ g.vm = h.vm /\ g.nic = h.nic /\ g.acls = h.acls /\ g.rule = h.rule
        /\ g.capture = h.capture /\ g.lease = FALSE /\ g.osDisk = h.osDisk
        /\ g.dataDisk = h.dataDisk
    BY DEF Host
  <1> HIDE DEF g
  <1>3. g = [vm |-> g.vm, nic |-> g.nic, acls |-> g.acls, rule |-> g.rule,
             capture |-> g.capture, lease |-> g.lease, osDisk |-> g.osDisk,
             dataDisk |-> g.dataDisk]
    BY <1>1 DEF Host
  <1>4. /\ h.vm = "absent" /\ h.nic = "none" /\ h.acls = FALSE /\ h.rule = FALSE
        /\ h.capture = "absent" /\ h.osDisk = "absent" /\ h.dataDisk = "absent"
    BY DEF Bare, Empty, Controls, Host
  <1>5. g = CleanHost
    BY <1>2, <1>3, <1>4 DEF CleanHost
  <1> QED
    BY <1>5 DEF NothingButLease, g

\* Powering off, stopping, removing and looking at the VM creates nothing.
LEMMA VmShrinks ==
    ASSUME NEW h \in Host, NEW m
    PROVE  /\ Shrinks(h, h)
           /\ \A o \in StopVm(h) \cup StartVm(h) \cup AttachDisks(h) \cup DetachDisks(h)
                        \cup VerifyNetwork(m, h) : Shrinks(h, o.host)
           /\ \A o \in RemoveVm(h) :
                 Shrinks(h, o.host) /\ (o.ok => o.host.vm = "absent")
  <1>1. Shrinks(h, h) /\ Shrinks(h, PoweredOff(h))
    BY DEF PoweredOff, Shrinks, Bare, Controls, Host
  <1>2. Shrinks(h, WithoutVm(h)) /\ WithoutVm(h).vm = "absent"
    BY DEF WithoutVm, Shrinks, Bare, Controls, Host
  <1>3. h.vm = "off" => Shrinks(h, [h EXCEPT !.vm = "running"])
    BY DEF Shrinks, Bare, Controls, Host
  <1>4. \A o \in StopVm(h) : o.host \in {h, PoweredOff(h)}
    BY DEF StopVm, Script, Done, Broken
  <1>5. \A o \in StartVm(h) : Shrinks(h, o.host)
    BY <1>1, <1>3 DEF StartVm, Script, Done, Refused, Broken
  <1>6. \A o \in AttachDisks(h) \cup DetachDisks(h) \cup VerifyNetwork(m, h) : o.host = h
    BY DEF AttachDisks, DetachDisks, VerifyNetwork, Done, Refused, Broken
  <1>7. \A o \in RemoveVm(h) : o.host \in {h, PoweredOff(h), WithoutVm(h)}
                               /\ (o.ok => o.host = WithoutVm(h))
    BY DEF RemoveVm, Script, Done, Broken
  <1> QED
    BY <1>1, <1>2, <1>4, <1>5, <1>6, <1>7

\* Mounting, dismounting and deleting the disks creates nothing; what is deleted
\* with success is gone.
LEMMA DiskShrinks ==
    ASSUME NEW h \in Host, NEW identified \in BOOLEAN
    PROVE  /\ \A o \in MountDataDisk(h) \cup DismountDataDisk(h) : Shrinks(h, o.host)
           /\ \A o \in DeleteDataDisk(h, identified) :
                 Shrinks(h, o.host) /\ (o.ok => o.host.dataDisk = "absent")
           /\ \A o \in DeleteOsDisk(h, identified) :
                 Shrinks(h, o.host) /\ (o.ok => o.host.osDisk = "absent")
  <1> DEFINE noData == [h EXCEPT !.dataDisk = "absent"]
             noOs   == [h EXCEPT !.osDisk = "absent"]
  <1>1. /\ h.dataDisk # "absent" => /\ Shrinks(h, [h EXCEPT !.dataDisk = "mounted"])
                                    /\ Shrinks(h, [h EXCEPT !.dataDisk = "detached"])
        /\ Shrinks(h, noData) /\ noData.dataDisk = "absent"
        /\ Shrinks(h, noOs) /\ noOs.osDisk = "absent"
        /\ Shrinks(h, h)
    BY DEF Shrinks, Bare, Controls, Host
  <1>2. \A o \in MountDataDisk(h) : Shrinks(h, o.host)
    BY <1>1 DEF MountDataDisk, Script, Done, Refused, Broken
  <1>3. \A o \in DismountDataDisk(h) : Shrinks(h, o.host)
    BY <1>1 DEF DismountDataDisk, Script, Done, Broken
  <1>4. \A o \in DeleteDataDisk(h, identified) :
          Shrinks(h, o.host) /\ (o.ok => o.host.dataDisk = "absent")
    <2>1. \A o \in DeleteDataDisk(h, identified) :
            /\ o.host \in {h, noData}
            /\ o.ok => o.host = noData \/ (o.host = h /\ h.dataDisk = "absent")
      BY DEF DeleteDataDisk, Done, Refused, Broken
    <2> HIDE DEF noData
    <2> QED
      BY <1>1, <2>1
  <1>5. \A o \in DeleteOsDisk(h, identified) :
          Shrinks(h, o.host) /\ (o.ok => o.host.osDisk = "absent")
    <2>1. \A o \in DeleteOsDisk(h, identified) :
            /\ o.host \in {h, noOs}
            /\ o.ok => o.host = noOs \/ (o.host = h /\ h.osDisk = "absent")
      BY DEF DeleteOsDisk, Done, Refused, Broken
    <2> HIDE DEF noOs
    <2> QED
      BY <1>1, <2>1
  <1> QED
    BY <1>2, <1>3, <1>4, <1>5

\* The lease is no resource ownership is about; adapter, capture and firewall rule
\* are only taken away, and all of the controls by a removal that succeeds.
LEMMA NetworkShrinks ==
    ASSUME NEW h \in Host, NEW m, h.rule => m = "host_server"
    PROVE  /\ \A o \in AllocateLease(h) \cup ReleaseLease(h) \cup PrepareAdapter(h)
                        \cup StopCapture(h) : Shrinks(h, o.host)
           /\ \A o \in RemoveHostControls(m, h) :
                 Shrinks(h, o.host) /\ (o.ok => ~Controls(o.host))
  <1>1. /\ Shrinks(h, [h EXCEPT !.lease = TRUE]) /\ Shrinks(h, [h EXCEPT !.lease = FALSE])
        /\ h.vm # "absent" => \A x \in {"none", "controlled"} : Shrinks(h, [h EXCEPT !.nic = x])
        /\ h.capture # "absent" => Shrinks(h, [h EXCEPT !.capture = "stopped"])
        /\ Shrinks(h, h)
    BY DEF Shrinks, Bare, Controls, Host
  <1>2. \A o \in AllocateLease(h) \cup ReleaseLease(h) : Shrinks(h, o.host)
    <2>1. \A o \in AllocateLease(h) \cup ReleaseLease(h) :
            o.host \in {h, [h EXCEPT !.lease = TRUE], [h EXCEPT !.lease = FALSE]}
      BY DEF AllocateLease, ReleaseLease, Done, Refused, Broken
    <2> QED
      BY <1>1, <2>1
  <1>3. \A o \in PrepareAdapter(h) : Shrinks(h, o.host)
    BY <1>1 DEF PrepareAdapter, Script, Done, Refused, Broken
  <1>4. \A o \in StopCapture(h) : Shrinks(h, o.host)
    BY <1>1 DEF StopCapture, Script, Done, Refused, Broken
  <1>5. \A o \in RemoveHostControls(m, h) :
          Shrinks(h, o.host) /\ (o.ok => ~Controls(o.host))
    <2> DEFINE stopped   == [h EXCEPT !.capture = IF @ = "running" THEN "stopped" ELSE @]
               noCapture == [h EXCEPT !.capture = "absent"]
               noRule    == [noCapture EXCEPT !.rule = FALSE]
    <2>1. \A o \in RemoveHostControls(m, h) :
            /\ o.host \in {h, stopped, noCapture, noRule}
            /\ o.ok => o.host = noRule
      BY DEF RemoveHostControls, Script, Done, Refused, Broken
    <2>2. /\ Shrinks(h, stopped) /\ Shrinks(h, noCapture) /\ Shrinks(h, noRule)
          /\ ~Controls(noRule)
      BY DEF Shrinks, Bare, Controls, Host
    <2> HIDE DEF stopped, noCapture, noRule
    <2> QED
      BY <1>1, <2>1, <2>2
  <1> QED
    BY <1>2, <1>3, <1>4, <1>5

-----------------------------------------------------------------------------
\* Writing a generation.

\* Numbering a journal changes what it names in nothing.
LEMMA NumberedNames ==
    ASSUME NEW j \in Journal
    PROVE  /\ Numbered(j).seq = j.seq + 1 /\ Numbered(j).seq > 0
           /\ Numbered(j).phase = j.phase /\ Numbered(j).data = j.data
           /\ Numbered(j).osDisk = j.osDisk /\ Numbered(j).network = j.network
           /\ NamesNothing(Numbered(j)) <=> NamesNothing(j)
           /\ \A h : Names(j, h) => Names(Numbered(j), h)
  <1>1. /\ Numbered(j).seq = j.seq + 1 /\ Numbered(j).phase = j.phase
        /\ Numbered(j).vm = j.vm /\ Numbered(j).osDisk = j.osDisk
        /\ Numbered(j).osId = j.osId /\ Numbered(j).data = j.data
        /\ Numbered(j).network = j.network
    BY DEF Journal, Numbered
  <1>2. j.seq \in Nat
    BY MaxSequenceAssumption DEF Journal
  <1> HIDE DEF Numbered
  <1> QED
    BY <1>1, <1>2 DEF NamesNothing, Names

\* However a write ends, memory and disk name what the written journal names, and
\* only a journal that names nothing is written as finished.
LEMMA PersistNames ==
    ASSUME NEW j \in Journal, store \in Store, NEW o \in PersistOutcomes(j, store),
           PersistOutcome(o)
    PROVE  /\ o.journal \in {j, Numbered(j)}
           /\ store'.latest \in {store.latest, Numbered(j)}
           /\ ~Unfinished(store'.latest) =>
                 ~Unfinished(store.latest)
                 \/ (~Unfinished(j) /\ NamesNothing(j) /\ NamesNothing(store'.latest))
           /\ \A h : Names(j, h) => /\ Names(o.journal, h)
                                    /\ Names(store.latest, h) => Names(store'.latest, h)
           /\ o.ok => /\ o.journal = Numbered(j) /\ ValidJournal(j)
                      /\ store'.latest = Later(store.latest, Numbered(j))
  <1> DEFINE next == Numbered(j)
  <1>1. /\ o.journal \in {j, next}
        /\ o.store = store \/ (ValidJournal(j)
                               /\ o.store \in {TornWrite(next, store), Written(next, store)})
        /\ o.ok => o.journal = next /\ ValidJournal(j) /\ o.store = Written(next, store)
    BY DEF PersistOutcomes
  <1>2. /\ TornWrite(next, store).latest = store.latest
        /\ Written(next, store).latest = Later(store.latest, next)
        /\ Later(store.latest, next) \in {store.latest, next}
    BY DEF TornWrite, Written, Later, Store
  <1>3. store' = o.store
    BY DEF PersistOutcome
  <1>4. /\ \A h : Names(j, h) => Names(next, h)
        /\ next.phase = j.phase
        /\ NamesNothing(next) <=> NamesNothing(j)
    BY NumberedNames
  <1> HIDE DEF next
  <1>5. /\ store'.latest \in {store.latest, next}
        /\ store'.latest # store.latest => ValidJournal(j)
        /\ o.ok => store'.latest = Later(store.latest, next)
    BY <1>1, <1>2, <1>3
  <1>6. ~Unfinished(store'.latest) =>
          ~Unfinished(store.latest)
          \/ (~Unfinished(j) /\ NamesNothing(j) /\ NamesNothing(store'.latest))
    <2>1. CASE store'.latest = store.latest
      BY <2>1 DEF Unfinished
    <2>2. CASE store'.latest # store.latest
      <3>1. ValidJournal(j) /\ store'.latest = next
        BY <1>5, <2>2
      <3>2. store'.latest.phase = j.phase /\ (NamesNothing(j) => NamesNothing(store'.latest))
        BY <1>4, <3>1
      <3> QED
        BY <3>1, <3>2 DEF Unfinished, ValidJournal
    <2> QED
      BY <2>1, <2>2
  <1> QED
    BY <1>1, <1>4, <1>5, <1>6 DEF next

-----------------------------------------------------------------------------
\* One lemma per shape of step.

\* A preparation step that writes a generation: the journal it writes names what is
\* there, and what the next step creates.
LEMMA TrackOwned ==
    ASSUME IInv, Owned, NEW here \in PrepareSteps, NEW j \in Journal,
           NEW next \in (PrepareSteps \cup {"verify_before_start"}) \ {"create_journal"},
           Track(here, j, next),
           j.seq = journal.seq, Unfinished(j), Names(j, host),
           next \in {"reserve_address", "journal_lease"} => j.network = "none",
           next = "create_os_disk" => j.osDisk,
           next = "create_data_disk" => j.data # "none",
           next = "configure_network" /\ mode # "deny_all" => j.network = "owned"
    PROVE  Owned'
  <1>1. PICK o \in PersistOutcomes(j, store) :
          /\ PersistOutcome(o)
          /\ IF o.ok
             THEN pc' = next /\ journal' = o.journal /\ tracked' = o.journal
             ELSE AbandonPreparation /\ UNCHANGED tracked
    BY DEF Track
  <1>2. pc = here /\ host' = host /\ mode' = mode /\ report' = report
    BY DEF Track
  <1>3. store \in Store /\ journal \in Journal
    BY DEF IInv, TypeOK
  <1>4. /\ pc \in PrepareSteps /\ pc # "down"
        /\ next \notin {"begin_cleanup", "down", "release_lease", "journal_released",
                        "dismount_data", "delete_data", "delete_os", "finish"}
    BY <1>2 DEF PrepareSteps
  <1>5. /\ journal = store.latest /\ tracked = store.latest /\ Names(store.latest, host)
        /\ Unfinished(store.latest) /\ report.status \in {"none", "open"} /\ Bare(host)
        /\ journal.seq > 0 \/ NamesNothing(journal)
    BY <1>4 DEF Owned, Planned, Ongoing
  <1>6. Names(store'.latest, host') /\ Unfinished(store'.latest)
    BY <1>1, <1>2, <1>3, <1>5, PersistNames DEF Unfinished
  <1>7. Finished' /\ Honest' /\ Told'
    BY <1>2, <1>5, <1>6 DEF Finished, Honest, Told
  <1>8. CASE o.ok
    <2>1. o.journal = Numbered(j) /\ store'.latest = Later(store.latest, Numbered(j))
      BY <1>1, <1>3, <1>8, PersistNames
    <2>2. /\ Numbered(j).seq = j.seq + 1 /\ Numbered(j).seq > 0
          /\ Numbered(j).phase = j.phase /\ Numbered(j).data = j.data
          /\ Numbered(j).osDisk = j.osDisk /\ Numbered(j).network = j.network
          /\ Names(Numbered(j), host)
      BY NumberedNames
    <2>3. j.seq \in Nat /\ store.latest.seq = j.seq
      BY <1>5, MaxSequenceAssumption DEF Journal
    <2>4. store'.latest = Numbered(j)
      BY <2>1, <2>2, <2>3 DEF Later
    <2>5. pc' = next /\ journal' = Numbered(j) /\ tracked' = Numbered(j)
      BY <1>1, <1>8, <2>1
    <2>6. Ongoing' /\ Planned'
      BY <1>2, <1>4, <1>5, <2>2, <2>4, <2>5 DEF Ongoing, Planned, Unfinished
    <2>7. Reclaimed'
      BY <1>4, <2>5 DEF Reclaimed
    <2> QED
      BY <1>2, <1>5, <1>6, <1>7, <2>6, <2>7 DEF Owned
  <1>9. CASE ~o.ok
    <2>1. pc' = "begin_cleanup" /\ journal' = journal
      BY <1>1, <1>5, <1>9 DEF AbandonPreparation
    <2>2. Ongoing' /\ Planned' /\ Reclaimed'
      BY <1>2, <1>5, <2>1 DEF Ongoing, Planned, Reclaimed, PrepareSteps, ExecuteSteps
    <2> QED
      BY <1>2, <1>5, <1>6, <1>7, <2>2 DEF Owned
  <1> QED
    BY <1>8, <1>9

\* A preparation step that does not write: all it can have created is named.
LEMMA PreparedOwned ==
    ASSUME IInv, Owned, pc \in PrepareSteps \ {"create_journal"},
           UNCHANGED <<mode, store, tracked, report>>,
           Bare(host'), Names(journal, host'),
           pc' \in (PrepareSteps \cup {"begin_cleanup"})
                     \ {"create_journal", "create_os_disk", "create_data_disk"},
           pc' = "configure_network" => mode = "deny_all",
           pc' \in {"reserve_address", "journal_lease"} => journal.network = "none",
           journal' = journal \/ journal' = tracked
    PROVE  Owned'
  <1>1. /\ pc # "down"
        /\ pc' \notin {"down", "release_lease", "journal_released",
                       "dismount_data", "delete_data", "delete_os", "finish"}
    BY DEF PrepareSteps
  <1>2. /\ journal = store.latest /\ tracked = store.latest
        /\ Unfinished(store.latest) /\ report.status \in {"none", "open"}
        /\ journal.seq > 0
    BY <1>1 DEF Owned, Planned, Ongoing
  <1>3. Finished' /\ Honest' /\ Told' /\ Names(store'.latest, host')
    BY <1>2 DEF Finished, Honest, Told
  <1>4. Ongoing' /\ Planned'
    BY <1>2 DEF Ongoing, Planned
  <1>5. Reclaimed'
    BY <1>1 DEF Reclaimed
  <1> QED
    BY <1>3, <1>4, <1>5 DEF Owned

\* The script of a preparation step creates only what the journal names.
LEMMA ProvisionOwned ==
    ASSUME IInv, Owned, NEW here \in PrepareSteps \ {"create_journal"}, NEW outcomes,
           NEW next \in PrepareSteps \ {"create_journal", "create_os_disk", "create_data_disk"},
           Provision(here, outcomes, next),
           next = "configure_network" => mode = "deny_all",
           next \notin {"reserve_address", "journal_lease"},
           \A o \in outcomes : Bare(o.host) /\ Names(journal, o.host)
    PROVE  Owned'
  <1>1. PICK o \in outcomes :
          /\ ScriptOutcome(outcomes, o)
          /\ IF o.ok THEN pc' = next /\ UNCHANGED journal ELSE AbandonPreparation
    BY DEF Provision
  <1>2. pc = here /\ UNCHANGED <<mode, store, tracked, report>> /\ host' = o.host
    BY <1>1 DEF Provision, ScriptOutcome
  <1>3. /\ pc' = next \/ pc' = "begin_cleanup"
        /\ journal' = journal \/ journal' = tracked
    BY <1>1 DEF AbandonPreparation
  <1>4. Bare(host') /\ Names(journal, host')
    BY <1>2
  <1>5. "begin_cleanup" \notin {"create_journal", "create_os_disk", "create_data_disk",
                                "configure_network", "reserve_address", "journal_lease"}
    OBVIOUS
  <1> QED
    BY <1>2, <1>3, <1>4, <1>5, PreparedOwned

\* An execution step, up to the begin of cleanup, creates nothing.
LEMMA ExecutedOwned ==
    ASSUME Owned, pc \in ExecuteSteps, pc' \in ExecuteSteps \cup {"begin_cleanup"},
           Shrinks(host, host'), Names(journal', host'), Unfinished(journal'),
           journal'.seq > 0, report' = report,
           Names(store'.latest, host'), Unfinished(store'.latest)
    PROVE  Owned'
  <1>1. /\ pc # "down"
        /\ pc' \notin PrepareSteps \cup {"down", "release_lease", "journal_released",
                       "dismount_data", "delete_data", "delete_os", "finish"}
    BY DEF ExecuteSteps, PrepareSteps
  <1>2. report.status \in {"none", "open"} /\ Bare(host)
    BY <1>1 DEF Owned, Ongoing
  <1>3. Bare(host')
    BY <1>2, ShrinkingKeeps
  <1>4. Finished' /\ Honest' /\ Told' /\ Ongoing'
    BY <1>2 DEF Finished, Honest, Told, Ongoing
  <1>5. Planned'
    BY <1>1 DEF Planned, PrepareSteps
  <1>6. Reclaimed'
    BY <1>1 DEF Reclaimed
  <1> QED
    BY <1>3, <1>4, <1>5, <1>6 DEF Owned

\* An execution step that runs a script.
LEMMA RunScriptOwned ==
    ASSUME IInv, Owned, NEW here \in ExecuteSteps, NEW outcomes,
           NEW ok \in ExecuteSteps \cup {"begin_cleanup"},
           NEW failed \in ExecuteSteps \cup {"begin_cleanup"},
           RunScript(here, outcomes, ok, failed),
           \A o \in outcomes : Shrinks(host, o.host)
    PROVE  Owned'
  <1>1. pc = here /\ pc # "down" /\ pc \notin PrepareSteps
    BY DEF RunScript, ExecuteSteps, PrepareSteps
  <1>2. /\ Names(journal, host) /\ Unfinished(journal) /\ journal.seq > 0
        /\ Names(store.latest, host) /\ Unfinished(store.latest)
    BY <1>1 DEF Owned, Ongoing, Finished, Planned, PrepareSteps
  <1>3. Shrinks(host, host') /\ pc' \in {ok, failed}
    BY DEF RunScript, ScriptOutcome
  <1>4. UNCHANGED <<store, journal, report>>
    BY DEF RunScript
  <1>5. Names(journal', host') /\ Names(store'.latest, host')
    BY <1>2, <1>3, <1>4, ShrinkingKeeps
  <1> QED
    BY <1>1, <1>2, <1>3, <1>4, <1>5, ExecutedOwned

\* An execution step that writes a generation.
LEMMA RecordedOwned ==
    ASSUME IInv, Owned, pc \in ExecuteSteps, NEW j \in Journal,
           j.seq = journal.seq, Unfinished(j), Names(j, host),
           NEW o \in PersistOutcomes(j, store), PersistOutcome(o), journal' = o.journal,
           host' = host, report' = report, pc' \in ExecuteSteps \cup {"begin_cleanup"}
    PROVE  Owned'
  <1>1. pc # "down" /\ pc # "create_journal"
    BY DEF ExecuteSteps
  <1>2. /\ journal.seq > 0
        /\ Names(store.latest, host) /\ Unfinished(store.latest)
    BY <1>1 DEF Owned, Finished, Planned
  <1>3. store \in Store
    BY DEF IInv, TypeOK
  <1>4. /\ journal' \in {j, Numbered(j)} /\ Names(journal', host')
        /\ Names(store'.latest, host') /\ Unfinished(store'.latest)
    BY <1>2, <1>3, PersistNames DEF Unfinished
  <1>5. journal'.seq > 0 /\ Unfinished(journal')
    BY <1>2, <1>4, NumberedNames DEF Unfinished
  <1>6. Shrinks(host, host')
    BY DEF Shrinks
  <1> QED
    BY <1>1, <1>4, <1>5, <1>6, ExecutedOwned

\* A cleanup step before the report creates nothing and drops from the journal only
\* what is gone.
LEMMA CleanedOwned ==
    ASSUME Owned, pc # "down",
           pc' \in (StoppingSteps \cup ReclaimSteps \cup {"finish"}) \ {"begin_cleanup"},
           Shrinks(host, host'), Names(journal', host'), Unfinished(journal'),
           report'.status \in {"none", "open"},
           Names(store'.latest, host'), Unfinished(store'.latest), Reclaimed'
    PROVE  Owned'
  <1>1. Bare(host')
    BY ShrinkingKeeps DEF Owned
  <1>2. Finished' /\ Honest' /\ Told' /\ Ongoing'
    BY DEF Finished, Honest, Told, Ongoing
  <1>3. Planned'
    BY DEF Planned, StoppingSteps, ReclaimSteps, PrepareSteps, ExecuteSteps
  <1> QED
    BY <1>1, <1>2, <1>3 DEF Owned

-----------------------------------------------------------------------------
\* Preparation.

\* What exists beforehand, the edits of the journal keep naming; what a script can
\* create is named beforehand.
LEMMA CreationNamed ==
    ASSUME NEW h \in Host, NEW m, NEW j, Bare(h), Names(j, h), h.rule => m = "host_server"
    PROVE  /\ j.osDisk => \A o \in CreateOsDisk(h) : Bare(o.host) /\ Names(j, o.host)
           /\ j.data # "none" =>
                \A o \in CreateDataDisk(h) : Bare(o.host) /\ Names(j, o.host)
           /\ j.seq > 0 => \A o \in CreateVm(h) : Bare(o.host) /\ Names(j, o.host)
           /\ (m # "deny_all" => j.network = "owned") =>
                \A o \in ConfigureNetwork(m, h) : Bare(o.host) /\ Names(j, o.host)
  <1> DEFINE Good(g) == Bare(g) /\ Names(j, g)
  <1>1. Good(h)
    OBVIOUS
  <1>2. ASSUME j.osDisk, NEW o \in CreateOsDisk(h)
        PROVE  Good(o.host)
    <2>1. o.host \in {h, [h EXCEPT !.osDisk = "identified"], [h EXCEPT !.osDisk = "anonymous"]}
      BY <1>2 DEF CreateOsDisk, Script, Done, Refused, Broken
    <2>2. \A x \in {"identified", "anonymous"} : Good([h EXCEPT !.osDisk = x])
      BY <1>1, <1>2 DEF Bare, Names, Controls, Host
    <2> QED
      BY <1>1, <2>1, <2>2
  <1>3. ASSUME j.data # "none", NEW o \in CreateDataDisk(h)
        PROVE  Good(o.host)
    <2>1. o.host \in {h, [h EXCEPT !.dataDisk = "mounted"], [h EXCEPT !.dataDisk = "detached"]}
      BY <1>3 DEF CreateDataDisk, Script, Done, Refused, Broken
    <2>2. \A x \in {"mounted", "detached"} : Good([h EXCEPT !.dataDisk = x])
      BY <1>1, <1>3 DEF Bare, Names, Controls, Host
    <2> QED
      BY <1>1, <2>1, <2>2
  <1>4. ASSUME j.seq > 0, NEW o \in CreateVm(h)
        PROVE  Good(o.host)
    <2>1. o.host \in {h, [h EXCEPT !.vm = "off", !.nic = "default"]}
      BY <1>4 DEF CreateVm, Script, Done, Refused, Broken
    <2>2. Good([h EXCEPT !.vm = "off", !.nic = "default"])
      BY <1>1, <1>4 DEF Bare, Names, Controls, Host
    <2> QED
      BY <1>1, <2>1, <2>2
  <1>5. ASSUME m # "deny_all" => j.network = "owned", NEW o \in ConfigureNetwork(m, h)
        PROVE  Good(o.host)
    <2> DEFINE acls    == [h EXCEPT !.acls = TRUE]
               rule    == [acls EXCEPT !.rule = (m = "host_server")]
               capture == [rule EXCEPT !.capture = "running"]
               session == [rule EXCEPT !.capture = "stopped"]
               offline == [h EXCEPT !.nic = "none"]
    <2>1. \/ o.host \in {h, offline}
          \/ /\ m # "deny_all" /\ h.vm # "absent"
             /\ o.host \in {h, acls, rule, capture, session}
      BY <1>5 DEF ConfigureNetwork, Script, Done, Refused, Broken
    <2>2. Good(offline)
      BY <1>1 DEF Bare, Names, Controls, Host
    <2>3. m # "deny_all" /\ h.vm # "absent" =>
            Good(acls) /\ Good(rule) /\ Good(capture) /\ Good(session)
      <3>1. \A g \in {acls, rule, capture, session} :
              g.vm = h.vm /\ g.osDisk = h.osDisk /\ g.dataDisk = h.dataDisk
        BY DEF Host
      <3> HIDE DEF acls, rule, capture, session
      <3> QED
        BY <1>1, <1>5, <3>1 DEF Bare, Names
    <2> HIDE DEF acls, rule, capture, session, offline
    <2> QED
      BY <1>1, <2>1, <2>2, <2>3
  <1> QED
    BY <1>2, <1>3, <1>4, <1>5

\* The edits of preparation and execution drop nothing that the journal names.
LEMMA EditsKeep ==
    ASSUME NEW j \in Journal, NEW h, Names(j, h), Unfinished(j)
    PROVE  LET Keeping(k) == /\ k \in Journal /\ k.seq = j.seq /\ Unfinished(k)
                             /\ Names(k, h)
           IN  /\ \A x \in BOOLEAN : Keeping([j EXCEPT !.osId = x])
               /\ Keeping([j EXCEPT !.osDisk = TRUE])
               /\ \A x \in {"planned", "mounted", "detached"} : Keeping([j EXCEPT !.data = x])
               /\ j.network = "none" => Keeping([j EXCEPT !.network = "lease"])
               /\ Keeping([j EXCEPT !.network = "owned"])
               /\ Keeping([j EXCEPT !.phase = "running"])
               /\ Keeping([j EXCEPT !.phase = "cleaning"])
               /\ Keeping([j EXCEPT !.vm = TRUE, !.phase = "vm_created"])
  <1> DEFINE Same(k) == k.seq = j.seq /\ Unfinished(k) /\ Names(k, h)
  <1>1. /\ \A x \in BOOLEAN : Same([j EXCEPT !.osId = x])
        /\ Same([j EXCEPT !.osDisk = TRUE])
    BY DEF Journal, Names, Unfinished
  <1>2. \A x \in {"planned", "mounted", "detached"} : Same([j EXCEPT !.data = x])
    BY DEF Journal, Names, Unfinished
  <1>3. /\ j.network = "none" => Same([j EXCEPT !.network = "lease"])
        /\ Same([j EXCEPT !.network = "owned"])
    BY DEF Journal, Names, Unfinished
  <1>4. /\ Same([j EXCEPT !.phase = "running"]) /\ Same([j EXCEPT !.phase = "cleaning"])
        /\ Same([j EXCEPT !.vm = TRUE, !.phase = "vm_created"])
    BY DEF Journal, Names, Unfinished
  <1>5. /\ \A x \in BOOLEAN : [j EXCEPT !.osId = x] \in Journal
        /\ [j EXCEPT !.osDisk = TRUE] \in Journal
        /\ \A x \in {"planned", "mounted", "detached"} : [j EXCEPT !.data = x] \in Journal
        /\ [j EXCEPT !.network = "lease"] \in Journal
        /\ [j EXCEPT !.network = "owned"] \in Journal
        /\ [j EXCEPT !.phase = "running"] \in Journal
        /\ [j EXCEPT !.phase = "cleaning"] \in Journal
        /\ [j EXCEPT !.vm = TRUE, !.phase = "vm_created"] \in Journal
    BY JournalEdits DEF NetworkRecords, DataDiskStates, Phases
  <1> QED
    BY <1>1, <1>2, <1>3, <1>4, <1>5

\* Every preparation step keeps ownership: disks and controls are named in a written
\* generation before they come into being.
LEMMA PrepareOwned ==
    ASSUME IInv, Owned, Prepare
    PROVE  Owned'
  <1>1. /\ host \in Host /\ journal \in Journal /\ mode \in Modes
        /\ host.rule => mode = "host_server"
    BY DEF IInv, TypeOK, Secured
  <1>2. pc \in PrepareSteps
    BY DEF Prepare, CreateJournal, ReserveAddress, JournalLease, PlanOsDisk,
       ProvisionOsDisk, JournalOsIdentity, PlanDataDisk, ProvisionDataDisk,
       JournalDataMounted, StageAndDismount, JournalDataDetached, ProvisionVm, JournalVm,
       AttachRunDisks, PrepareControlledAdapter, JournalNetwork, Configure,
       VerifyPrepared, JournalReady, Track, Provision, PrepareSteps
  <1>3. pc # "down"
    BY <1>2 DEF PrepareSteps
  <1>4. Names(journal, host) /\ Unfinished(journal) /\ Bare(host) /\ Planned
    BY <1>3 DEF Owned, Ongoing
  <1>5. pc # "create_journal" => journal.seq > 0
    BY <1>2, <1>4 DEF Planned
  <1>6. ASSUME NEW g, Shrinks(host, g)
        PROVE  Bare(g) /\ Names(journal, g)
    BY <1>4, <1>6, ShrinkingKeeps
  <1>7. CASE CreateJournal
    <2>1. journal.network = "none"
      BY <1>4, <1>7 DEF CreateJournal, Track, Planned
    <2>2. "create_journal" \in PrepareSteps
          /\ (IF mode = "deny_all" THEN "plan_os_disk" ELSE "reserve_address")
               \in (PrepareSteps \cup {"verify_before_start"})
                     \ {"create_journal", "create_os_disk", "create_data_disk",
                        "configure_network"}
      BY DEF PrepareSteps
    <2> QED
      BY <1>1, <1>4, <1>7, <2>1, <2>2, TrackOwned DEF CreateJournal
  <1>8. CASE ReserveAddress
    <2>1. PICK o \in AllocateLease(host) :
            /\ FileOutcome(o)
            /\ IF o.ok THEN pc' = "journal_lease" /\ UNCHANGED journal ELSE AbandonPreparation
      BY <1>8 DEF ReserveAddress
    <2>2. Shrinks(host, o.host)
      BY <1>1, NetworkShrinks
    <2>3. /\ pc' \in {"journal_lease", "begin_cleanup"}
          /\ journal' = journal \/ journal' = tracked
      BY <2>1 DEF AbandonPreparation
    <2>4. /\ pc \in PrepareSteps \ {"create_journal"} /\ UNCHANGED <<mode, store, tracked, report>>
          /\ journal.network = "none"
      BY <1>2, <1>4, <1>8 DEF ReserveAddress, Planned
    <2>5. Bare(host') /\ Names(journal, host')
      BY <1>6, <2>1, <2>2 DEF FileOutcome
    <2> QED
      BY <2>3, <2>4, <2>5, PreparedOwned DEF PrepareSteps
  <1> DEFINE Keeping(j) == /\ j \in Journal /\ j.seq = journal.seq /\ Unfinished(j)
                           /\ Names(j, host)
  <1>9. CASE JournalLease
    <2>1. journal.network = "none"
      BY <1>4, <1>9 DEF JournalLease, Track, Planned
    <2>2. Keeping([journal EXCEPT !.network = "lease"])
      BY <1>1, <1>4, <2>1, EditsKeep
    <2> QED
      BY <1>9, <2>2, TrackOwned DEF JournalLease, PrepareSteps
  <1>10. CASE PlanOsDisk
    <2> DEFINE j == [journal EXCEPT !.osDisk = TRUE]
    <2>1. Keeping(j) /\ j.osDisk
      BY <1>1, <1>4, EditsKeep DEF Journal
    <2> HIDE DEF j
    <2>2. Track("plan_os_disk", j, "create_os_disk")
      BY <1>10 DEF PlanOsDisk, j
    <2> QED
      BY <2>1, <2>2, TrackOwned DEF PrepareSteps
  <1>11. CASE ProvisionOsDisk
    <2>1. journal.osDisk
      BY <1>4, <1>11 DEF ProvisionOsDisk, Provision, Planned
    <2>2. \A o \in CreateOsDisk(host) : Bare(o.host) /\ Names(journal, o.host)
      BY <1>1, <1>4, <2>1, CreationNamed
    <2> QED
      BY <1>11, <2>2, ProvisionOwned DEF ProvisionOsDisk, PrepareSteps
  <1>12. CASE JournalOsIdentity
    <2>1. Keeping([journal EXCEPT !.osId = (host.osDisk = "identified")])
      BY <1>1, <1>4, EditsKeep
    <2> QED
      BY <1>12, <2>1, TrackOwned DEF JournalOsIdentity, PrepareSteps
  <1>13. CASE PlanDataDisk
    <2> DEFINE j == [journal EXCEPT !.data = "planned"]
    <2>1. Keeping(j) /\ j.data # "none"
      BY <1>1, <1>4, EditsKeep DEF Journal
    <2> HIDE DEF j
    <2>2. Track("plan_data_disk", j, "create_data_disk")
      BY <1>13 DEF PlanDataDisk, j
    <2> QED
      BY <2>1, <2>2, TrackOwned DEF PrepareSteps
  <1>14. CASE ProvisionDataDisk
    <2>1. journal.data # "none"
      BY <1>4, <1>14 DEF ProvisionDataDisk, Provision, Planned
    <2>2. \A o \in CreateDataDisk(host) : Bare(o.host) /\ Names(journal, o.host)
      BY <1>1, <1>4, <2>1, CreationNamed
    <2> QED
      BY <1>14, <2>2, ProvisionOwned DEF ProvisionDataDisk, PrepareSteps
  <1>15. CASE JournalDataMounted
    <2>1. Keeping([journal EXCEPT !.data = "mounted"])
      BY <1>1, <1>4, EditsKeep
    <2> QED
      BY <1>15, <2>1, TrackOwned DEF JournalDataMounted, PrepareSteps
  <1>16. CASE StageAndDismount
    <2>1. \A o \in DismountDataDisk(host) : Bare(o.host) /\ Names(journal, o.host)
      BY <1>1, <1>6, DiskShrinks
    <2> QED
      BY <1>16, <2>1, ProvisionOwned DEF StageAndDismount, PrepareSteps
  <1>17. CASE JournalDataDetached
    <2>1. Keeping([journal EXCEPT !.data = "detached"])
      BY <1>1, <1>4, EditsKeep
    <2> QED
      BY <1>17, <2>1, TrackOwned DEF JournalDataDetached, PrepareSteps
  <1>18. CASE ProvisionVm
    <2>1. journal.seq > 0
      BY <1>5, <1>18 DEF ProvisionVm, Provision
    <2>2. \A o \in CreateVm(host) : Bare(o.host) /\ Names(journal, o.host)
      BY <1>1, <1>4, <2>1, CreationNamed
    <2> QED
      BY <1>18, <2>2, ProvisionOwned DEF ProvisionVm, PrepareSteps
  <1>19. CASE JournalVm
    <2>1. Keeping([journal EXCEPT !.vm = TRUE, !.phase = "vm_created"])
      BY <1>1, <1>4, EditsKeep
    <2> QED
      BY <1>19, <2>1, TrackOwned DEF JournalVm, PrepareSteps
  <1>20. CASE AttachRunDisks
    <2>1. \A o \in AttachDisks(host) : Bare(o.host) /\ Names(journal, o.host)
      BY <1>1, <1>6, VmShrinks
    <2> DEFINE next == IF mode = "deny_all" THEN "configure_network" ELSE "prepare_adapter"
    <2>2. /\ next \in PrepareSteps \ {"create_journal", "create_os_disk", "create_data_disk"}
          /\ next = "configure_network" => mode = "deny_all"
          /\ next \notin {"reserve_address", "journal_lease"}
          /\ "attach_disks" \in PrepareSteps \ {"create_journal"}
      BY DEF PrepareSteps
    <2>3. Provision("attach_disks", AttachDisks(host), next)
      BY <1>20 DEF AttachRunDisks
    <2> HIDE DEF next
    <2> QED
      BY <2>1, <2>2, <2>3, ProvisionOwned
  <1>21. CASE PrepareControlledAdapter
    <2>1. \A o \in PrepareAdapter(host) : Bare(o.host) /\ Names(journal, o.host)
      BY <1>1, <1>6, NetworkShrinks
    <2> QED
      BY <1>21, <2>1, ProvisionOwned DEF PrepareControlledAdapter, PrepareSteps
  <1>22. CASE JournalNetwork
    <2> DEFINE j == [journal EXCEPT !.network = "owned"]
    <2>1. Keeping(j) /\ j.network = "owned"
      BY <1>1, <1>4, EditsKeep DEF Journal
    <2> HIDE DEF j
    <2>2. Track("journal_network", j, "configure_network")
      BY <1>22 DEF JournalNetwork, j
    <2> QED
      BY <2>1, <2>2, TrackOwned DEF PrepareSteps
  <1>23. CASE Configure
    <2>1. mode # "deny_all" => journal.network = "owned"
      BY <1>4, <1>23 DEF Configure, Provision, Planned
    <2>2. \A o \in ConfigureNetwork(mode, host) : Bare(o.host) /\ Names(journal, o.host)
      BY <1>1, <1>4, <2>1, CreationNamed
    <2> QED
      BY <1>23, <2>2, ProvisionOwned DEF Configure, PrepareSteps
  <1>24. CASE VerifyPrepared
    <2>1. \A o \in VerifyNetwork(mode, host) : Bare(o.host) /\ Names(journal, o.host)
      BY <1>1, <1>6, VmShrinks
    <2> QED
      BY <1>24, <2>1, ProvisionOwned DEF VerifyPrepared, PrepareSteps
  <1>25. CASE JournalReady
    BY <1>1, <1>4, <1>25, TrackOwned DEF JournalReady, PrepareSteps
  <1> QED
    BY <1>7, <1>8, <1>9, <1>10, <1>11, <1>12, <1>13, <1>14, <1>15, <1>16, <1>17, <1>18,
       <1>19, <1>20, <1>21, <1>22, <1>23, <1>24, <1>25 DEF Prepare

-----------------------------------------------------------------------------
\* Execution, cleanup, recovery and the environment.

\* Every execution step keeps ownership.
LEMMA ExecuteOwned ==
    ASSUME IInv, Owned, Execute
    PROVE  Owned'
  <1>1. host \in Host /\ journal \in Journal /\ store \in Store
    BY DEF IInv, TypeOK
  <1>2. pc \in ExecuteSteps
    BY DEF Execute, VerifyBeforeStart, Start, JournalRunning, WaitForCompletion,
       StopAfterError, ForceStop, VerifyAfter, CollectMount, JournalCollectMount,
       CollectDismount, JournalCollectDismount, RunScript, Record, ExecuteSteps
  <1>3. /\ pc # "down" /\ CollectionEnd \in ExecuteSteps \cup {"begin_cleanup"}
        /\ pc \in (PrepareSteps \cup ExecuteSteps) \ {"create_journal"}
    BY <1>2 DEF ExecuteSteps, CollectionEnd
  <1>4. /\ Names(journal, host) /\ Unfinished(journal) /\ journal.seq > 0
        /\ Names(store.latest, host) /\ Unfinished(store.latest)
    BY <1>3 DEF Owned, Ongoing, Finished, Planned
  <1>5. CASE VerifyBeforeStart
    BY <1>1, <1>5, VmShrinks, RunScriptOwned DEF VerifyBeforeStart, ExecuteSteps
  <1>6. CASE Start
    BY <1>1, <1>6, VmShrinks, RunScriptOwned DEF Start, ExecuteSteps
  <1>7. CASE JournalRunning
    <2> DEFINE j == [journal EXCEPT !.phase = "running"]
    <2>1. j \in Journal /\ j.seq = journal.seq /\ Unfinished(j) /\ Names(j, host)
      BY <1>1, <1>4, EditsKeep
    <2> HIDE DEF j
    <2>2. PICK o \in PersistOutcomes(j, store) :
            /\ PersistOutcome(o) /\ journal' = o.journal
            /\ pc' = IF o.ok THEN "observe" ELSE "begin_cleanup"
      BY <1>7 DEF JournalRunning, Record, j
    <2>3. /\ host' = host /\ report' = report
          /\ pc' \in ExecuteSteps \cup {"begin_cleanup"}
      BY <1>7, <2>2 DEF JournalRunning, Record, ExecuteSteps
    <2> QED
      BY <1>2, <2>1, <2>2, <2>3, RecordedOwned
  <1>8. CASE WaitForCompletion
    <2>1. UNCHANGED <<store, journal, report>>
      BY <1>8 DEF WaitForCompletion
    <2>2. host' \in {host, PoweredOff(host)} /\ pc' \in ExecuteSteps
      BY <1>8 DEF WaitForCompletion, ObservePoweredOff, ObserveTimedOut, ObserveQuota,
         ObserveError, WatcherStopped, ExecuteSteps
    <2>3. Shrinks(host, host')
      <3>1. Shrinks(host, host) /\ Shrinks(host, PoweredOff(host))
        BY <1>1 DEF PoweredOff, Shrinks, Bare, Controls, Host
      <3> QED
        BY <2>2, <3>1
    <2>4. Names(journal', host') /\ Names(store'.latest, host')
      BY <1>4, <2>1, <2>3, ShrinkingKeeps
    <2> QED
      BY <1>2, <1>4, <2>1, <2>2, <2>3, <2>4, ExecutedOwned
  <1>9. CASE StopAfterError
    BY <1>1, <1>9, VmShrinks, RunScriptOwned DEF StopAfterError, ExecuteSteps
  <1>10. CASE ForceStop
    BY <1>1, <1>10, VmShrinks, RunScriptOwned DEF ForceStop, ExecuteSteps
  <1>11. CASE VerifyAfter
    <2>1. PICK o \in VerifyNetwork(mode, host) : host' = o.host
      BY <1>11 DEF VerifyAfter, ScriptOutcome
    <2>2. Shrinks(host, host') /\ UNCHANGED <<store, journal, report>>
      BY <1>1, <1>11, <2>1, VmShrinks DEF VerifyAfter
    <2>3. pc' \in ExecuteSteps \cup {"begin_cleanup"}
      BY <1>11 DEF VerifyAfter, ExecuteSteps
    <2>4. Names(journal', host') /\ Names(store'.latest, host')
      BY <1>4, <2>2, ShrinkingKeeps
    <2> QED
      BY <1>2, <1>4, <2>2, <2>3, <2>4, ExecutedOwned
  <1>12. CASE CollectMount
    <2>1. \A o \in MountDataDisk(host) : Shrinks(host, o.host)
      BY <1>1, DiskShrinks
    <2> QED
      BY <1>3, <1>12, <2>1, RunScriptOwned DEF CollectMount, ExecuteSteps
  <1>13. CASE JournalCollectMount
    <2> DEFINE j == [journal EXCEPT !.data = "mounted"]
    <2>1. j \in Journal /\ j.seq = journal.seq /\ Unfinished(j) /\ Names(j, host)
      BY <1>1, <1>4, EditsKeep
    <2> HIDE DEF j
    <2>2. PICK o \in PersistOutcomes(j, store) :
            /\ PersistOutcome(o) /\ journal' = o.journal
            /\ pc' = IF o.ok THEN "collect_dismount" ELSE CollectionEnd
      BY <1>13 DEF JournalCollectMount, Record, j
    <2>3. /\ host' = host /\ report' = report
          /\ pc' \in ExecuteSteps \cup {"begin_cleanup"}
      BY <1>3, <1>13, <2>2 DEF JournalCollectMount, Record, ExecuteSteps
    <2> QED
      BY <1>2, <2>1, <2>2, <2>3, RecordedOwned
  <1>14. CASE CollectDismount
    <2> DEFINE j == [journal EXCEPT !.data = "detached"]
    <2>1. j.seq = journal.seq /\ Unfinished(j) /\ Names(j, host)
      BY <1>1, <1>4, EditsKeep
    <2>2. PICK o \in DismountDataDisk(host) :
            host' = o.host /\ journal' = IF o.ok THEN j ELSE journal
      BY <1>14 DEF CollectDismount, ScriptOutcome
    <2> HIDE DEF j
    <2>3. Shrinks(host, host')
      BY <1>1, <2>2, DiskShrinks
    <2>4. UNCHANGED <<store, report>> /\ pc' \in ExecuteSteps
      BY <1>14 DEF CollectDismount, ExecuteSteps
    <2>5. journal'.seq > 0 /\ Unfinished(journal') /\ Names(journal', host)
      BY <1>4, <2>1, <2>2
    <2>6. Names(journal', host') /\ Names(store'.latest, host')
      BY <1>4, <2>3, <2>4, <2>5, ShrinkingKeeps
    <2> QED
      BY <1>2, <1>4, <2>3, <2>4, <2>5, <2>6, ExecutedOwned
  <1>15. CASE JournalCollectDismount
    <2>1. PICK o \in PersistOutcomes(journal, store) :
            PersistOutcome(o) /\ journal' = o.journal
      BY <1>15 DEF JournalCollectDismount
    <2>2. /\ host' = host /\ report' = report
          /\ pc' \in ExecuteSteps \cup {"begin_cleanup"}
      BY <1>3, <1>15 DEF JournalCollectDismount
    <2> QED
      BY <1>1, <1>2, <1>4, <2>1, <2>2, RecordedOwned
  <1> QED
    BY <1>5, <1>6, <1>7, <1>8, <1>9, <1>10, <1>11, <1>12, <1>13, <1>14, <1>15 DEF Execute

\* Reports of a cleanup step only add to what is left, and do not close the report.
LEMMA ReportGrows ==
    ASSUME TypeOK
    PROVE  /\ \A kinds : /\ Retaining(kinds).status = report.status
                         /\ Retaining(kinds).left = report.left \cup kinds
                         /\ Retaining(kinds).warned = TRUE
           /\ Warning.status = report.status /\ Warning.left = report.left
           /\ \A o : /\ RecordedPersist(o).status = report.status
                     /\ report.left \subseteq RecordedPersist(o).left
                     /\ NothingReported(RecordedPersist(o)) =>
                           o.ok /\ NothingReported(report)
                     /\ "run_root" \in report.left => "run_root" \in RecordedPersist(o).left
  <1>1. \A kinds : /\ Retaining(kinds).status = report.status
                   /\ Retaining(kinds).left = report.left \cup kinds
                   /\ Retaining(kinds).warned = TRUE
    BY DEF TypeOK, Report, Retaining
  <1>2. Warning.status = report.status /\ Warning.left = report.left
    BY <1>1 DEF Warning
  <1>3. \A o : RecordedPersist(o) = IF o.ok THEN report ELSE Retaining({"cleanup_journal"})
    BY DEF RecordedPersist
  <1>4. \A o : /\ RecordedPersist(o).status = report.status
               /\ report.left \subseteq RecordedPersist(o).left
               /\ NothingReported(RecordedPersist(o)) => o.ok /\ NothingReported(report)
    BY <1>1, <1>3 DEF NothingReported
  <1> QED
    BY <1>1, <1>2, <1>4

\* The process is gone: what it left is named on disk and told in its report.
LEMMA ExitOwned ==
    ASSUME Owned, pc' = "down", Shrinks(host, host'), Names(store'.latest, host'),
           Finished', Honest', Told'
    PROVE  Owned'
  <1>1. Bare(host')
    BY ShrinkingKeeps DEF Owned
  <1>2. Ongoing' /\ Planned' /\ Reclaimed'
    BY DEF Ongoing, Planned, Reclaimed, PrepareSteps, ExecuteSteps
  <1> QED
    BY <1>1, <1>2 DEF Owned

\* Where cleanup begins and where it reports.
LEMMA CleanupEndsOwned ==
    ASSUME IInv, Owned, BeginCleanup \/ RefuseCleanup \/ StartCleanup \/ FinishCleanup
    PROVE  Owned'
  <1>1. host \in Host /\ journal \in Journal /\ store \in Store
    BY DEF IInv, TypeOK
  <1>2. pc # "down"
    BY DEF BeginCleanup, RefuseCleanup, StartCleanup, FinishCleanup
  <1>3. /\ Names(journal, host) /\ Unfinished(journal) /\ Bare(host)
        /\ Names(store.latest, host) /\ Unfinished(store.latest)
        /\ report.status \in {"none", "open"}
    BY <1>2 DEF Owned, Ongoing, Finished
  <1>4. host' = host /\ Shrinks(host, host')
    BY DEF BeginCleanup, RefuseCleanup, StartCleanup, FinishCleanup, Shrinks
  <1>5. CASE BeginCleanup /\ journal.seq = 0
    <2>1. NamesNothing(journal)
      BY <1>5 DEF BeginCleanup, Owned, Planned
    <2>2. Empty(host)
      BY <1>3, <1>5, <2>1 DEF Names, NamesNothing, Empty
    <2>3. /\ pc' = "down" /\ store' = store /\ report'.status = "success"
      BY <1>5 DEF BeginCleanup, Exit, OpenReport
    <2>4. Finished' /\ Honest' /\ Told'
      BY <1>3, <1>4, <2>2, <2>3 DEF Finished, Honest, Told
    <2> QED
      BY <1>3, <1>4, <2>3, <2>4, ExitOwned
  <1>6. CASE BeginCleanup /\ journal.seq # 0
    <2>1. /\ pc' = "start_cleanup" /\ report'.status = "open"
          /\ UNCHANGED <<store, journal>>
      BY <1>6 DEF BeginCleanup, OpenReport
    <2>2. Reclaimed'
      BY <2>1 DEF Reclaimed
    <2> QED
      BY <1>2, <1>3, <1>4, <2>1, <2>2, CleanedOwned DEF StoppingSteps
  <1>7. CASE RefuseCleanup
    <2>1. report' = [Retaining({"run_root"}) EXCEPT !.status = "failure"]
      BY <1>7 DEF RefuseCleanup
    <2>2. Retaining({"run_root"}) \in Report /\ "run_root" \in Retaining({"run_root"}).left
      BY ReportTyped, ReportGrows DEF IInv, Leftovers
    <2>3. report'.status = "failure" /\ "run_root" \in report'.left
      BY <2>1, <2>2 DEF Report
    <2>4. pc' = "down" /\ store' = store
      BY <1>7 DEF RefuseCleanup, Exit
    <2>5. Finished' /\ Honest' /\ Told'
      BY <1>3, <2>3, <2>4 DEF Finished, Honest, Told
    <2> QED
      BY <1>3, <1>4, <2>4, <2>5, ExitOwned
  <1>8. CASE StartCleanup
    <2> DEFINE j == [journal EXCEPT !.phase = "cleaning"]
    <2>1. j \in Journal /\ Unfinished(j) /\ Names(j, host)
      BY <1>1, <1>3, EditsKeep
    <2> HIDE DEF j
    <2>2. PICK o \in PersistOutcomes(j, store) :
            PersistOutcome(o) /\ journal' = o.journal /\ report' = RecordedPersist(o)
      BY <1>8 DEF StartCleanup, j
    <2>3. pc' \in {"stop_vm", "remove_vm"}
      BY <1>8 DEF StartCleanup
    <2>4. /\ Names(journal', host') /\ journal' \in {j, Numbered(j)}
          /\ Names(store'.latest, host') /\ Unfinished(store'.latest)
      BY <1>1, <1>3, <1>4, <2>1, <2>2, PersistNames DEF Unfinished
    <2>5. Unfinished(journal')
      BY <2>1, <2>4, NumberedNames DEF Unfinished
    <2>6. report'.status \in {"none", "open"}
      BY <1>3, <2>2, ReportGrows DEF IInv
    <2>7. Reclaimed'
      BY <2>3 DEF Reclaimed
    <2> QED
      BY <1>2, <1>4, <2>3, <2>4, <2>5, <2>6, <2>7, CleanedOwned DEF StoppingSteps
  <1>9. CASE FinishCleanup
    <2> DEFINE j == [journal EXCEPT !.phase = FinishedPhase(report)]
    <2>1. PICK o \in PersistOutcomes(j, store) :
            /\ PersistOutcome(o)
            /\ report' = [RecordedPersist(o) EXCEPT
                            !.status = IF NothingReported(RecordedPersist(o))
                                       THEN "success" ELSE "failure"]
      BY <1>9 DEF FinishCleanup
    <2>2. j \in Journal
      BY <1>1, JournalEdits DEF FinishedPhase, Phases
    <2>3. /\ Names(j, host) /\ (NamesNothing(j) <=> NamesNothing(journal))
          /\ j.phase = FinishedPhase(report)
      BY <1>1, <1>3 DEF Journal, Names, NamesNothing
    <2> HIDE DEF j
    <2>4. /\ Names(store'.latest, host')
          /\ ~Unfinished(store'.latest) =>
                ~Unfinished(j) /\ NamesNothing(j) /\ NamesNothing(store'.latest)
          /\ o.ok => ValidJournal(j)
      BY <1>1, <1>3, <1>4, <2>1, <2>2, <2>3, PersistNames
    <2>5. Tells(report.left, host)
      BY <1>9 DEF FinishCleanup, Owned, Reclaimed, Tells
    <2>6. ~Unfinished(j) <=> NothingReported(report)
      BY <2>3 DEF Unfinished, FinishedPhase
    <2>7. NothingReported(report) => host.vm = "absent"
      BY <2>5 DEF NothingReported, Tells
    <2>8. ~Unfinished(j) /\ NamesNothing(j) => Empty(host)
      BY <2>3, <2>6, <2>7 DEF Names, NamesNothing, Empty
    <2>9. /\ report'.left = RecordedPersist(o).left
          /\ report'.status = "success" => NothingReported(RecordedPersist(o))
      <3>1. RecordedPersist(o) \in Report
        BY ReportTyped DEF IInv
      <3> QED
        BY <2>1, <3>1 DEF Report
    <2>10. /\ report.left \subseteq report'.left
           /\ report'.status = "success" => o.ok /\ NothingReported(report)
      BY <2>9, ReportGrows DEF IInv
    <2>11. Honest'
      BY <1>4, <2>4, <2>6, <2>8, <2>10 DEF Honest, ValidJournal, Unfinished
    <2>12. Told'
      BY <1>4, <2>5, <2>10 DEF Told, Tells
    <2>13. pc' = "down"
      BY <1>9 DEF FinishCleanup, Exit
    <2>14. Finished'
      BY <1>4, <2>4, <2>8, <2>13 DEF Finished
    <2> QED
      BY <1>4, <2>4, <2>11, <2>12, <2>13, <2>14, ExitOwned
  <1> QED
    BY <1>5, <1>6, <1>7, <1>8, <1>9

\* Every cleanup step keeps ownership: what it drops from the journal is gone, and
\* what it fails to remove it reports.
LEMMA CleanOwned ==
    ASSUME IInv, Owned, Clean
    PROVE  Owned'
  <1>1. /\ host \in Host /\ journal \in Journal /\ store \in Store
        /\ host.rule => mode = "host_server"
        /\ pc \in ReclaimSteps => host.vm = "absent"
        /\ TypeOK
    BY DEF IInv, TypeOK, Secured
  <1>2. CASE BeginCleanup \/ RefuseCleanup \/ StartCleanup \/ FinishCleanup
    BY <1>2, CleanupEndsOwned
  <1> SUFFICES ASSUME ~(BeginCleanup \/ RefuseCleanup \/ StartCleanup \/ FinishCleanup)
               PROVE  Owned'
    BY <1>2
  <1>3. pc # "down"
    BY DEF Clean, StopVmForCleanup, DetachForCleanup, RemoveTheVm, FinishCapture,
       RemoveControls, ReleaseAddress, JournalReleased, DismountData, DeleteData, DeleteOs,
       Reconcile
  <1>4. /\ Names(journal, host) /\ Unfinished(journal)
        /\ Names(store.latest, host) /\ Unfinished(store.latest)
        /\ report.status \in {"none", "open"} /\ Reclaimed
    BY <1>3 DEF Owned, Ongoing, Finished
  \* A step that writes no generation and creates nothing.
  <1>5. ASSUME store' = store, Shrinks(host, host'), Names(journal', host'),
               Unfinished(journal'), report'.status = report.status,
               pc' \in (StoppingSteps \cup ReclaimSteps \cup {"finish"}) \ {"begin_cleanup"},
               Reclaimed'
        PROVE  Owned'
    <2>1. Names(store'.latest, host') /\ Unfinished(store'.latest)
      BY <1>4, <1>5, ShrinkingKeeps
    <2> QED
      BY <1>3, <1>4, <1>5, <2>1, CleanedOwned
  <1>6. ASSUME NEW g, Shrinks(host, g)
        PROVE  Names(journal, g)
    BY <1>4, <1>6, ShrinkingKeeps
  <1>7. CASE StopVmForCleanup
    <2>1. PICK o \in StopVm(host) : host' = o.host /\ report' \in {report, Warning}
      BY <1>7 DEF StopVmForCleanup, Reconcile, ScriptOutcome
    <2>2. pc' = "detach_disks" /\ UNCHANGED <<store, journal>>
      BY <1>7 DEF StopVmForCleanup, Reconcile
    <2>3. Shrinks(host, host') /\ report'.status = report.status /\ Reclaimed'
      BY <1>1, <2>1, <2>2, VmShrinks, ReportGrows DEF Reclaimed
    <2> QED
      BY <1>4, <1>5, <1>6, <2>2, <2>3 DEF StoppingSteps
  <1>8. CASE DetachForCleanup
    <2>1. PICK o \in DetachDisks(host) : host' = o.host /\ report' \in {report, Warning}
      BY <1>8 DEF DetachForCleanup, Reconcile, ScriptOutcome
    <2>2. pc' = "remove_vm" /\ UNCHANGED <<store, journal>>
      BY <1>8 DEF DetachForCleanup, Reconcile
    <2>3. Shrinks(host, host') /\ report'.status = report.status /\ Reclaimed'
      BY <1>1, <2>1, <2>2, VmShrinks, ReportGrows DEF Reclaimed
    <2> QED
      BY <1>4, <1>5, <1>6, <2>2, <2>3 DEF StoppingSteps
  <1>9. CASE RemoveTheVm
    <2>1. PICK o \in RemoveVm(host) :
            /\ ScriptOutcome(RemoveVm(host), o)
            /\ IF o.ok
               THEN /\ journal' = [journal EXCEPT !.vm = FALSE]
                    /\ report' = report
                    /\ pc' = CASE journal.network = "owned" -> "finish_capture"
                               [] journal.network = "lease" -> "release_lease"
                               [] journal.network = "none"  -> "dismount_data"
               ELSE /\ journal' = journal
                    /\ report' = Retaining(RetainedWithVm)
                    /\ pc' = "finish"
      BY <1>9 DEF RemoveTheVm
    <2>2. host' = o.host /\ store' = store /\ Shrinks(host, host')
      BY <1>1, <1>9, <2>1, VmShrinks DEF RemoveTheVm, ScriptOutcome
    <2>3. Names(journal, host')
      BY <1>6, <2>2
    <2>4. CASE o.ok
      <3>1. journal.network \in {"none", "lease", "owned"}
        BY <1>1 DEF Journal, NetworkRecords
      <3>2. /\ pc' \in {"finish_capture", "release_lease", "dismount_data"}
            /\ pc' # "finish_capture" => ~Controls(host')
            /\ report' = report
        BY <2>1, <2>3, <2>4, <3>1 DEF Names
      <3>3. Names(journal', host') /\ Unfinished(journal')
        BY <1>1, <1>4, <2>1, <2>3, <2>4 DEF Journal, Names, Unfinished
      <3>4. Reclaimed'
        BY <3>2 DEF Reclaimed
      <3> QED
        BY <1>5, <2>2, <3>2, <3>3, <3>4 DEF ReclaimSteps
    <2>5. CASE ~o.ok
      <3>1. /\ pc' = "finish" /\ journal' = journal /\ report'.status = report.status
            /\ report'.left = report.left \cup RetainedWithVm
        BY <1>1, <2>1, <2>5, ReportGrows
      <3>2. Tells(RetainedWithVm, host')
        BY <2>3 DEF Tells, RetainedWithVm, Names
      <3>3. Reclaimed'
        BY <3>1, <3>2 DEF Reclaimed, Tells
      <3> QED
        BY <1>4, <1>5, <2>2, <2>3, <3>1, <3>3
    <2> QED
      BY <2>4, <2>5
  <1>10. CASE FinishCapture
    <2>1. PICK o \in StopCapture(host) : host' = o.host
      BY <1>10 DEF FinishCapture, Reconcile, ScriptOutcome
    <2>2. /\ pc' = "remove_controls" /\ UNCHANGED <<store, journal>> /\ report' = report
      BY <1>10 DEF FinishCapture, Reconcile
    <2>3. Shrinks(host, host') /\ Reclaimed'
      BY <1>1, <2>1, <2>2, NetworkShrinks DEF Reclaimed
    <2> QED
      BY <1>4, <1>5, <1>6, <2>2, <2>3 DEF ReclaimSteps
  <1>11. CASE RemoveControls
    <2>1. PICK o \in RemoveHostControls(mode, host) :
            /\ host' = o.host
            /\ IF o.ok THEN pc' = "release_lease" /\ UNCHANGED report
               ELSE pc' = "dismount_data" /\ report' = Retaining({"network"})
      BY <1>11 DEF RemoveControls, ScriptOutcome
    <2>2. Shrinks(host, host') /\ (o.ok => ~Controls(host'))
      BY <1>1, <2>1, NetworkShrinks
    <2>3. UNCHANGED <<store, journal>>
      BY <1>11 DEF RemoveControls
    <2>4. /\ report'.status = report.status
          /\ ~o.ok => "network" \in report'.left
      <3>1. /\ Retaining({"network"}).status = report.status
            /\ "network" \in Retaining({"network"}).left
        BY <1>1, ReportGrows
      <3> QED
        BY <2>1, <3>1
    <2>5. Reclaimed' /\ pc' \in ReclaimSteps
      BY <2>1, <2>2, <2>4 DEF Reclaimed, ReclaimSteps
    <2> QED
      BY <1>4, <1>5, <1>6, <2>2, <2>3, <2>4, <2>5 DEF StoppingSteps, ReclaimSteps
  <1>12. CASE ReleaseAddress
    <2>1. PICK o \in ReleaseLease(host) :
            /\ host' = o.host
            /\ IF o.ok
               THEN /\ pc' = "journal_released" /\ UNCHANGED report
                    /\ journal' = [journal EXCEPT !.network = "none"]
               ELSE /\ pc' = "dismount_data" /\ UNCHANGED journal
                    /\ report' = Retaining({"network"})
      BY <1>12 DEF ReleaseAddress, FileOutcome
    <2>2. Shrinks(host, host') /\ store' = store
      BY <1>1, <1>12, <2>1, NetworkShrinks DEF ReleaseAddress
    <2>3. ~Controls(host) /\ ~Controls(host')
      BY <1>4, <1>12, <2>2 DEF ReleaseAddress, Reclaimed, Shrinks
    <2>4. Names(journal, host')
      BY <1>6, <2>2
    <2>5. Names(journal', host') /\ Unfinished(journal')
      BY <1>1, <1>4, <2>1, <2>3, <2>4 DEF Journal, Names, Unfinished
    <2>6. report'.status = report.status
      BY <1>1, <2>1, ReportGrows
    <2>7. Reclaimed' /\ pc' \in ReclaimSteps
      BY <2>1, <2>3 DEF Reclaimed, ReclaimSteps
    <2> QED
      BY <1>5, <2>2, <2>5, <2>6, <2>7 DEF StoppingSteps, ReclaimSteps
  <1>13. CASE JournalReleased
    <2>1. PICK o \in PersistOutcomes(journal, store) :
            PersistOutcome(o) /\ journal' = o.journal /\ report' = RecordedPersist(o)
      BY <1>13 DEF JournalReleased
    <2>2. pc' = "dismount_data" /\ host' = host /\ ~Controls(host)
      BY <1>4, <1>13 DEF JournalReleased, Reclaimed
    <2>3. /\ Names(journal', host') /\ journal' \in {journal, Numbered(journal)}
          /\ Names(store'.latest, host') /\ Unfinished(store'.latest)
      BY <1>1, <1>4, <2>1, <2>2, PersistNames DEF Unfinished
    <2>4. Unfinished(journal')
      BY <1>1, <1>4, <2>3, NumberedNames DEF Unfinished
    <2>5. report'.status \in {"none", "open"}
      BY <1>1, <1>4, <2>1, ReportGrows
    <2>6. Reclaimed' /\ Shrinks(host, host')
      BY <2>2 DEF Reclaimed, Shrinks
    <2> QED
      BY <1>3, <2>2, <2>3, <2>4, <2>5, <2>6, CleanedOwned DEF ReclaimSteps, StoppingSteps
  <1>14. CASE DismountData
    <2> DEFINE done == IF journal.data = "mounted"
                       THEN [journal EXCEPT !.data = "detached"] ELSE journal
    <2>1. PICK o \in ReconcileMount(journal, host) :
            /\ host' = o.host
            /\ journal' = IF o.ok THEN done ELSE journal
            /\ report' = IF o.ok THEN report ELSE Warning
      BY <1>14 DEF DismountData, Reconcile, ScriptOutcome
    <2>2. pc = "dismount_data" /\ pc' = "delete_data" /\ store' = store
      BY <1>14 DEF DismountData, Reconcile
    <2>3. Shrinks(host, host')
      <3>1. journal.data \in {"none", "planned", "mounted", "detached"}
        BY <1>1 DEF Journal, DataDiskStates
      <3>2. o \in DismountDataDisk(host) \/ o \in {Done(host), Refused(host)}
        BY <3>1 DEF ReconcileMount
      <3>3. CASE o \in DismountDataDisk(host)
        BY <1>1, <2>1, <3>3, DiskShrinks
      <3>4. CASE o \in {Done(host), Refused(host)}
        BY <2>1, <3>4 DEF Done, Refused, Shrinks
      <3> QED
        BY <3>2, <3>3, <3>4
    <2>4. Names(done, host) /\ Unfinished(done)
      BY <1>1, <1>4, EditsKeep
    <2> HIDE DEF done
    <2>5. Names(journal', host') /\ Unfinished(journal')
      BY <1>4, <2>1, <2>3, <2>4, ShrinkingKeeps
    <2>6. report'.status = report.status /\ report'.left = report.left
      BY <1>1, <2>1, ReportGrows
    <2>7. Reclaimed'
      BY <1>4, <2>2, <2>3, <2>6 DEF Reclaimed, Shrinks
    <2> QED
      BY <1>5, <2>2, <2>3, <2>5, <2>6, <2>7 DEF StoppingSteps, ReclaimSteps
  <1>15. CASE DeleteData
    <2> DEFINE done     == [journal EXCEPT !.data = "none"]
               outcomes == IF journal.data = "none" THEN {Done(host)}
                           ELSE DeleteDataDisk(host, DataIdentified(journal))
    <2>1. PICK o \in outcomes :
            /\ host' = o.host
            /\ journal' = IF o.ok THEN done ELSE journal
            /\ report' = IF o.ok THEN report ELSE Retaining({"data_disk"})
      BY <1>15 DEF DeleteData, Reconcile, ScriptOutcome
    <2>2. pc = "delete_data" /\ pc' = "delete_os" /\ store' = store
      BY <1>15 DEF DeleteData, Reconcile
    <2>3. Shrinks(host, host') /\ (o.ok => host'.dataDisk = "absent")
      <3>1. CASE journal.data = "none"
        <4>1. host' = host
          BY <2>1, <3>1 DEF Done
        <4>2. host.dataDisk = "absent"
          BY <1>4, <3>1 DEF Names
        <4> QED
          BY <4>1, <4>2 DEF Shrinks
      <3>2. CASE journal.data # "none"
        <4>1. DataIdentified(journal) \in BOOLEAN
          BY DEF DataIdentified
        <4>2. o \in DeleteDataDisk(host, DataIdentified(journal))
          BY <2>1, <3>2
        <4> QED
          BY <1>1, <2>1, <4>1, <4>2, DiskShrinks
      <3> QED
        BY <3>1, <3>2
    <2>4. Names(journal, host')
      BY <1>6, <2>3
    <2>5. Names(journal', host') /\ Unfinished(journal')
      BY <1>1, <1>4, <2>1, <2>3, <2>4 DEF Journal, Names, Unfinished
    <2>6. /\ report'.status = report.status /\ report.left \subseteq report'.left
          /\ ~o.ok => "data_disk" \in report'.left
      BY <1>1, <2>1, ReportGrows
    <2>7. Reclaimed'
      BY <1>4, <2>2, <2>3, <2>6 DEF Reclaimed, Shrinks
    <2> QED
      BY <1>5, <2>2, <2>3, <2>5, <2>6, <2>7 DEF StoppingSteps, ReclaimSteps
  <1>16. CASE DeleteOs
    <2> DEFINE done     == [journal EXCEPT !.osDisk = FALSE, !.osId = FALSE]
               outcomes == IF ~journal.osDisk THEN {Done(host)}
                           ELSE DeleteOsDisk(host, journal.osId)
    <2>1. PICK o \in outcomes :
            /\ host' = o.host
            /\ journal' = IF o.ok THEN done ELSE journal
            /\ report' = IF o.ok THEN report ELSE Retaining({"os_disk"})
      BY <1>16 DEF DeleteOs, Reconcile, ScriptOutcome
    <2>2. pc = "delete_os" /\ pc' = "finish" /\ store' = store
      BY <1>16 DEF DeleteOs, Reconcile
    <2>3. Shrinks(host, host') /\ (o.ok => host'.osDisk = "absent")
      <3>1. CASE ~journal.osDisk
        <4>1. host' = host
          BY <2>1, <3>1 DEF Done
        <4>2. host.osDisk = "absent"
          BY <1>4, <3>1 DEF Names
        <4> QED
          BY <4>1, <4>2 DEF Shrinks
      <3>2. CASE journal.osDisk
        <4>1. journal.osId \in BOOLEAN
          BY <1>1 DEF Journal
        <4>2. o \in DeleteOsDisk(host, journal.osId)
          BY <2>1, <3>2
        <4> QED
          BY <1>1, <2>1, <4>1, <4>2, DiskShrinks
      <3> QED
        BY <3>1, <3>2
    <2>4. Names(journal, host')
      BY <1>6, <2>3
    <2>5. Names(journal', host') /\ Unfinished(journal')
      BY <1>1, <1>4, <2>1, <2>3, <2>4 DEF Journal, Names, Unfinished
    <2>6. /\ report'.status = report.status /\ report.left \subseteq report'.left
          /\ ~o.ok => "os_disk" \in report'.left
      BY <1>1, <2>1, ReportGrows
    <2>7. host'.vm = "absent"
      BY <1>1, <2>2, <2>3 DEF Shrinks, ReclaimSteps
    <2>8. Reclaimed'
      BY <1>4, <2>2, <2>3, <2>6, <2>7 DEF Reclaimed, Shrinks
    <2> QED
      BY <1>5, <2>2, <2>3, <2>5, <2>6, <2>8 DEF StoppingSteps, ReclaimSteps
  <1> QED
    BY <1>7, <1>8, <1>9, <1>10, <1>11, <1>12, <1>13, <1>14, <1>15, <1>16 DEF Clean

\* Recovery takes up the journal on disk; the environment takes away and never
\* creates.
LEMMA EnvironmentOwned ==
    ASSUME IInv, Owned, Recover \/ Environment
    PROVE  Owned'
  <1>1. host \in Host
    BY DEF IInv, TypeOK
  <1>2. CASE Recover
    <2>1. /\ pc' = "start_cleanup" /\ journal' = store.latest /\ report'.status = "open"
          /\ UNCHANGED <<host, store>>
      BY <1>2 DEF Recover, OpenReport
    <2>2. Unfinished(store.latest)
      BY <1>2 DEF Recover, Settled, Owned, Finished, Unfinished
    <2>3. Ongoing'
      BY <2>1, <2>2 DEF Ongoing, Owned
    <2>4. Finished' /\ Honest' /\ Told'
      BY <2>1, <2>2 DEF Finished, Honest, Told
    <2>5. Planned' /\ Reclaimed'
      BY <2>1 DEF Planned, Reclaimed, PrepareSteps, ExecuteSteps
    <2> QED
      BY <2>1, <2>3, <2>4, <2>5 DEF Owned
  <1>3. Environment => Shrinks(host, host')
    <2>1. CASE Interrupt \/ ProcessCrash
      BY <2>1 DEF Interrupt, ProcessCrash, Shrinks
    <2>2. CASE GuestPowersOff
      BY <1>1, <2>2 DEF GuestPowersOff, PoweredOff, Shrinks, Bare, Controls, Host
    <2>3. CASE ControlsDrift
      BY <1>1, <2>3 DEF ControlsDrift, Shrinks, Bare, Controls, Host
    <2>4. CASE HostReboot
      <3> DEFINE off == PoweredOff(host)
                 disk(d) == IF d = "mounted" THEN "detached" ELSE d
      <3>1. PICK c \in {"absent", "stopped"} :
              /\ host' = [off EXCEPT !.dataDisk = disk(@), !.capture = c]
              /\ host.capture = "absent" => c = "absent"
        BY <2>4 DEF HostReboot, AfterReboot
      <3>2. /\ off \in Host /\ (off.vm = "absent" <=> host.vm = "absent")
            /\ off.nic = host.nic /\ off.acls = host.acls /\ off.rule = host.rule
            /\ off.osDisk = host.osDisk /\ off.dataDisk = host.dataDisk
        BY <1>1 DEF PoweredOff, Host
      <3> HIDE DEF off
      <3>3. /\ host'.vm = off.vm /\ host'.nic = off.nic /\ host'.acls = off.acls
            /\ host'.rule = off.rule /\ host'.osDisk = off.osDisk
            /\ host'.dataDisk = disk(off.dataDisk) /\ host'.capture = c
        BY <3>1, <3>2 DEF Host
      <3> QED
        BY <3>1, <3>2, <3>3 DEF Shrinks, Bare, Controls
    <2> QED
      BY <2>1, <2>2, <2>3, <2>4 DEF Environment
  <1>4. CASE Environment
    <2>1. /\ Bare(host') /\ (Empty(host) => Empty(host'))
          /\ \A j : Names(j, host) => Names(j, host')
          /\ \A left : Tells(left, host) => Tells(left, host')
      BY <1>3, <1>4, ShrinkingKeeps DEF Owned
    <2>2. store' = store
      BY <1>4 DEF Environment, ControlsDrift, GuestPowersOff, Interrupt, ProcessCrash,
         HostReboot
    <2>3. CASE ProcessCrash \/ HostReboot
      <3>1. pc' = "down" /\ report'.status = "none"
        BY <2>3 DEF ProcessCrash, HostReboot, Exit, NoReport
      <3>2. Finished' /\ Honest' /\ Told'
        BY <2>1, <2>2, <3>1 DEF Owned, Finished, Honest, Told
      <3> QED
        BY <1>3, <1>4, <2>1, <2>2, <3>1, <3>2, ExitOwned DEF Owned
    <2>4. CASE ControlsDrift \/ GuestPowersOff \/ Interrupt
      <3>1. UNCHANGED <<mode, journal, tracked, pc, report>>
        BY <2>4 DEF ControlsDrift, GuestPowersOff, Interrupt
      <3>2. Ongoing' /\ Finished' /\ Honest' /\ Told'
        BY <2>1, <2>2, <3>1 DEF Owned, Ongoing, Finished, Honest, Told
      <3>3. Planned'
        BY <2>2, <3>1 DEF Owned, Planned
      <3>4. Reclaimed'
        BY <1>3, <1>4, <3>1 DEF Owned, Reclaimed, Shrinks
      <3> QED
        BY <2>1, <2>2, <3>2, <3>3, <3>4 DEF Owned
    <2> QED
      BY <1>4, <2>3, <2>4 DEF Environment
  <1> QED
    BY <1>2, <1>4

-----------------------------------------------------------------------------
\* The theorems.

\* Before anything exists, everything is named.
LEMMA InitOwned == Init => Owned
  <1> SUFFICES ASSUME Init PROVE Owned
    OBVIOUS
  <1>1. Bare(host) /\ Empty(host) /\ \A j : Names(j, host)
    BY DEF Init, CleanHost, Bare, Empty, Names, Controls
  <1>2. /\ Unfinished(NewJournal) /\ NamesNothing(NewJournal)
        /\ NewJournal.network = "none"
    BY DEF NewJournal, Unfinished, NamesNothing
  <1>3. /\ journal = NewJournal /\ tracked = NewJournal /\ store.latest = NewJournal
        /\ pc = "create_journal" /\ report.status = "none"
    BY DEF Init, EmptyStore, NoReport
  <1>4. Ongoing /\ Finished /\ Honest /\ Told
    BY <1>1, <1>2, <1>3 DEF Ongoing, Finished, Honest, Told
  <1>5. Planned /\ Reclaimed
    BY <1>2, <1>3 DEF Planned, Reclaimed
  <1> QED
    BY <1>1, <1>4, <1>5 DEF Owned

\* Every step, and every stutter, keeps ownership.
LEMMA NextOwned == IInv /\ Owned /\ [Next]_vars => Owned'
  <1> SUFFICES ASSUME IInv, Owned, [Next]_vars PROVE Owned'
    OBVIOUS
  <1>1. CASE UNCHANGED vars
    BY <1>1 DEF vars, Owned, Ongoing, Finished, Honest, Planned, Reclaimed, Told
  <1>2. CASE RecoverNothing
    BY <1>1, <1>2 DEF RecoverNothing
  <1> QED
    BY <1>1, <1>2, PrepareOwned, ExecuteOwned, CleanOwned, EnvironmentOwned
       DEF Next, Process, Recovery

\* The second inductive invariant holds in every reachable state.
LEMMA OwnedInductive == Spec => [](IInv /\ Owned)
  <1>1. Spec => []Owned
    BY InitOwned, NextOwned, Inductive, PTL DEF Spec
  <1> QED
    BY <1>1, Inductive, PTL

\* Whatever was interrupted, torn or refused: every VM, disk, firewall rule and
\* capture session on the host is named by the generation that recovery reads.
THEOREM OwnershipKept == Spec => []OwnershipJournaled
  <1>1. Owned => OwnershipJournaled
    BY DEF Owned, Finished, Unfinished, Empty, Names, Controls, OwnershipJournaled
  <1> QED
    BY <1>1, OwnedInductive, PTL

\* A successful cleanup, and a journal that says finished, have left no VM, disk,
\* rule or capture session, also after any later crash, reboot or recovery.
THEOREM SuccessTrue == Spec => []SuccessIsHonest
  <1>1. IInv /\ Owned => SuccessIsHonest
    <2> SUFFICES ASSUME IInv, Owned,
                        report.status = "success" \/ store.latest.phase = "finished"
                 PROVE  NothingButLease(host)
      BY DEF SuccessIsHonest
    <2>1. host \in Host /\ Bare(host) /\ Empty(host)
      BY DEF IInv, TypeOK, Owned, Honest, Finished, Unfinished
    <2> QED
      BY <2>1, EmptyHost
  <1> QED
    BY <1>1, OwnedInductive, PTL

\* A failed cleanup names every kind of resource it left, or could not look.
THEOREM FailureTrue == Spec => []FailureIsComplete
  <1>1. Owned => FailureIsComplete
    BY DEF Owned, Told, Tells, Controls, FailureIsComplete
  <1> QED
    BY <1>1, OwnedInductive, PTL
=============================================================================
