--------------------------- MODULE HostResources ---------------------------
(***************************************************************************)
(* The host resources of one Hyper-V run and the PowerShell scripts and    *)
(* file operations that change them.  Every operation is the set of the    *)
(* outcomes it can have: [ok, host, cost].  Cost 1 marks an outcome that   *)
(* needs something to go wrong (a cmdlet error, the host timeout, a killed *)
(* child): the call reports an error and the host is left as it was,       *)
(* partly changed, or changed completely.                                  *)
(***************************************************************************)

Modes == {"deny_all", "host_server", "external"}

Host == [vm       : {"absent", "off", "running"},
         nic      : {"none", "default", "controlled"},
         acls     : BOOLEAN,
         rule     : BOOLEAN,
         capture  : {"absent", "running", "stopped"},
         lease    : BOOLEAN,
         osDisk   : {"absent", "anonymous", "identified"},
         dataDisk : {"absent", "detached", "mounted"}]   \* mounted: by the host

CleanHost == [vm |-> "absent", nic |-> "none", acls |-> FALSE, rule |-> FALSE,
              capture |-> "absent", lease |-> FALSE, osDisk |-> "absent",
              dataDisk |-> "absent"]

Outcome == [ok : BOOLEAN, host : Host, cost : {0, 1}]

Done(h)    == [ok |-> TRUE,  host |-> h, cost |-> 0]
Refused(h) == [ok |-> FALSE, host |-> h, cost |-> 0]
Broken(h)  == [ok |-> FALSE, host |-> h, cost |-> 1]

\* A script that turns h into done, and may stop in h, in done or in between.
Script(h, done, between) ==
    {Done(done)} \cup {Broken(x) : x \in {h, done} \cup between}

\* What the attestation compares with the activated plan: no adapter at all, or
\* the one controlled adapter with its ACLs, the capture and the host rule.
Contained(mode, h) ==
    IF mode = "deny_all" THEN h.nic = "none"
    ELSE /\ h.nic = "controlled" /\ h.acls
         /\ h.capture = "running"
         /\ mode = "host_server" => h.rule

-----------------------------------------------------------------------------
\* Guest address lease: one file in the pool directory.
AllocateLease(h) ==
    {Done([h EXCEPT !.lease = TRUE])}
    \cup {Broken(x) : x \in {h, [h EXCEPT !.lease = TRUE]}}

\* A missing lease file is an error, not an already finished release.
ReleaseLease(h) ==
    IF h.lease THEN {Done([h EXCEPT !.lease = FALSE]), Broken(h)} ELSE {Refused(h)}

-----------------------------------------------------------------------------
\* Disks.  Get-VHD may report no identifier for the new disk.
CreateOsDisk(h) ==
    IF h.osDisk # "absent" THEN {Refused(h)}
    ELSE Script(h, [h EXCEPT !.osDisk = "identified"], {})
         \cup {[ok |-> TRUE, host |-> [h EXCEPT !.osDisk = "anonymous"], cost |-> 1]}

CreateDataDisk(h) ==
    IF h.dataDisk # "absent" THEN {Refused(h)}
    ELSE Script(h, [h EXCEPT !.dataDisk = "mounted"], {[h EXCEPT !.dataDisk = "detached"]})

\* Detaching the disk from the VM and mounting it on the host.
MountDataDisk(h) ==
    IF h.vm = "running" \/ h.dataDisk # "detached" THEN {Refused(h)}
    ELSE Script(h, [h EXCEPT !.dataDisk = "mounted"], {})

DismountDataDisk(h) ==
    Script(h, IF h.dataDisk = "mounted" THEN [h EXCEPT !.dataDisk = "detached"] ELSE h, {})

\* Mutant: a disk without a recorded identity is skipped without an error.
DeleteDataDisk_Skipping(h, identified) ==
    IF h.dataDisk = "absent" \/ ~identified THEN {Done(h)}
    ELSE {Done([h EXCEPT !.dataDisk = "absent"]), Broken(h)}

\* delete_verified_disk: an unidentified, mismatching or attached disk is kept.
DeleteDataDisk(h, identified) ==
    IF h.dataDisk = "absent" THEN {Done(h)}
    ELSE IF ~identified \/ h.dataDisk = "mounted" THEN {Refused(h)}
    ELSE {Done([h EXCEPT !.dataDisk = "absent"]), Broken(h)}

DeleteOsDisk(h, identified) ==
    IF h.osDisk = "absent" THEN {Done(h)}
    ELSE IF ~identified \/ h.osDisk = "anonymous" THEN {Refused(h)}
    ELSE {Done([h EXCEPT !.osDisk = "absent"]), Broken(h)}

-----------------------------------------------------------------------------
\* The virtual machine.
CreateVm(h) ==
    IF h.vm # "absent" THEN {Refused(h)}
    ELSE Script(h, [h EXCEPT !.vm = "off", !.nic = "default"], {})

AttachDisks(h) == IF h.vm # "off" THEN {Refused(h)} ELSE {Done(h), Broken(h)}

DetachDisks(h) == IF h.vm = "running" THEN {Refused(h)} ELSE {Done(h), Broken(h)}

\* Hyper-V would also refuse a disk the host has mounted; the caller must not
\* rely on it, so that refusal is left out.
StartVm(h) ==
    IF h.vm # "off" THEN {Refused(h)}
    ELSE Script(h, [h EXCEPT !.vm = "running"], {})

PoweredOff(h) == IF h.vm = "running" THEN [h EXCEPT !.vm = "off"] ELSE h

StopVm(h) == Script(h, PoweredOff(h), {})

WithoutVm(h) == [h EXCEPT !.vm = "absent", !.nic = "none", !.acls = FALSE]

\* Stop-VM -TurnOff, then Remove-VM; a VM that does not exist is removed.
RemoveVm(h) == Script(h, WithoutVm(h), {PoweredOff(h)})

-----------------------------------------------------------------------------
\* The controlled network of the run.
PrepareAdapter(h) ==
    IF h.vm = "absent" THEN {Refused(h)}
    ELSE Script(h, [h EXCEPT !.nic = "controlled"], {[h EXCEPT !.nic = "none"]})

ConfigureNetwork(mode, h) ==
    LET acls    == [h EXCEPT !.acls = TRUE]
        rule    == [acls EXCEPT !.rule = (mode = "host_server")]
        capture == [rule EXCEPT !.capture = "running"]
        session == [rule EXCEPT !.capture = "stopped"]
    IN  IF h.vm = "absent" THEN {Refused(h)}
        ELSE IF mode = "deny_all" THEN Script(h, [h EXCEPT !.nic = "none"], {})
        ELSE IF h.nic # "controlled" THEN {Refused(h)}
        ELSE Script(h, capture, {acls, rule, session})

VerifyNetwork(mode, h) ==
    {IF h.vm # "absent" /\ Contained(mode, h) THEN Done(h) ELSE Refused(h), Broken(h)}

StopCapture(h) ==
    IF h.capture = "absent" THEN {Refused(h)}
    ELSE Script(h, [h EXCEPT !.capture = "stopped"], {})

\* The capture session goes first; then, in host-server mode, exactly one host
\* firewall rule of this run must be found before it is removed.
RemoveHostControls(mode, h) ==
    LET stopped   == [h EXCEPT !.capture = IF @ = "running" THEN "stopped" ELSE @]
        noCapture == [h EXCEPT !.capture = "absent"]
        noRule    == [noCapture EXCEPT !.rule = FALSE]
    IN  IF mode = "host_server" /\ ~h.rule
        THEN {Refused(noCapture), Broken(h), Broken(stopped)}
        ELSE Script(h, noRule, {stopped, noCapture})
=============================================================================
