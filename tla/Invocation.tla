------------------------------ MODULE Invocation -------------------------------
(***************************************************************************)
(* From the command line to a sandbox request (src/cli.rs,                 *)
(* src/sandbox/dispatcher.rs): which backend runs the target and what      *)
(* network it gets, or why it does not run.                                *)
(***************************************************************************)
EXTENDS Integers

Policies == {"deny_all", "host_server", "allow_list", "allow_internet", "capture_only"}

\* What the options say.  "images" stands for those of the image, its manifest, the
\* gateway and the scanners; the parser rejects the two shortcuts together.
Arguments ==
    {a \in [sandbox : {"none", "restricted", "hyperv", "auto"}, fallback : BOOLEAN,
            hostServer : BOOLEAN, external : BOOLEAN, allowNetwork : BOOLEAN,
            policy : Policies \cup {"none"}, addresses : BOOLEAN, images : BOOLEAN,
            profile : {"restricted", "normal", "admin"}, report : BOOLEAN] :
        ~(a.hostServer /\ a.external)}

Refusal == [ok |-> FALSE]

RequestedBackend(a) ==
    IF \/ a.sandbox = "none"
       \/ a.fallback /\ a.sandbox # "auto"
       \/ a.sandbox = "restricted" /\ (a.images \/ a.hostServer \/ a.external)
    THEN Refusal ELSE [ok |-> TRUE, backend |-> a.sandbox]

\* The probe that failed counts as a host without Hyper-V; a restricted run is not probed.
Capable(a, capability) == a.sandbox # "restricted" /\ capability = "available"

Selected(backend, fallbackUsed) == [ok |-> TRUE, backend |-> backend, fallbackUsed |-> fallbackUsed]

\* Mutant: a host whose probe failed falls back without being permitted to.
ResolveBackend_Unpermitted(requested, capable, fallback) ==
    IF requested = "restricted" \/ ~capable
    THEN Selected("restricted", requested # "restricted") ELSE Selected("hyperv", FALSE)

ResolveBackend(requested, capable, fallback) ==
    CASE requested = "restricted" -> Selected("restricted", FALSE)
      [] capable -> Selected("hyperv", FALSE)
      [] requested = "auto" /\ ~capable /\ fallback -> Selected("restricted", TRUE)
      [] OTHER -> Refusal

Shortcut(a) ==
    IF a.hostServer THEN "host_server"
    ELSE IF a.external \/ a.allowNetwork THEN "allow_internet" ELSE "none"

PolicyOf(a) ==
    IF Shortcut(a) # "none" THEN Shortcut(a) ELSE IF a.policy # "none" THEN a.policy ELSE "deny_all"

BuildSandboxRequest(a, backend) ==
    IF \/ backend # "hyperv" /\ (a.hostServer \/ a.external)
       \/ a.hostServer /\ a.allowNetwork
       \/ Shortcut(a) # "none" /\ a.policy # "none" /\ a.policy # Shortcut(a)
       \/ backend # "hyperv" /\ PolicyOf(a) = "host_server"
       \/ (PolicyOf(a) = "allow_list") # a.addresses
       \/ backend = "restricted" /\ a.profile # "restricted"
    THEN Refusal
    ELSE [ok |-> TRUE, policy |-> PolicyOf(a), profile |-> a.profile]

\* Only a run in a virtual machine reads the image, the gateway and the scanner settings.
NeedsConfiguration(backend) == backend = "hyperv"

-----------------------------------------------------------------------------
\* What the options allow, said without the order in which the code looks at them.

\* dispatcher.rs: "The only permitted fallback is `Auto` plus an unavailable Hyper-V
\* capability plus explicit authorization for weaker restricted-process isolation."
WeakerIsolationAllowed(a, capability) ==
    \/ a.sandbox = "restricted"
    \/ a.sandbox = "auto" /\ capability # "available" /\ a.fallback

\* The target reaches the network only as far as an option says.
NetworkAsked(a, policy) ==
    CASE policy = "deny_all" -> a.policy \in {"none", "deny_all"} /\ ~a.allowNetwork
      [] policy = "host_server" -> a.hostServer \/ a.policy = "host_server"
      [] policy = "allow_internet" -> a.external \/ a.allowNetwork \/ a.policy = "allow_internet"
      [] policy = "allow_list" -> a.policy = "allow_list" /\ a.addresses
      [] policy = "capture_only" -> a.policy = "capture_only"
=============================================================================
