---------------------------- MODULE RestrictedHost ----------------------------
(***************************************************************************)
(* What the restricted-process backend decides before and while a target   *)
(* runs: which requests it accepts, what it may launch, with which token,  *)
(* behind which network filters and within which storage                   *)
(* (src/sandbox/backend.rs, src/sandbox/windows).                          *)
(***************************************************************************)
EXTENDS Integers, FiniteSets

\* Addresses of AddressBits bits stand for IPv4 and IPv6 addresses.
AddressBits == 2
Addresses == 0..(2^AddressBits - 1)
Families == {"v4", "v6"}
Networks == [family : Families, address : Addresses, prefix : 0..AddressBits]
Flows == [direction : {"connect", "accept"}, family : Families, address : Addresses]

Modes == {"deny_all", "host_server", "allow_list", "allow_internet", "capture_only"}
Targets == {"console", "gui", "batch", "other", "linked"}
Profiles == {"compatible", "strict", "maximum"}
Mappings == {"none", "plain", "duplicate", "dangerous", "oversized"}

Requests ==
    [mode : Modes, allowed : SUBSET Networks, target : Targets, arguments : BOOLEAN,
     profile : Profiles, mapped : Mappings, timeout : {0, 1}, dryRun : BOOLEAN]

-----------------------------------------------------------------------------
\* The request and the launch plan.

ValidRequest(q) ==
    /\ q.timeout > 0
    /\ q.mode # "host_server"
    /\ q.mapped # "duplicate"

\* A target is pinned only through plain directories, as a single-link file.
Pinnable(q) == q.target # "linked"

Launchable(q) ==
    /\ q.target \in {"console", "gui", "batch"}
    /\ q.target = "batch" => ~q.arguments
    /\ ~(q.profile = "maximum" /\ q.target = "gui")

\* Mapped inputs are copied within a budget, and never from a drive or profile root.
Stageable(q) == q.mapped \in {"none", "plain"}

-----------------------------------------------------------------------------
\* The token of the target.

Reaches(mode) == mode \in {"allow_list", "allow_internet", "capture_only"}

Capabilities(q) ==
    (IF q.target = "batch" THEN {"registryRead", "lpacIdentityServices"} ELSE {})
    \cup (IF Reaches(q.mode) THEN {"internetClient"} ELSE {})

LowIntegrity == 4096

IntegrityOf(q) == IF q.profile = "maximum" THEN 0 ELSE LowIntegrity

Token(q) == [appContainer |-> TRUE, lpac |-> TRUE, own |-> TRUE,
             integrity |-> IntegrityOf(q), capabilities |-> Capabilities(q)]

\* Windows may have made another token than the one that was asked for.
TokensMade(q) ==
    {Token(q)} \cup
    {[Token(q) EXCEPT !.appContainer = FALSE], [Token(q) EXCEPT !.lpac = FALSE],
     [Token(q) EXCEPT !.own = FALSE], [Token(q) EXCEPT !.integrity = 2 * LowIntegrity],
     [Token(q) EXCEPT !.capabilities = @ \cup {"documentsLibrary"}]}

ExactCapabilities(t, q) == t.capabilities = Capabilities(q)

VerifiedToken(t, q) ==
    /\ t.integrity <= IntegrityOf(q)
    /\ t.appContainer
    /\ t.lpac
    /\ t.own
    /\ ExactCapabilities(t, q)

-----------------------------------------------------------------------------
\* The filters of the package: permits of the allow-list above blocks of
\* everything, in both directions and families.

BlockAll(direction, family) ==
    [direction |-> direction, family |-> family, action |-> "block", weight |-> 1,
     address |-> 0, prefix |-> 0]

Permit(n) ==
    [direction |-> "connect", family |-> n.family, action |-> "permit", weight |-> 15,
     address |-> n.address, prefix |-> n.prefix]

Filtered(q) == q.mode \in {"deny_all", "allow_list"}

\* Mutant: only outgoing connections are blocked.
Filters_Outbound(q) ==
    IF Filtered(q)
    THEN {Permit(n) : n \in IF q.mode = "allow_list" THEN q.allowed ELSE {}}
         \cup {BlockAll("connect", f) : f \in Families}
    ELSE {}

Filters(q) ==
    IF Filtered(q)
    THEN {Permit(n) : n \in IF q.mode = "allow_list" THEN q.allowed ELSE {}}
         \cup {BlockAll(d, f) : d \in {"connect", "accept"}, f \in Families}
    ELSE {}

\* Equal under the prefix mask; prefix 0 masks everything.
SameNetwork(a, b, prefix) ==
    LET block == 2^(AddressBits - prefix) IN a \div block = b \div block

Matching(filters, flow) ==
    {f \in filters : /\ f.direction = flow.direction
                     /\ f.family = flow.family
                     /\ SameNetwork(f.address, flow.address, f.prefix)}

\* The heaviest matching filter of the sublayer decides.
Admits(filters, flow) ==
    LET matching == Matching(filters, flow)
    IN  matching = {} \/ \E f \in matching : /\ f.action = "permit"
                                             /\ \A g \in matching : g.weight <= f.weight

-----------------------------------------------------------------------------
\* The storage of the profile.

Volumes == {"small", "over"}

\* Over is too many bytes, entries or path bytes, a link or a named stream.  The
\* measurement fails, too, when an entry vanishes or is held exclusively by a target
\* that is still at work.
StorageViolations(volume, busy) ==
    {volume # "small"} \cup (IF busy THEN {TRUE} ELSE {})
=============================================================================
