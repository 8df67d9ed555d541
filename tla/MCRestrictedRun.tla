--------------------------- MODULE MCRestrictedRun ---------------------------
(***************************************************************************)
(* Scenarios for RestrictedRun: one broker with a request of any kind, and *)
(* a second one, of the same session or of another, that prepares a run    *)
(* and gives it up when its mapped inputs are too large.                   *)
(***************************************************************************)
EXTENDS RestrictedRun, TLC

CONSTANTS r1, r2, s1, s2

DenyAll ==
    [mode |-> "deny_all", allowed |-> {}, target |-> "console", arguments |-> TRUE,
     profile |-> "maximum", mapped |-> "none", timeout |-> 1, dryRun |-> FALSE]

AllowList ==
    [DenyAll EXCEPT !.mode = "allow_list", !.target = "batch", !.arguments = FALSE,
                    !.profile = "compatible",
                    !.allowed = {[family |-> "v4", address |-> 2, prefix |-> 1],
                                 [family |-> "v6", address |-> 0, prefix |-> 2]}]

Oversized == [DenyAll EXCEPT !.mapped = "oversized"]

\* Of the requests that get to run, one is asked for beside a broker of another
\* session and two beside one of the same.
Asked ==
    {<<DenyAll, s2>>, <<AllowList, s1>>, <<[DenyAll EXCEPT !.mode = "allow_internet"], s1>>,
     <<[DenyAll EXCEPT !.target = "gui"], s1>>, <<[DenyAll EXCEPT !.dryRun = TRUE], s1>>,
     <<[DenyAll EXCEPT !.timeout = 0], s1>>}

MCScenarios ==
    {[request |-> (r1 :> a[1] @@ r2 :> Oversized), session |-> (r1 :> s1 @@ r2 :> a[2])] :
        a \in Asked}
=============================================================================
