----------------------------- MODULE MCRestarts -----------------------------
(* Small instances of Restarts. *)
EXTENDS Restarts

Settings == [policy |-> "on-failure", max |-> 2, window |-> 0, stable |-> 2, delay |-> 1, cap |-> 1,
             jitter |-> FALSE, events |-> {}]

\* Copies in the control plane, agent crashes and failed calls.
Crashing  == [Settings EXCEPT !.events = {"fault", "echo"}]
\* Disk and liveness reclaims, with a retry window and jitter.
Reclaimed == [Settings EXCEPT !.policy = "always", !.window = 2, !.cap = 2, !.jitter = TRUE, !.events = {"disk", "liveness", "fault"}]
\* Sleep, wake, torn files and new generations.
Sleeping  == [Settings EXCEPT !.max = 1, !.delay = 0, !.events = {"sleep", "fault", "torn", "retarget"}]
\* Torn files, with copies in the control plane that outlive them.
Torn      == [Settings EXCEPT !.max = 1, !.delay = 0, !.cap = 3, !.stable = 1, !.events = {"sleep", "fault", "torn", "echo"}]
\* The managed dashboard, with a liveness check.
Dashboard == [Settings EXCEPT !.max = 1, !.delay = 0, !.events = {"force", "fault", "liveness"}]
\* A policy that never restarts.
Never     == [Settings EXCEPT !.policy = "never", !.events = {"fault", "echo", "liveness"}]

AllScopes == {Crashing, Reclaimed, Sleeping, Torn, Dashboard, Never}

=============================================================================
