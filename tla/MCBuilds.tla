------------------------------ MODULE MCBuilds ------------------------------
(* Small instances of Builds.                                               *)
EXTENDS Builds

CONSTANTS s1, s2, w1, w2

\* Builders that lose jobs, answers, reports and leases.
Faulty  == [services |-> {s1}, builders |-> {w1, w2}, cap |-> 2, window |-> 2, requests |-> 2, faults |-> 1, events |-> {"abandon", "lapse", "full"}]
\* Users that change their minds while builds are queued, running and lost.
Users   == [Faulty EXCEPT !.faults = 0, !.events = {"cancel", "delete", "redeploy", "reuse", "lapse"}]
\* Two services behind a cap of one running build, and operators.
Capped  == [Faulty EXCEPT !.services = {s1, s2}, !.cap = 1, !.faults = 0, !.events = {"lapse", "pause", "drain", "undrain"}]
\* A preferred builder that leaves, is drained or full.
Served  == [Capped EXCEPT !.services = {s1}, !.events = {"overrun", "leave", "drain", "full"}]
\* A bound on the time in the queue.
Aging   == [Users EXCEPT !.events = {"age", "overrun", "redeploy"}]
\* Polls that look at one queued build, which may be one whose deployment was retired.
Narrow  == [Served EXCEPT !.services = {s1, s2}, !.builders = {w1}, !.window = 1, !.requests = 3, !.events = {"overrun", "redeploy"}]
\* Services that billing keeps from building.
Billed  == [Narrow EXCEPT !.window = 2, !.requests = 2, !.events = {"overrun", "billing"}]

AllScopes == {Faulty, Users, Capped, Served, Aging, Narrow, Billed}
=============================================================================
