---------------------------- MODULE MCSourceHead ----------------------------
(* Small instances of SourceHead. *)
EXTENDS SourceHead

CONSTANTS r1, r2, a, b, c

\* One reconciler; lost webhooks, failed attempts, a change of the leader, old grants.
Alone   == [replicas |-> {r1}, auto |-> TRUE, history |-> <<a, b, c>>, events |-> {"fault", "lose", "restart", "stale", "aging"}]
\* Two, with leases that lapse, or old grants.
Pair    == [Alone EXCEPT !.replicas = {r1, r2}, !.history = <<a, b>>, !.events = {"expire", "stale", "aging"}]
\* Two, with failed attempts and spec writes.
Saving  == [Pair EXCEPT !.events = {"fault", "spec"}]
\* Two, and a branch that is deleted and pushed again.
Recreated == [Pair EXCEPT !.history = <<a, b, c>>, !.events = {"recreate"}]
\* Two, and a branch that is forced back to an earlier commit.
Reverted  == [Pair EXCEPT !.history = <<a, b, a>>, !.events = {}]
\* Two, with auto-deploy off.
Manual  == [Pair EXCEPT !.auto = FALSE, !.events = {"spec"}]

AllScopes == {Alone, Pair, Saving, Recreated, Reverted, Manual}

\* Two reconcilers and nothing going wrong.
Racing  == {[Pair EXCEPT !.history = <<a, b, c>>, !.events = {}]}

=============================================================================
