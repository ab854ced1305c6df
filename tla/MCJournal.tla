----------------------------- MODULE MCJournal -----------------------------
(* The journal with one store and two calls that execute one command id. *)
EXTENDS Journal, TLC

CONSTANTS r1, c1, c2, x

MCReplicas  == {r1}
MCCalls     == {c1, c2}
NoIds       == {}
OneCaller   == {x}

Symmetry == Permutations(MCCalls)
=============================================================================
