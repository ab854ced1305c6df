--------------------------- MODULE DesiredFollow ---------------------------
(***************************************************************************)
(* What the sync of an agent promises: the product publishes one content   *)
(* after the other, and the agent adopts the whole content of a published  *)
(* revision at once, never an older one than it has.  There are no         *)
(* messages, diffs, checkpoints, sessions or histories here.               *)
(***************************************************************************)
EXTENDS Naturals, Sequences

CONSTANTS Contents, Nothing

VARIABLES published,  \* the content of every revision
          at,         \* the revision the agent has adopted, 0 when none
          running     \* the content it has adopted

vars == <<published, at, running>>

Init == published \in {<<c>> : c \in Contents} /\ at = 0 /\ running = Nothing

Publish == /\ \E c \in Contents : published' = Append(published, c)
           /\ UNCHANGED <<at, running>>

Adopt == /\ \E r \in 1..Len(published) : r >= at /\ at' = r /\ running' = published[r]
         /\ UNCHANGED published

Next == Publish \/ Adopt

Spec == Init /\ [][Next]_vars
=============================================================================
