--------------------------- MODULE MCDurableWork ---------------------------
(* One key enqueued three times, a worker that serves every kind and one   *)
(* that serves the key's kind only.                                        *)
EXTENDS DurableWork, TLC

CONSTANTS k1, o1, o2

MCOwners    == {o1, o2}
MCKinds     == {"source", "invoice"}
MCKindOf1   == k1 :> "source"
MCServes    == o1 :> {} @@ o2 :> {"source"}
MCResource1 == k1 :> "service"
=============================================================================
