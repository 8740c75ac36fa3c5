------------------------- MODULE MCUnresponsiveWorkers -------------------------
(***************************************************************************)
(* Instance of UnresponsiveWorkers with the pools 0 and 1.  The keys of a  *)
(* pool are used alike, and so are its observations, and workers if the    *)
(* session of each of them may end: the safety run may permute them.       *)
(***************************************************************************)
EXTENDS UnresponsiveWorkers, TLC

CONSTANT OfPoolZero         \* keys and observations of pool 0; others are of 1

MCPool(S) == [x \in S |-> IF x \in OfPoolZero THEN 0 ELSE 1]
MCAssigned == MCPool(Keys)
MCPoolOf == MCPool(Observations)

MCSymmetry ==
    Permutations(Keys \cap OfPoolZero) \cup Permutations(Keys \ OfPoolZero)
        \cup Permutations(Observations \cap OfPoolZero)
        \cup Permutations(Observations \ OfPoolZero)
        \cup (IF Closable = Workers THEN Permutations(Workers) ELSE {})
=============================================================================
