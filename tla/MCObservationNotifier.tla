------------------------- MODULE MCObservationNotifier -------------------------
(***************************************************************************)
(* Instance of ObservationNotifier.  All observations are one user's.  The *)
(* runs are alike, and so are types none of which flushes early: the       *)
(* safety run may permute them.                                            *)
(***************************************************************************)
EXTENDS ObservationNotifier, TLC

CONSTANT OfPoolZero         \* the observations of pool 0; the others are of 1

MCPoolOf == [o \in Observations |-> IF o \in OfPoolZero THEN 0 ELSE 1]

MCUserOf == [o \in Observations |-> "alice"]

MCSymmetry ==
    Permutations(Runs) \cup (IF Flushing = {} THEN Permutations(Types) ELSE {})
=============================================================================
