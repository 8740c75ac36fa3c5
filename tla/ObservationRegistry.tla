-------------------------- MODULE ObservationRegistry --------------------------
(***************************************************************************)
(* What the API promises to those who use it, with every request done at   *)
(* once: who is new is registered, once; who is registered may create      *)
(* observations up to a quota, each with an id never used before; and an   *)
(* observation is deleted, alone and for good, or stays who made it's.     *)
(***************************************************************************)
EXTENDS Integers, FiniteSets

CONSTANTS
    Identities,
    Quota,              \* how many observations an identity may have
    MaxRows

NoIdentity == "none"
RowIds == 1..MaxRows

VARIABLES
    known,              \* who is registered
    users,              \* how many users that takes
    holder,             \* whose each observation is
    lastRow             \* the last id of an observation

vars == <<known, users, holder, lastRow>>

Init ==
    /\ known = {} /\ users = 0
    /\ holder = [o \in RowIds |-> NoIdentity]
    /\ lastRow = 0

Register(i) ==
    /\ i \notin known
    /\ known' = known \cup {i}
    /\ users' = users + 1
    /\ UNCHANGED <<holder, lastRow>>

Holds(i) == {o \in RowIds : holder[o] = i}

Create(i) ==
    /\ i \in known
    /\ lastRow < MaxRows
    /\ Cardinality(Holds(i)) < Quota
    /\ lastRow' = lastRow + 1
    /\ holder' = [holder EXCEPT ![lastRow + 1] = i]
    /\ UNCHANGED <<known, users>>

Delete(o) ==
    /\ holder' = [holder EXCEPT ![o] = NoIdentity]
    /\ UNCHANGED <<known, users, lastRow>>

Next ==
    \/ \E i \in Identities : Register(i) \/ Create(i)
    \/ \E o \in RowIds : Delete(o)

Spec == Init /\ [][Next]_vars
=============================================================================
