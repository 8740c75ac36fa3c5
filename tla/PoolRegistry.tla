----------------------------- MODULE PoolRegistry ------------------------------
(***************************************************************************)
(* What the copy of the chain's stake pools promises, whoever makes it: a  *)
(* row is written once, after those of all pools below it, with the owner  *)
(* the chain has at that time - and never again.  Only of a pool that the  *)
(* chain took back may the row be missing, or be another's.                *)
(***************************************************************************)
EXTENDS Integers, Sequences

CONSTANTS Accounts, MaxPools

Pools == 0..MaxPools - 1
NoAccount == "none"

VARIABLES
    chain,              \* the owners of the chain's pools, in order
    takenBack,          \* pools a reorganisation of the chain removed
    owner               \* the owner of each row

vars == <<chain, takenBack, owner>>

Init ==
    /\ chain = <<>> /\ takenBack = {}
    /\ owner = [p \in Pools |-> NoAccount]

NewPool ==
    /\ Len(chain) < MaxPools
    /\ \E a \in Accounts : chain' = Append(chain, a)
    /\ UNCHANGED <<takenBack, owner>>

TakeBack ==
    \E n \in 0..Len(chain) - 1 :
        /\ chain' = SubSeq(chain, 1, n)
        /\ takenBack' = takenBack \cup n..Len(chain) - 1
        /\ UNCHANGED owner

Done(p) == owner[p] # NoAccount \/ p \in takenBack

OwnerOf(p, a) == p \in takenBack \/ (p < Len(chain) /\ a = chain[p + 1])

Store(p, a) ==
    /\ owner[p] = NoAccount
    /\ \A q \in Pools : q < p => Done(q)
    /\ OwnerOf(p, a)
    /\ owner' = [owner EXCEPT ![p] = a]
    /\ UNCHANGED <<chain, takenBack>>

Next ==
    \/ NewPool
    \/ TakeBack
    \/ \E p \in Pools, a \in Accounts : Store(p, a)

Spec == Init /\ [][Next]_vars
=============================================================================
