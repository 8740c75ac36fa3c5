----------------------------- MODULE MCStakePools ------------------------------
(***************************************************************************)
(* Instance of StakePools: two runs that overlap, a request for an owner's *)
(* account, and a pool that is taken back between the count and the query. *)
(***************************************************************************)
EXTENDS StakePools
=============================================================================
