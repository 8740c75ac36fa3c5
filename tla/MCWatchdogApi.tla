----------------------------- MODULE MCWatchdogApi -----------------------------
(***************************************************************************)
(* Instance of WatchdogApi: two identities, and as many requests as it     *)
(* takes for one to count, or look a row up, before the other writes.      *)
(***************************************************************************)
EXTENDS WatchdogApi
=============================================================================
