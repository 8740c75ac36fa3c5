------------------------------- MODULE IssueBoard -------------------------------
(***************************************************************************)
(* What the watchdog promises of the issues of the pools' workers: the     *)
(* events of the chain take effect in the database exactly once and in     *)
(* order, whole chunks of them at a time, and apart from them issues are   *)
(* only removed.  An Enter event opens at most one issue, of its own       *)
(* worker; in a chunk an issue goes away only with an Exit event of its    *)
(* own worker, unless that worker strayed.                                 *)
(***************************************************************************)
EXTENDS Integers, Sequences

CONSTANTS Workers, Keys, MaxEvents

VARIABLES
    events,             \* the finalized events of the workers
    position,           \* how many of them have taken effect
    issues,             \* the rows of UnresponsiveWorker
    strayed             \* workers whose state or key changed without an event

vars == <<events, position, issues, strayed>>

Event == [kind : {"enter", "exit"}, worker : Workers]

Init == events = <<>> /\ position = 0 /\ issues = {} /\ strayed = {}

Emit ==
    /\ Len(events) < MaxEvents
    /\ \E e \in Event : events' = Append(events, e)
    /\ UNCHANGED <<position, issues, strayed>>

Stray ==
    /\ \E w \in Workers : strayed' = strayed \cup {w}
    /\ UNCHANGED <<events, position, issues>>

Entered(n) == events[n].kind = "enter"
Exits(w, m, n) == \E e \in m..n : events[e] = [kind |-> "exit", worker |-> w]
Opened(n, k) == [worker |-> events[n].worker, key |-> k, since |-> n]

(* The events after position, up to n, take effect.  *)
Take(n) ==
    LET batch == (position + 1)..n IN
    /\ position' = n
    /\ \E opening \in SUBSET {e \in batch : Entered(e)} : \E k \in [opening -> Keys] :
         \E gone \in SUBSET {i \in issues : i.worker \in strayed \/ Exits(i.worker, position + 1, n)} :
            issues' = (issues \ gone) \cup {Opened(e, k[e]) : e \in opening}
    /\ UNCHANGED <<events, strayed>>

Remove ==
    /\ issues' \in SUBSET issues
    /\ UNCHANGED <<events, position, strayed>>

Next ==
    \/ Emit
    \/ Stray
    \/ \E n \in (position + 1)..Len(events) : Take(n)
    \/ Remove

Spec == Init /\ [][Next]_vars
=============================================================================
