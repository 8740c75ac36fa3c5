-------------------------- MODULE ObservationNotifier --------------------------
(***************************************************************************)
(* How observers are notified.  A run of a crawler (the five classes that  *)
(* extend AbstractPeriodicCrawler, and the post-processing of an event     *)
(* crawler, which has the same shape) reads the observations, decides for  *)
(* each one whether its user is to be told, sends the messages, and then   *)
(* stores when each observation was last notified.  Runs are started by    *)
(* cron, each with its own entity manager, and may overlap; a time-out     *)
(* (MainTasker) does not stop a run.  The database row of an observation   *)
(* keeps the stamps of every observation type in one JSON column, which a  *)
(* flush writes as a whole.  The reminder of unresponsive workers may      *)
(* flush before it sends: each look-up of issues first writes what the run *)
(* has changed, if the run is about to remove an issue.                    *)
(***************************************************************************)
EXTENDS Integers, FiniteSets

CONSTANTS
    Observations,       \* the observations users have set up
    Types,              \* the observation types (ObservationType)
    Flushing,           \* types whose runs may flush before they send
    EventTypes,         \* types notified of by events, each of one pool
    PoolOf,             \* stakePool.onChainId of each observation
    UserOf,             \* msgChannel and msgUserId of each one's user
    Runs,               \* crawler runs that may be under way at once
    Alarming,           \* observations whose value is never below threshold
    Frequency,          \* config[type].frequency
    MaxTime,            \* bound: the last tick of the clock
    MaxMishaps          \* bound: failed runs, updates and refusals together

ASSUME NotifierAssumption ==
    /\ Alarming \subseteq Observations
    /\ Flushing \subseteq Types
    /\ EventTypes \subseteq Types
    /\ PoolOf \in [Observations -> Nat]
    /\ Frequency \in Nat
    /\ MaxTime \in Nat \ {0}
    /\ MaxMishaps \in Nat

NoType == "none"                        \* of a run that is not under way
AllPools == -1                          \* no onChainId: a periodic run
Never == 0                              \* no lastNotifications[type] yet
Stamp == 0..MaxTime
Fresh == [t \in Types |-> Never]        \* new ObservationNotifications()

VARIABLES
    now,                \* Date.now()
    alive,              \* database: the observations whose row exists
    stored,             \* database: lastNotifications of each row
    pc,                 \* where each run is
    type,               \* the observation type of each run
    scope,              \* the pool whose event a run is about, or AllPools
    copy,               \* memory: lastNotifications as the run has it
    todo,               \* memory: observations the run still has to look at
    outbox,             \* memory: observations the run aggregated a message of
    dirty,              \* memory: observations it changed and has not written
    told,               \* world: the stamp of the last message taken, per type
    early,              \* history: where a message came before its time
    forgotten,          \* history: where the database lost or never got a stamp
    twins,              \* history: types of which two runs overlapped
    refused,            \* history: messages a channel did not take
    mishaps             \* history: failed runs, updates and refusals so far

rows == <<alive, stored>>
runState == <<pc, type, scope, copy, todo, outbox, dirty>>
history == <<told, early, forgotten, twins, refused>>
vars == <<now, alive, stored, pc, type, scope, copy, todo, outbox, dirty, told,
          early, forgotten, twins, refused, mishaps>>

TypeOK ==
    /\ now \in 1..MaxTime
    /\ alive \subseteq Observations
    /\ stored \in [Observations -> [Types -> Stamp]]
    /\ pc \in [Runs -> {"idle", "gate", "flush"}]
    /\ type \in [Runs -> Types \cup {NoType}]
    /\ scope \in [Runs -> Nat \cup {AllPools}]
    /\ copy \in [Runs -> [Observations -> [Types -> Stamp]]]
    /\ todo \in [Runs -> SUBSET Observations]
    /\ outbox \in [Runs -> SUBSET Observations]
    /\ dirty \in [Runs -> SUBSET Observations]
    /\ told \in [Observations -> [Types -> Stamp]]
    /\ early \subseteq Observations \X Types
    /\ forgotten \subseteq Observations \X Types
    /\ twins \subseteq Types
    /\ refused \subseteq Observations \X Types \X Stamp
    /\ mishaps \in 0..MaxMishaps

Init ==
    /\ now = 1
    /\ alive = Observations
    /\ stored = [o \in Observations |-> Fresh]
    /\ pc = [r \in Runs |-> "idle"]
    /\ type \in [Runs -> {NoType}]
    /\ scope = [r \in Runs |-> AllPools]
    /\ copy = [r \in Runs |-> [o \in Observations |-> Fresh]]
    /\ todo = [r \in Runs |-> {}]
    /\ outbox = [r \in Runs |-> {}]
    /\ dirty = [r \in Runs |-> {}]
    /\ told = [o \in Observations |-> Fresh]
    /\ early = {}
    /\ forgotten = {}
    /\ twins = {}
    /\ refused = {}
    /\ mishaps = 0

-----------------------------------------------------------------------------
Tick ==
    /\ now < MaxTime
    /\ now' = now + 1
    /\ UNCHANGED <<rows, runState, history, mishaps>>

(* What _fetchObservations finds: if (onChainId) the observations of that  *)
(* pool, otherwise all.  Number 0 is a pool's too, but is false.           *)
InScope(o, p) == p \in {AllPools, 0} \/ PoolOf[o] = p

(* What a run of type t can be about; the events of other pools than these *)
(* find no observation.                                                    *)
Scopes(t) == IF t \in EventTypes THEN {0} \cup {PoolOf[o] : o \in Observations}
                                 ELSE {AllPools}

(* A run of type t starts and finds the observations that have t active.  *)
FetchObservations(r, t, p) ==
    /\ pc[r] = "idle"
    /\ \E o \in alive : InScope(o, p)
    /\ scope' = [scope EXCEPT ![r] = p]
    /\ type' = [type EXCEPT ![r] = t]
    /\ pc' = [pc EXCEPT ![r] = "gate"]
    /\ copy' = [copy EXCEPT ![r] = stored]
    /\ todo' = [todo EXCEPT ![r] = {o \in alive : InScope(o, p)}]
    /\ outbox' = [outbox EXCEPT ![r] = {}]
    /\ dirty' = [dirty EXCEPT ![r] = {}]
    /\ twins' = IF \E q \in Runs \ {r} : pc[q] # "idle" /\ type[q] = t
                THEN twins \cup {t} ELSE twins
    /\ UNCHANGED <<now, rows, told, early, forgotten, refused, mishaps>>

(* The stamp is less than a frequency ago.  Never passes: undefined makes  *)
(* deltaTime NaN, and NaN < frequency is false.  As mistakes: a stamp      *)
(* silences for good; the frequency is not looked at.                      *)
TooFrequentForever(stamp) == stamp # Never
TooFrequentIgnored(stamp) == FALSE
TooFrequent(stamp) == stamp # Never /\ now - stamp < Frequency

(* The stamp of a message.  As a mistake: when the next one is due.  *)
NewStampOfNext == now + Frequency
NewStamp == now

(* The run looks at the next observation: it is skipped if it was told too *)
(* recently or its value is below the threshold, and otherwise a message   *)
(* is aggregated and the copy stamped.                                     *)
Skip(r, o) ==
    /\ TooFrequent(copy[r][o][type[r]]) \/ o \notin Alarming
    /\ UNCHANGED <<copy, outbox, dirty>>

Aggregate(r, o) ==
    /\ ~TooFrequent(copy[r][o][type[r]])
    /\ outbox' = [outbox EXCEPT ![r] = @ \cup {o}]
    /\ dirty' = [dirty EXCEPT ![r] = @ \cup {o}]
    /\ copy' = [copy EXCEPT ![r][o][type[r]] = NewStamp]

Handle(r) ==
    /\ pc[r] = "gate"
    /\ \E o \in todo[r] :
         /\ todo' = [todo EXCEPT ![r] = @ \ {o}]
         /\ Skip(r, o) \/ Aggregate(r, o)
    /\ UNCHANGED <<now, rows, pc, type, scope, history, mishaps>>

(* NotificationAggregator puts a user's messages into one, which the       *)
(* channel takes or refuses; a refusal is only logged.                     *)
Deliveries(r) ==
    {taken \in SUBSET outbox[r] :
        \A o \in taken : \A p \in outbox[r] : UserOf[o] = UserOf[p] => p \in taken}

(* send() passes every message on and waits until each is taken or refused. *)
Send(r) ==
    LET t == type[r]
        stamp(o) == copy[r][o][t]
        Message(o) == <<o, t, stamp(o)>>
    IN
    /\ pc[r] = "gate"
    /\ todo[r] = {}
    /\ pc' = [pc EXCEPT ![r] = "flush"]
    /\ \E taken \in Deliveries(r) :
         /\ refused' = refused \cup {Message(o) : o \in outbox[r] \ taken}
         /\ mishaps' = IF taken = outbox[r] THEN mishaps ELSE mishaps + 1
         /\ mishaps' <= MaxMishaps
         /\ told' = [o \in Observations |->
                       IF o \in taken /\ stamp(o) > told[o][t]
                       THEN [told[o] EXCEPT ![t] = stamp(o)] ELSE told[o]]
         /\ early' = early \cup {p \in taken \X {t} :
                       /\ told[p[1]][t] # Never
                       /\ stamp(p[1]) - told[p[1]][t] < Frequency}
    /\ UNCHANGED <<now, rows, type, scope, copy, todo, outbox, dirty, forgotten,
                   twins>>

(* A flush writes each observation the run has changed, if its row is      *)
(* still there: the whole column.  It takes back what another run stored   *)
(* since this one read the row.                                            *)
WriteBack(r) ==
    /\ stored' = [o \in Observations |->
                    IF o \in dirty[r] \cap alive THEN copy[r][o] ELSE stored[o]]
    /\ forgotten' = forgotten \cup {p \in Observations \X Types :
                        stored'[p[1]][p[2]] < stored[p[1]][p[2]]}

(* The reminder looks up the issues of the next observation, with an issue *)
(* to remove: the look-up flushes.                                         *)
AutoFlush(r) ==
    /\ pc[r] = "gate"
    /\ type[r] \in Flushing
    /\ todo[r] # {}
    /\ dirty[r] # {}
    /\ WriteBack(r)
    /\ dirty' = [dirty EXCEPT ![r] = {}]
    /\ UNCHANGED <<now, alive, pc, type, scope, copy, todo, outbox, told, early,
                   twins, refused, mishaps>>

Idle(r) ==
    /\ pc' = [pc EXCEPT ![r] = "idle"]
    /\ type' = [type EXCEPT ![r] = NoType]
    /\ scope' = [scope EXCEPT ![r] = AllPools]
    /\ copy' = [copy EXCEPT ![r] = [o \in Observations |-> Fresh]]
    /\ todo' = [todo EXCEPT ![r] = {}]
    /\ outbox' = [outbox EXCEPT ![r] = {}]
    /\ dirty' = [dirty EXCEPT ![r] = {}]

(* The flush comes after the messages.  As a mistake: before them.  *)
ReadyToFlushUnsent(r) == pc[r] = "gate" /\ todo[r] = {}
ReadyToFlush(r) == pc[r] = "flush"

(* The flush that ends the run.  *)
Flush(r) ==
    /\ ReadyToFlush(r)
    /\ WriteBack(r)
    /\ Idle(r)
    /\ UNCHANGED <<now, alive, told, early, twins, refused, mishaps>>

(* An exception ends the run: a chain query, the database, the end of the  *)
(* process.  What it had sent but not stored is forgotten.                 *)
Fail(r) ==
    /\ pc[r] # "idle"
    /\ mishaps < MaxMishaps
    /\ mishaps' = mishaps + 1
    /\ forgotten' = IF pc[r] = "flush"
                    THEN forgotten \cup (dirty[r] \X {type[r]})
                    ELSE forgotten
    /\ Idle(r)
    /\ UNCHANGED <<now, rows, told, early, twins, refused>>

(* ObservationController.update: assign copies the deserialized            *)
(* observation, whose lastNotifications are new ones; whether they replace *)
(* the stored ones is up to AbstractModel.assign.                          *)
Update(o) ==
    /\ o \in alive
    /\ mishaps < MaxMishaps
    /\ mishaps' = mishaps + 1
    /\ stored' = [stored EXCEPT ![o] = Fresh]
    /\ forgotten' = forgotten \cup ({o} \X Types)
    /\ UNCHANGED <<now, alive, runState, told, early, twins, refused>>

(* ObservationController.delete.  *)
Delete(o) ==
    /\ o \in alive
    /\ alive' = alive \ {o}
    /\ UNCHANGED <<now, stored, runState, history, mishaps>>

GoOn(r) == Handle(r) \/ AutoFlush(r) \/ Send(r) \/ Flush(r)

Next ==
    \/ Tick
    \/ \E r \in Runs : \E t \in Types : \E p \in Scopes(t) : FetchObservations(r, t, p)
    \/ \E r \in Runs : GoOn(r) \/ Fail(r)
    \/ \E o \in Observations : Update(o) \/ Delete(o)

Spec == Init /\ [][Next]_vars

(* Time passes, cron starts the crawler of every type again and again, and *)
(* a run that is under way goes on.                                        *)
FairSpec ==
    /\ Spec
    /\ WF_vars(Tick)
    /\ \A r \in Runs : WF_vars(GoOn(r))
    /\ \A t \in Types \ EventTypes :
         SF_vars(\E r \in Runs : FetchObservations(r, t, AllPools))

-----------------------------------------------------------------------------
(* A stamp never silences a message that was not sent: whatever the        *)
(* database says was last notified, the user was told, at that time or     *)
(* later, or the channel refused that very message - in every interleaving *)
(* of runs that fail, overlap and overwrite each other's column.  The      *)
(* reminder, which may flush too early, is not so careful.                 *)
StampMeansTold ==
    \A o \in Observations : \A t \in Types \ Flushing :
        stored[o][t] <= told[o][t] \/ <<o, t, stored[o][t]>> \in refused

(* A user hears again before the frequency has passed only where a stamp   *)
(* was lost - overwritten by an overlapping run, never stored because the  *)
(* run failed after it had sent, or reset by an update - or where two runs *)
(* of one type overlapped.                                                 *)
EarlyHasCause == early \subseteq forgotten \cup (Observations \X twins)

(* "too frequent - skip" (AbstractPeriodicCrawler.ts:91,                   *)
(* AbstractEventCrawler.ts:118): no message comes before its time, if two  *)
(* runs of the same type do not overlap.                                   *)
NeverTooFrequent == early \subseteq Observations \X twins

(* A message says "#pool N worker(s) in unresponsive state"                *)
(* (MinerEnterUnresponsiveCrawler.ts:120), or how the pool's commission    *)
(* changed, with the pool of the observation it goes to: that must be the  *)
(* pool of the event.                                                      *)
MessageOfOwnPool ==
    \A r \in Runs : \A o \in outbox[r] : scope[r] \in {AllPools, PoolOf[o]}

(* While its value stays at the threshold an observation is told again and *)
(* again: a frequency after each message comes the next one, unless the    *)
(* channel refuses it.  A stamp flushed too early may silence it.          *)
KeepsTelling ==
    \A o \in Alarming : \A t \in Types \ (Flushing \cup EventTypes) : \A m \in Stamp :
        (told[o][t] = m /\ m + Frequency <= MaxTime)
            ~> \/ told[o][t] > m
               \/ o \notin alive
               \/ \E s \in Stamp : s > m /\ <<o, t, s>> \in refused
=============================================================================
