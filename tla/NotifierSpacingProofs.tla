------------------------- MODULE NotifierSpacingProofs -------------------------
(***************************************************************************)
(* A message that comes before its frequency has passed has a cause the    *)
(* notifier records: a stamp that was lost, or two runs of one type that   *)
(* overlapped.  The argument looks at the observations and types of which  *)
(* no stamp was lost and no runs overlapped: of these the database, or a   *)
(* run that is about to flush, knows of the last message; and a run that   *)
(* looks at one of them knows of it too.                                   *)
(***************************************************************************)
EXTENDS ObservationNotifierProofs

USE DEF NewStamp, ReadyToFlush

Regular(o, t) == <<o, t>> \notin forgotten /\ t \notin twins

(* Two runs of a type that are under way at once have been recorded.  *)
TwinsKnown ==
    \A q, r \in Runs : \A t \in Types :
        (/\ q # r
         /\ pc[q] # "idle" /\ type[q] = t
         /\ pc[r] # "idle" /\ type[r] = t) => t \in twins

OutboxCoversDirty == \A r \in Runs : dirty[r] \subseteq outbox[r]

(* Run r of type t has sent its messages, and is going to store the stamp  *)
(* of o.                                                                   *)
Storing(r, o, t) == pc[r] = "flush" /\ type[r] = t /\ o \in dirty[r]

StoredKnows(o, t) ==
    \/ o \notin alive
    \/ told[o][t] <= stored[o][t]
    \/ \E r \in Runs : Storing(r, o, t)

(* The last message of o is known to a run that has o to look at, and far  *)
(* enough from the one the run is going to send.                           *)
RunKnows(r, o, t) ==
    /\ (pc[r] = "gate" /\ type[r] = t /\ o \in todo[r]) => told[o][t] <= copy[r][o][t]
    /\ (pc[r] = "gate" /\ type[r] = t /\ o \in outbox[r]) =>
          /\ told[o][t] = Never \/ copy[r][o][t] - told[o][t] >= Frequency
          /\ told[o][t] <= copy[r][o][t]
          /\ \/ o \in dirty[r]
             \/ o \notin alive
             \/ copy[r][o][t] <= stored[o][t]
    /\ Storing(r, o, t) => told[o][t] <= copy[r][o][t]

LastMessageKnown ==
    \A o \in Observations : \A t \in Types : Regular(o, t) =>
        StoredKnows(o, t) /\ \A r \in Runs : RunKnows(r, o, t)

SpacingInv ==
    /\ TwinsKnown
    /\ OutboxCoversDirty
    /\ LastMessageKnown
    /\ EarlyHasCause

LEMMA InitSpacing == Init => SpacingInv
<1> SUFFICES ASSUME Init PROVE SpacingInv
  OBVIOUS
<1>1. TwinsKnown /\ OutboxCoversDirty /\ EarlyHasCause
  BY DEF Init, TwinsKnown, OutboxCoversDirty, EarlyHasCause
<1>2. LastMessageKnown
  BY DEF Init, LastMessageKnown, StoredKnows, RunKnows, Storing, Fresh, Never
<1> QED
  BY <1>1, <1>2 DEF SpacingInv

(* What is recorded stays recorded: only what is regular now can be next.  *)
LEMMA RecordsGrow ==
    ASSUME [Next]_vars
    PROVE  forgotten \subseteq forgotten' /\ twins \subseteq twins'
<1>1. ASSUME NEW r \in Runs, NEW t \in Types, NEW p \in Scopes(t), FetchObservations(r, t, p)
      PROVE  forgotten \subseteq forgotten' /\ twins \subseteq twins'
  BY <1>1 DEF FetchObservations
<1>2. ASSUME NEW r \in Runs, GoOn(r) \/ Fail(r)
      PROVE  forgotten \subseteq forgotten' /\ twins \subseteq twins'
  BY <1>2 DEF GoOn, Handle, Send, Flush, AutoFlush, WriteBack, Fail, history
<1>3. ASSUME NEW o \in Observations, Update(o) \/ Delete(o)
      PROVE  forgotten \subseteq forgotten' /\ twins \subseteq twins'
  BY <1>3 DEF Update, Delete, history
<1> QED
  BY <1>1, <1>2, <1>3 DEF Next, Tick, vars, history

LEMMA StepTwinsKnown == IInv /\ TwinsKnown /\ [Next]_vars => TwinsKnown'
<1> SUFFICES ASSUME IInv, TwinsKnown, [Next]_vars,
                    NEW q \in Runs, NEW r \in Runs, NEW t \in Types,
                    q # r,
                    pc'[q] # "idle", type'[q] = t,
                    pc'[r] # "idle", type'[r] = t
             PROVE  t \in twins'
  BY DEF TwinsKnown
<1>a. TypeOK /\ twins \subseteq twins'
  BY RecordsGrow DEF IInv
<1>1. ASSUME NEW s \in Runs, NEW u \in Types, NEW p \in Scopes(u), FetchObservations(s, u, p)
      PROVE  t \in twins'
  <2>1. /\ pc' = [pc EXCEPT ![s] = "gate"] /\ type' = [type EXCEPT ![s] = u]
        /\ (\E x \in Runs \ {s} : pc[x] # "idle" /\ type[x] = u) => u \in twins'
    BY <1>1 DEF FetchObservations
  <2>2. CASE q = s \/ r = s
    BY <1>a, <2>1, <2>2 DEF TypeOK
  <2>3. CASE q # s /\ r # s
    BY <1>a, <2>1, <2>3 DEF TypeOK, TwinsKnown
  <2> QED
    BY <2>2, <2>3
<1>2. ASSUME NEW s \in Runs, Idle(s) \/ (pc' = [pc EXCEPT ![s] = "flush"] /\ pc[s] = "gate" /\ type' = type)
      PROVE  t \in twins'
  <2>1. pc[q] # "idle" /\ type[q] = t
    BY <1>2, <1>a DEF Idle, TypeOK
  <2>2. pc[r] # "idle" /\ type[r] = t
    BY <1>2, <1>a DEF Idle, TypeOK
  <2> QED
    BY <1>a, <2>1, <2>2 DEF TwinsKnown
<1>3. ASSUME pc' = pc /\ type' = type PROVE t \in twins'
  BY <1>3, <1>a DEF TwinsKnown
<1>4. ASSUME NEW s \in Runs, GoOn(s) \/ Fail(s) PROVE t \in twins'
  BY <1>2, <1>3, <1>4 DEF GoOn, Handle, AutoFlush, Send, Flush, Fail
<1>5. ASSUME \/ Tick \/ UNCHANGED vars
             \/ \E o \in Observations : Update(o) \/ Delete(o)
      PROVE  t \in twins'
  BY <1>3, <1>5 DEF Tick, Update, Delete, runState, vars
<1> QED
  BY <1>1, <1>4, <1>5 DEF Next

LEMMA StepOutboxCoversDirty ==
    IInv /\ OutboxCoversDirty /\ [Next]_vars => OutboxCoversDirty'
<1> SUFFICES ASSUME IInv, OutboxCoversDirty, [Next]_vars, NEW q \in Runs
             PROVE  dirty'[q] \subseteq outbox'[q]
  BY DEF OutboxCoversDirty
<1>a. TypeOK /\ dirty[q] \subseteq outbox[q]
  BY DEF IInv, OutboxCoversDirty
<1>1. ASSUME NEW s \in Runs, NEW u \in Types, NEW p \in Scopes(u), FetchObservations(s, u, p)
      PROVE  dirty'[q] \subseteq outbox'[q]
  BY <1>1, <1>a DEF FetchObservations, TypeOK
<1>2. ASSUME NEW s \in Runs, Handle(s) PROVE dirty'[q] \subseteq outbox'[q]
  <2>1. PICK o \in todo[s] : Skip(s, o) \/ Aggregate(s, o)
    BY <1>2 DEF Handle
  <2>2. \/ outbox' = outbox /\ dirty' = dirty
        \/ /\ outbox' = [outbox EXCEPT ![s] = outbox[s] \cup {o}]
           /\ dirty' = [dirty EXCEPT ![s] = dirty[s] \cup {o}]
    BY <2>1 DEF Skip, Aggregate
  <2>3. outbox \in [Runs -> SUBSET Observations] /\ dirty \in [Runs -> SUBSET Observations]
    BY <1>a DEF TypeOK
  <2> QED
    BY <1>a, <2>2, <2>3
<1>3. ASSUME NEW s \in Runs, Idle(s) PROVE dirty'[q] \subseteq outbox'[q]
  BY <1>3, <1>a DEF Idle, TypeOK
<1>4. ASSUME NEW s \in Runs, AutoFlush(s) PROVE dirty'[q] \subseteq outbox'[q]
  BY <1>4, <1>a DEF AutoFlush, TypeOK
<1>5. ASSUME outbox' = outbox /\ dirty' = dirty PROVE dirty'[q] \subseteq outbox'[q]
  BY <1>5, <1>a
<1>6. ASSUME NEW s \in Runs, Send(s) \/ Flush(s) \/ Fail(s)
      PROVE  dirty'[q] \subseteq outbox'[q]
  BY <1>3, <1>5, <1>6 DEF Send, Flush, Fail
<1>7. ASSUME \/ Tick \/ UNCHANGED vars
             \/ \E o \in Observations : Update(o) \/ Delete(o)
      PROVE  dirty'[q] \subseteq outbox'[q]
  BY <1>5, <1>7 DEF Tick, Update, Delete, runState, vars
<1> QED
  BY <1>1, <1>2, <1>4, <1>6, <1>7 DEF Next, GoOn

LEMMA FetchKeepsKnown ==
    ASSUME IInv, TwinsKnown, LastMessageKnown,
           NEW s \in Runs, NEW u \in Types, NEW p \in Scopes(u),
           FetchObservations(s, u, p)
    PROVE  LastMessageKnown'
<1> SUFFICES ASSUME NEW o \in Observations, NEW t \in Types, Regular(o, t)'
             PROVE  StoredKnows(o, t)' /\ \A r \in Runs : RunKnows(r, o, t)'
  BY DEF LastMessageKnown
<1>a. TypeOK
  BY DEF IInv
<1>b. /\ StoredKnows(o, t)
      /\ \A r \in Runs : RunKnows(r, o, t)
  <2>1. Regular(o, t)
    BY DEF FetchObservations, Regular
  <2> QED
    BY <2>1 DEF LastMessageKnown
<1>c. /\ alive' = alive /\ stored' = stored /\ told' = told
      /\ pc[s] = "idle" /\ pc'[s] = "gate" /\ type'[s] = u
      /\ todo'[s] \subseteq alive /\ outbox'[s] = {}
      /\ copy'[s] = stored
      /\ \A r \in Runs \ {s} :
            /\ pc'[r] = pc[r] /\ type'[r] = type[r] /\ copy'[r] = copy[r]
            /\ todo'[r] = todo[r] /\ outbox'[r] = outbox[r] /\ dirty'[r] = dirty[r]
  BY <1>a DEF FetchObservations, TypeOK, rows
<1>1. \A r \in Runs : Storing(r, o, t) => r # s /\ Storing(r, o, t)'
  BY <1>c DEF Storing
<1>2. StoredKnows(o, t)'
  BY <1>b, <1>c, <1>1 DEF StoredKnows
<1>3. ASSUME NEW r \in Runs \ {s} PROVE RunKnows(r, o, t)'
  BY <1>b, <1>c DEF RunKnows, Storing
<1>4. RunKnows(s, o, t)'
  <2>1. CASE u = t
    <3>1. \A r \in Runs : ~Storing(r, o, t)
      BY <1>c, <2>1 DEF Storing, FetchObservations, Regular
    <3>2. o \in alive => told[o][t] <= stored[o][t]
      BY <1>b, <3>1 DEF StoredKnows
    <3> QED
      BY <1>c, <3>2 DEF RunKnows, Storing
  <2>2. CASE u # t
    BY <1>c, <2>2 DEF RunKnows, Storing
  <2> QED
    BY <2>1, <2>2
<1> QED
  BY <1>2, <1>3, <1>4

LEMMA HandleKeepsKnown ==
    ASSUME IInv, LastMessageKnown, NEW s \in Runs, Handle(s)
    PROVE  LastMessageKnown'
<1> SUFFICES ASSUME NEW o \in Observations, NEW t \in Types, Regular(o, t)'
             PROVE  StoredKnows(o, t)' /\ \A r \in Runs : RunKnows(r, o, t)'
  BY DEF LastMessageKnown
<1>a. TypeOK
  BY DEF IInv
<1>b. /\ StoredKnows(o, t)
      /\ \A r \in Runs : RunKnows(r, o, t)
  <2>1. Regular(o, t)
    BY DEF Handle, Regular, history
  <2> QED
    BY <2>1 DEF LastMessageKnown
<1>c. /\ alive' = alive /\ stored' = stored /\ told' = told
      /\ pc' = pc /\ type' = type /\ now' = now /\ pc[s] = "gate"
  BY DEF Handle, rows, history
<1>d. PICK e \in todo[s] : /\ todo' = [todo EXCEPT ![s] = todo[s] \ {e}]
                           /\ Skip(s, e) \/ Aggregate(s, e)
  BY DEF Handle
<1>e. \A r \in Runs \ {s} : /\ todo'[r] = todo[r] /\ outbox'[r] = outbox[r]
                            /\ dirty'[r] = dirty[r] /\ copy'[r] = copy[r]
  <2>1. todo \in [Runs -> SUBSET Observations]
    BY <1>a DEF TypeOK
  <2>2. \A r \in Runs \ {s} : todo'[r] = todo[r]
    BY <1>d, <2>1
  <2>3. CASE Skip(s, e)
    BY <2>2, <2>3 DEF Skip
  <2>4. CASE Aggregate(s, e)
    BY <1>a, <2>2, <2>4 DEF Aggregate, TypeOK
  <2> QED
    BY <1>d, <2>3, <2>4
<1>1. StoredKnows(o, t)'
  BY <1>b, <1>c, <1>e DEF StoredKnows, Storing
<1>2. ASSUME NEW r \in Runs \ {s} PROVE RunKnows(r, o, t)'
  BY <1>b, <1>c, <1>e DEF RunKnows, Storing
<1>3. RunKnows(s, o, t)'
  <2>0. todo'[s] = todo[s] \ {e} /\ RunKnows(s, o, t)
    BY <1>a, <1>b, <1>d DEF TypeOK
  <2>1. CASE Skip(s, e)
    BY <1>c, <2>0, <2>1 DEF Skip, RunKnows, Storing
  <2>2. CASE Aggregate(s, e)
    <3>0. type[s] \in Types /\ e \in Observations
      BY <1>a, <1>c DEF IInv, TypeKnown, TypeOK
    <3>1. /\ outbox'[s] = outbox[s] \cup {e} /\ dirty'[s] = dirty[s] \cup {e}
          /\ \A x \in Observations : x # e => copy'[s][x] = copy[s][x]
          /\ copy'[s][e][type[s]] = now
          /\ \A u \in Types : u # type[s] => copy'[s][e][u] = copy[s][e][u]
          /\ ~TooFrequent(copy[s][e][type[s]])
      <4>1. /\ outbox \in [Runs -> SUBSET Observations]
            /\ dirty \in [Runs -> SUBSET Observations]
            /\ copy \in [Runs -> [Observations -> [Types -> Stamp]]]
        BY <1>a DEF TypeOK
      <4>2. /\ outbox' = [outbox EXCEPT ![s] = outbox[s] \cup {e}]
            /\ dirty' = [dirty EXCEPT ![s] = dirty[s] \cup {e}]
            /\ copy' = [copy EXCEPT ![s] = [copy[s] EXCEPT
                           ![e] = [copy[s][e] EXCEPT ![type[s]] = now]]]
            /\ ~TooFrequent(copy[s][e][type[s]])
        BY <2>2 DEF Aggregate
      <4>3. /\ outbox'[s] = outbox[s] \cup {e} /\ dirty'[s] = dirty[s] \cup {e}
            /\ copy'[s] = [copy[s] EXCEPT
                             ![e] = [copy[s][e] EXCEPT ![type[s]] = now]]
        BY <4>1, <4>2
      <4>4. copy[s] \in [Observations -> [Types -> Stamp]]
        BY <4>1
      <4> QED
        BY <3>0, <4>2, <4>3, <4>4
    <3>2. CASE o # e \/ type[s] # t
      BY <1>c, <2>0, <3>1, <3>2 DEF RunKnows, Storing
    <3>3. CASE o = e /\ type[s] = t
      <4>1. told[o][t] <= copy[s][o][t]
        BY <1>c, <1>d, <2>0, <3>3 DEF RunKnows
      <4>2. /\ told[o][t] \in 0..MaxTime /\ copy[s][o][t] \in 0..MaxTime
            /\ now \in 1..MaxTime /\ MaxTime \in Nat /\ Frequency \in Nat
        BY <1>a, NotifierAssumption DEF TypeOK, Stamp
      <4>3. copy[s][o][t] = 0 \/ now - copy[s][o][t] >= Frequency
        BY <3>1, <3>3, <4>2 DEF TooFrequent, Never
      <4>4. /\ told[o][t] = 0 \/ now - told[o][t] >= Frequency
            /\ told[o][t] <= now
        BY <4>1, <4>2, <4>3
      <4> QED
        BY <1>c, <3>1, <3>3, <4>4 DEF RunKnows, Storing, Never
    <3> QED
      BY <3>2, <3>3
  <2> QED
    BY <1>d, <2>1, <2>2
<1> QED
  BY <1>1, <1>2, <1>3

(* After a run has sent, the database or the run's next flush knows.  *)
LEMMA SendKeepsKnown ==
    ASSUME IInv, TwinsKnown, OutboxCoversDirty, LastMessageKnown,
           NEW s \in Runs, Send(s)
    PROVE  LastMessageKnown'
<1> SUFFICES ASSUME NEW o \in Observations, NEW t \in Types, Regular(o, t)'
             PROVE  StoredKnows(o, t)' /\ \A r \in Runs : RunKnows(r, o, t)'
  BY DEF LastMessageKnown
<1>a. TypeOK
  BY DEF IInv
<1>b. /\ StoredKnows(o, t)
      /\ \A r \in Runs : RunKnows(r, o, t)
      /\ t \notin twins
  <2>1. Regular(o, t)
    BY DEF Send, Regular
  <2> QED
    BY <2>1 DEF LastMessageKnown, Regular
<1>c. /\ alive' = alive /\ stored' = stored /\ type' = type /\ copy' = copy
      /\ todo' = todo /\ outbox' = outbox /\ dirty' = dirty
      /\ pc[s] = "gate" /\ pc'[s] = "flush"
      /\ \A r \in Runs \ {s} : pc'[r] = pc[r]
  BY <1>a DEF Send, rows, TypeOK
<1>d. PICK taken \in SUBSET outbox[s] : Sent(s, taken)
  BY SendIsSent
<1>e. type[s] \in Types /\ outbox[s] \subseteq Observations
  BY <1>a, <1>c DEF IInv, TypeKnown, TypeOK
<1>f. /\ told[o][t] \in Int /\ stored[o][t] \in Int /\ Frequency \in Int
      /\ \A r \in Runs : copy[r][o][t] \in Int
  BY <1>a, NotifierAssumption DEF TypeOK, Stamp
<1>1. CASE type[s] # t \/ o \notin taken
  <2>1. told'[o][t] = told[o][t]
    BY <1>a, <1>d, <1>e, <1>1 DEF Sent, TypeOK
  <2>2. StoredKnows(o, t)'
    BY <1>b, <1>c, <2>1 DEF StoredKnows, Storing
  <2>3. ASSUME NEW r \in Runs \ {s} PROVE RunKnows(r, o, t)'
    BY <1>b, <1>c, <2>1 DEF RunKnows, Storing
  <2>4. RunKnows(s, o, t)'
    <3>1. RunKnows(s, o, t) /\ dirty[s] \subseteq outbox[s]
      BY <1>b DEF OutboxCoversDirty
    <3> QED
      BY <1>c, <2>1, <3>1 DEF RunKnows, Storing
  <2> QED
    BY <2>2, <2>3, <2>4
<1>2. CASE type[s] = t /\ o \in taken
  <2>1. /\ told[o][t] <= copy[s][o][t]
        /\ o \in dirty[s] \/ o \notin alive \/ copy[s][o][t] <= stored[o][t]
    BY <1>b, <1>c, <1>2 DEF RunKnows
  <2>2. told'[o][t] = copy[s][o][t]
    <3>1. told'[o] = IF copy[s][o][t] > told[o][t]
                     THEN [told[o] EXCEPT ![t] = copy[s][o][t]] ELSE told[o]
      BY <1>d, <1>2 DEF Sent
    <3>2. told[o] \in [Types -> Stamp]
      BY <1>a DEF TypeOK
    <3> QED
      BY <1>f, <2>1, <3>1, <3>2
  <2>3. StoredKnows(o, t)'
    <3>1. o \in dirty[s] => Storing(s, o, t)'
      BY <1>c, <1>2 DEF Storing
    <3> QED
      BY <1>c, <2>1, <2>2, <3>1 DEF StoredKnows
  <2>4. ASSUME NEW r \in Runs \ {s} PROVE RunKnows(r, o, t)'
    <3>1. pc[r] = "idle" \/ type[r] # t
      BY <1>b, <1>c, <1>2 DEF TwinsKnown
    <3> QED
      BY <1>c, <3>1 DEF RunKnows, Storing
  <2>5. RunKnows(s, o, t)'
    <3>1. told'[o][t] <= copy'[s][o][t]
      BY <1>c, <1>f, <2>2
    <3> QED
      BY <1>c, <3>1 DEF RunKnows, Storing
  <2> QED
    BY <2>3, <2>4, <2>5
<1> QED
  BY <1>1, <1>2

(* A flush that loses no stamp of o leaves the database with what it knew  *)
(* or with what the run that flushes knows.                                *)
LEMMA WriteBackKeepsKnown ==
    ASSUME IInv, LastMessageKnown, NEW s \in Runs, WriteBack(s),
           alive' = alive, told' = told,
           NEW o \in Observations, NEW t \in Types,
           Regular(o, t), <<o, t>> \notin forgotten'
    PROVE  /\ stored[o][t] <= stored'[o][t]
           /\ o \in dirty[s] \cap alive => stored'[o][t] = copy[s][o][t]
           /\ Storing(s, o, t) /\ o \in alive => told'[o][t] <= stored'[o][t]
<1>a. TypeOK
  BY DEF IInv
<1>1. stored'[o] = IF o \in dirty[s] \cap alive THEN copy[s][o] ELSE stored[o]
  BY DEF WriteBack
<1>2. ~(stored'[o][t] < stored[o][t])
  <2>1. <<o, t>> \in Observations \X Types
    OBVIOUS
  <2> QED
    BY <2>1 DEF WriteBack
<1>3. stored[o][t] \in Int /\ copy[s][o][t] \in Int
  BY <1>a DEF TypeOK, Stamp
<1>4. Storing(s, o, t) => told[o][t] <= copy[s][o][t]
  BY DEF LastMessageKnown, RunKnows
<1> QED
  BY <1>1, <1>2, <1>3, <1>4 DEF Storing

LEMMA FlushKeepsKnown ==
    ASSUME IInv, LastMessageKnown, NEW s \in Runs, Flush(s)
    PROVE  LastMessageKnown'
<1> SUFFICES ASSUME NEW o \in Observations, NEW t \in Types, Regular(o, t)'
             PROVE  StoredKnows(o, t)' /\ \A r \in Runs : RunKnows(r, o, t)'
  BY DEF LastMessageKnown
<1>a. TypeOK
  BY DEF IInv
<1>b. Regular(o, t) /\ <<o, t>> \notin forgotten'
  BY DEF Flush, WriteBack, Regular
<1>c. StoredKnows(o, t) /\ \A r \in Runs : RunKnows(r, o, t)
  BY <1>b DEF LastMessageKnown
<1>d. /\ alive' = alive /\ told' = told /\ pc'[s] = "idle"
      /\ \A r \in Runs \ {s} :
            /\ pc'[r] = pc[r] /\ type'[r] = type[r] /\ copy'[r] = copy[r]
            /\ todo'[r] = todo[r] /\ outbox'[r] = outbox[r] /\ dirty'[r] = dirty[r]
  BY <1>a DEF Flush, Idle, TypeOK
<1>e. /\ stored[o][t] <= stored'[o][t]
      /\ Storing(s, o, t) /\ o \in alive => told'[o][t] <= stored'[o][t]
  BY <1>b, <1>d, WriteBackKeepsKnown DEF Flush
<1>f. /\ told[o][t] \in Int /\ stored[o][t] \in Int /\ stored'[o][t] \in Int
      /\ \A r \in Runs : copy[r][o][t] \in Int
  <2>1. stored' \in [Observations -> [Types -> Stamp]]
    BY <1>a, WriteBackKeepsTypes DEF Flush
  <2> QED
    BY <1>a, <2>1 DEF TypeOK, Stamp
<1>1. StoredKnows(o, t)'
  <2>1. CASE \E r \in Runs \ {s} : Storing(r, o, t)
    BY <1>d, <2>1 DEF StoredKnows, Storing
  <2>2. CASE told[o][t] <= stored[o][t]
    BY <1>d, <1>e, <1>f, <2>2 DEF StoredKnows
  <2>3. CASE o \notin alive
    BY <1>d, <2>3 DEF StoredKnows
  <2>4. CASE Storing(s, o, t) /\ o \in alive
    BY <1>d, <1>e, <2>4 DEF StoredKnows
  <2> QED
    BY <1>c, <2>1, <2>2, <2>3, <2>4 DEF StoredKnows
<1>2. ASSUME NEW r \in Runs \ {s} PROVE RunKnows(r, o, t)'
  <2>1. copy[r][o][t] <= stored[o][t] => copy[r][o][t] <= stored'[o][t]
    BY <1>e, <1>f
  <2> QED
    BY <1>c, <1>d, <2>1 DEF RunKnows, Storing
<1>3. RunKnows(s, o, t)'
  BY <1>d DEF RunKnows, Storing
<1> QED
  BY <1>1, <1>2, <1>3

LEMMA AutoFlushKeepsKnown ==
    ASSUME IInv, LastMessageKnown, NEW s \in Runs, AutoFlush(s)
    PROVE  LastMessageKnown'
<1> SUFFICES ASSUME NEW o \in Observations, NEW t \in Types, Regular(o, t)'
             PROVE  StoredKnows(o, t)' /\ \A r \in Runs : RunKnows(r, o, t)'
  BY DEF LastMessageKnown
<1>a. TypeOK
  BY DEF IInv
<1>b. Regular(o, t) /\ <<o, t>> \notin forgotten'
  BY DEF AutoFlush, WriteBack, Regular
<1>c. StoredKnows(o, t) /\ \A r \in Runs : RunKnows(r, o, t)
  BY <1>b DEF LastMessageKnown
<1>d. /\ alive' = alive /\ told' = told /\ pc' = pc /\ type' = type
      /\ copy' = copy /\ todo' = todo /\ outbox' = outbox /\ pc[s] = "gate"
      /\ \A r \in Runs \ {s} : dirty'[r] = dirty[r]
  BY <1>a DEF AutoFlush, TypeOK
<1>e. /\ stored[o][t] <= stored'[o][t]
      /\ o \in dirty[s] \cap alive => stored'[o][t] = copy[s][o][t]
  BY <1>b, <1>d, WriteBackKeepsKnown DEF AutoFlush
<1>f. /\ told[o][t] \in Int /\ stored[o][t] \in Int /\ stored'[o][t] \in Int
      /\ \A r \in Runs : copy[r][o][t] \in Int
  <2>1. stored' \in [Observations -> [Types -> Stamp]]
    BY <1>a, WriteBackKeepsTypes DEF AutoFlush
  <2> QED
    BY <1>a, <2>1 DEF TypeOK, Stamp
<1>1. StoredKnows(o, t)'
  <2>1. CASE \E r \in Runs : Storing(r, o, t)
    BY <1>d, <2>1 DEF StoredKnows, Storing
  <2>2. CASE told[o][t] <= stored[o][t]
    BY <1>d, <1>e, <1>f, <2>2 DEF StoredKnows
  <2>3. CASE o \notin alive
    BY <1>d, <2>3 DEF StoredKnows
  <2> QED
    BY <1>c, <2>1, <2>2, <2>3 DEF StoredKnows
<1>2. ASSUME NEW r \in Runs PROVE RunKnows(r, o, t)'
  <2>1. copy[r][o][t] <= stored[o][t] => copy[r][o][t] <= stored'[o][t]
    BY <1>e, <1>f
  <2>2. CASE r # s
    BY <1>c, <1>d, <2>1, <2>2 DEF RunKnows, Storing
  <2>3. CASE r = s
    <3>1. o \in dirty[s] => o \notin alive \/ copy[s][o][t] <= stored'[o][t]
      BY <1>e, <1>f
    <3>2. RunKnows(s, o, t)
      BY <1>c
    <3> QED
      BY <1>d, <2>1, <2>3, <3>1, <3>2 DEF RunKnows, Storing
  <2> QED
    BY <2>2, <2>3
<1> QED
  BY <1>1, <1>2

(* A run that fails after it has sent has its stamps recorded as lost.  *)
LEMMA FailKeepsKnown ==
    ASSUME IInv, LastMessageKnown, NEW s \in Runs, Fail(s)
    PROVE  LastMessageKnown'
<1> SUFFICES ASSUME NEW o \in Observations, NEW t \in Types, Regular(o, t)'
             PROVE  StoredKnows(o, t)' /\ \A r \in Runs : RunKnows(r, o, t)'
  BY DEF LastMessageKnown
<1>a. TypeOK
  BY DEF IInv
<1>b. Regular(o, t) /\ ~Storing(s, o, t)
  BY DEF Fail, Regular, Storing
<1>c. StoredKnows(o, t) /\ \A r \in Runs : RunKnows(r, o, t)
  BY <1>b DEF LastMessageKnown
<1>d. /\ alive' = alive /\ told' = told /\ stored' = stored /\ pc'[s] = "idle"
      /\ \A r \in Runs \ {s} :
            /\ pc'[r] = pc[r] /\ type'[r] = type[r] /\ copy'[r] = copy[r]
            /\ todo'[r] = todo[r] /\ outbox'[r] = outbox[r] /\ dirty'[r] = dirty[r]
  BY <1>a DEF Fail, Idle, TypeOK, rows
<1>1. StoredKnows(o, t)'
  BY <1>b, <1>c, <1>d DEF StoredKnows, Storing
<1>2. ASSUME NEW r \in Runs \ {s} PROVE RunKnows(r, o, t)'
  BY <1>c, <1>d DEF RunKnows, Storing
<1>3. RunKnows(s, o, t)'
  BY <1>d DEF RunKnows, Storing
<1> QED
  BY <1>1, <1>2, <1>3

LEMMA ApiKeepsKnown ==
    ASSUME IInv, LastMessageKnown, NEW e \in Observations, Update(e) \/ Delete(e)
    PROVE  LastMessageKnown'
<1> SUFFICES ASSUME NEW o \in Observations, NEW t \in Types, Regular(o, t)'
             PROVE  StoredKnows(o, t)' /\ \A r \in Runs : RunKnows(r, o, t)'
  BY DEF LastMessageKnown
<1>a. /\ alive' \subseteq alive /\ told' = told /\ stored'[o] = stored[o]
      /\ pc' = pc /\ type' = type /\ copy' = copy
      /\ todo' = todo /\ outbox' = outbox /\ dirty' = dirty
      /\ Regular(o, t)
  <2>1. CASE Update(e)
    <3>1. o # e
      BY <2>1 DEF Update, Regular
    <3> QED
      BY <2>1, <3>1 DEF Update, Regular, runState, IInv, TypeOK
  <2>2. CASE Delete(e)
    BY <2>2 DEF Delete, Regular, runState, history
  <2> QED
    BY <2>1, <2>2
<1>b. StoredKnows(o, t) /\ \A r \in Runs : RunKnows(r, o, t)
  BY <1>a DEF LastMessageKnown
<1>1. StoredKnows(o, t)'
  BY <1>a, <1>b DEF StoredKnows, Storing
<1>2. ASSUME NEW r \in Runs PROVE RunKnows(r, o, t)'
  BY <1>a, <1>b DEF RunKnows, Storing
<1> QED
  BY <1>1, <1>2

LEMMA StepLastMessageKnown ==
    IInv /\ SpacingInv /\ [Next]_vars => LastMessageKnown'
<1> SUFFICES ASSUME IInv, SpacingInv, [Next]_vars PROVE LastMessageKnown'
  OBVIOUS
<1>a. TwinsKnown /\ OutboxCoversDirty /\ LastMessageKnown
  BY DEF SpacingInv
<1>1. ASSUME NEW r \in Runs, NEW t \in Types, NEW p \in Scopes(t), FetchObservations(r, t, p)
      PROVE  LastMessageKnown'
  BY <1>a, <1>1, FetchKeepsKnown
<1>2. ASSUME NEW r \in Runs, GoOn(r) PROVE LastMessageKnown'
  BY <1>a, <1>2, HandleKeepsKnown, SendKeepsKnown, FlushKeepsKnown,
     AutoFlushKeepsKnown DEF GoOn
<1>3. ASSUME NEW r \in Runs, Fail(r) PROVE LastMessageKnown'
  BY <1>a, <1>3, FailKeepsKnown
<1>4. ASSUME NEW o \in Observations, Update(o) \/ Delete(o) PROVE LastMessageKnown'
  BY <1>a, <1>4, ApiKeepsKnown
<1>5. ASSUME Tick \/ UNCHANGED vars PROVE LastMessageKnown'
  BY <1>a, <1>5 DEF Tick, vars, rows, runState, history,
     LastMessageKnown, Regular, StoredKnows, RunKnows, Storing
<1> QED
  BY <1>1, <1>2, <1>3, <1>4, <1>5 DEF Next

(* A message is early only if what its run knew was not regular.  *)
LEMMA StepEarlyHasCause == IInv /\ SpacingInv /\ [Next]_vars => EarlyHasCause'
<1> SUFFICES ASSUME IInv, SpacingInv, [Next]_vars PROVE EarlyHasCause'
  OBVIOUS
<1>a. TypeOK /\ LastMessageKnown /\ EarlyHasCause
  BY DEF IInv, SpacingInv
<1>b. forgotten \subseteq forgotten' /\ twins \subseteq twins'
  BY RecordsGrow
<1>1. ASSUME early' = early PROVE EarlyHasCause'
  BY <1>a, <1>b, <1>1 DEF EarlyHasCause
<1>2. ASSUME NEW s \in Runs, Send(s) PROVE EarlyHasCause'
  <2>1. /\ type[s] \in Types /\ pc[s] = "gate" /\ outbox[s] \subseteq Observations
    BY <1>a, <1>2 DEF Send, IInv, TypeKnown, TypeOK
  <2>2. PICK taken \in SUBSET outbox[s] :
            early' = early \cup {p \in taken \X {type[s]} :
                /\ told[p[1]][type[s]] # Never
                /\ copy[s][p[1]][type[s]] - told[p[1]][type[s]] < Frequency}
    BY <1>2 DEF Send, Deliveries
  <2>3. ASSUME NEW o \in taken,
               told[o][type[s]] # Never,
               copy[s][o][type[s]] - told[o][type[s]] < Frequency
        PROVE  <<o, type[s]>> \in forgotten \/ type[s] \in twins
    <3>1. o \in Observations /\ o \in outbox[s]
      BY <2>1
    <3>2. SUFFICES ASSUME Regular(o, type[s]) PROVE FALSE
      BY DEF Regular
    <3>3. copy[s][o][type[s]] - told[o][type[s]] >= Frequency
      BY <1>a, <2>1, <2>3, <3>1, <3>2 DEF LastMessageKnown, RunKnows
    <3>4. /\ copy[s][o][type[s]] \in Int /\ told[o][type[s]] \in Int
          /\ Frequency \in Int
      BY <1>a, <2>1, <3>1, NotifierAssumption DEF TypeOK, Stamp
    <3> QED
      BY <2>3, <3>3, <3>4
  <2> QED
    BY <1>a, <1>b, <2>1, <2>2, <2>3 DEF EarlyHasCause
<1>3. ASSUME NEW r \in Runs, GoOn(r) \/ Fail(r) PROVE EarlyHasCause'
  BY <1>1, <1>2, <1>3 DEF GoOn, Handle, AutoFlush, Flush, Fail, history
<1>4. ASSUME \/ Tick \/ UNCHANGED vars
             \/ \E o \in Observations : Update(o) \/ Delete(o)
             \/ \E r \in Runs : \E t \in Types : \E p \in Scopes(t) :
                    FetchObservations(r, t, p)
      PROVE  EarlyHasCause'
  BY <1>1, <1>4 DEF Tick, Update, Delete, FetchObservations, history, vars
<1> QED
  BY <1>3, <1>4 DEF Next

(* However runs overlap, fail and overwrite each other's column, and       *)
(* whatever the API changes: a message comes before the frequency has      *)
(* passed only where a stamp was lost, or two runs of one type overlapped. *)
THEOREM EarlyHasCauseAlways == Spec => []EarlyHasCause
<1>1. IInv /\ SpacingInv /\ [Next]_vars => SpacingInv'
  BY StepTwinsKnown, StepOutboxCoversDirty, StepLastMessageKnown,
     StepEarlyHasCause DEF SpacingInv
<1>2. SpacingInv => EarlyHasCause
  BY DEF SpacingInv
<1> QED
  BY Invariance, InitSpacing, <1>1, <1>2, PTL DEF Spec

-----------------------------------------------------------------------------
(* A single run has, as long as nothing fails and nobody updates, what the *)
(* database has or more, and no stamp is of the future: what it flushes    *)
(* takes no stamp back.                                                    *)
OneRun == \A q, r \in Runs : q = r

CopiesAhead ==
    mishaps = 0 =>
        /\ forgotten = {}
        /\ \A o \in Observations : \A t \in Types : stored[o][t] <= now
        /\ \A r \in Runs : pc[r] # "idle" =>
              \A o \in Observations : \A t \in Types :
                 stored[o][t] <= copy[r][o][t] /\ copy[r][o][t] <= now

LEMMA InitCopiesAhead == Init => CopiesAhead
  BY DEF Init, CopiesAhead, Fresh, Never

LEMMA WriteBackAhead ==
    ASSUME IInv, CopiesAhead, mishaps = 0, NEW s \in Runs, pc[s] # "idle", WriteBack(s)
    PROVE  /\ forgotten' = {}
           /\ \A o \in Observations : \A t \in Types :
                 stored'[o][t] <= now /\ stored'[o][t] <= copy[s][o][t]
<1>1. /\ stored \in [Observations -> [Types -> Stamp]]
      /\ copy[s] \in [Observations -> [Types -> Stamp]] /\ now \in 1..MaxTime
  BY DEF IInv, TypeOK
<1>2. ASSUME NEW o \in Observations, NEW t \in Types
      PROVE  /\ stored[o][t] <= stored'[o][t]
             /\ stored'[o][t] <= now /\ stored'[o][t] <= copy[s][o][t]
             /\ stored[o][t] \in Int /\ stored'[o][t] \in Int
  <2>1. /\ stored[o][t] \in Int /\ copy[s][o][t] \in Int
        /\ stored[o][t] <= now /\ stored[o][t] <= copy[s][o][t] /\ copy[s][o][t] <= now
    BY <1>1 DEF CopiesAhead, Stamp
  <2>2. stored'[o] = copy[s][o] \/ stored'[o] = stored[o]
    BY DEF WriteBack
  <2> QED
    BY <2>1, <2>2
<1>3. ASSUME NEW p \in Observations \X Types PROVE ~(stored'[p[1]][p[2]] < stored[p[1]][p[2]])
  BY <1>2
<1> QED
  BY <1>2, <1>3 DEF WriteBack, CopiesAhead

LEMMA StepCopiesAhead ==
    ASSUME OneRun, IInv, CopiesAhead, [Next]_vars
    PROVE  CopiesAhead'
<1> SUFFICES ASSUME mishaps' = 0
             PROVE  /\ forgotten' = {}
                    /\ \A o \in Observations : \A t \in Types : stored'[o][t] <= now'
                    /\ \A r \in Runs : pc'[r] # "idle" =>
                          \A o \in Observations : \A t \in Types :
                             stored'[o][t] <= copy'[r][o][t] /\ copy'[r][o][t] <= now'
  BY DEF CopiesAhead
<1> DEFINE Goal == /\ forgotten' = {}
                   /\ \A o \in Observations : \A t \in Types : stored'[o][t] <= now'
                   /\ \A r \in Runs : pc'[r] # "idle" =>
                         \A o \in Observations : \A t \in Types :
                            stored'[o][t] <= copy'[r][o][t] /\ copy'[r][o][t] <= now'
<1>a. /\ TypeOK /\ TypeKnown /\ mishaps \in Nat /\ now \in Int
      /\ \A o \in Observations : \A t \in Types :
            stored[o][t] \in Int /\ \A r \in Runs : copy[r][o][t] \in Int
  BY NotifierAssumption DEF IInv, TypeOK, Stamp
<1>1. ASSUME NEW r \in Runs, NEW t \in Types, NEW p \in Scopes(t), FetchObservations(r, t, p)
      PROVE  Goal
  <2>1. /\ mishaps' = mishaps /\ forgotten' = forgotten /\ now' = now /\ stored' = stored
        /\ copy'[r] = stored /\ \A q \in Runs : q = r
    BY <1>a, <1>1 DEF FetchObservations, TypeOK, rows, OneRun
  <2> QED
    BY <1>a, <2>1 DEF CopiesAhead
<1>2. ASSUME NEW r \in Runs, Handle(r) PROVE Goal
  <2>1. /\ mishaps' = mishaps /\ forgotten' = forgotten /\ now' = now /\ stored' = stored
        /\ pc' = pc /\ pc[r] = "gate" /\ type[r] \in Types /\ \A q \in Runs : q = r
    BY <1>a, <1>2 DEF Handle, rows, history, TypeKnown, OneRun
  <2>2. PICK e \in todo[r] : Skip(r, e) \/ Aggregate(r, e)
    BY <1>2 DEF Handle
  <2>3. e \in Observations /\ copy \in [Runs -> [Observations -> [Types -> Stamp]]]
    BY <1>a DEF TypeOK
  <2>4. ASSUME NEW o \in Observations, NEW t \in Types
        PROVE  copy'[r][o][t] \in {copy[r][o][t], now}
    <3>1. CASE Skip(r, e)
      BY <3>1 DEF Skip
    <3>2. CASE Aggregate(r, e)
      <4>1. copy'[r] = [copy[r] EXCEPT ![e] = [copy[r][e] EXCEPT ![type[r]] = now]]
        BY <2>3, <3>2 DEF Aggregate
      <4>2. copy[r] \in [Observations -> [Types -> Stamp]]
        BY <2>3
      <4> QED
        BY <2>1, <2>3, <4>1, <4>2
    <3> QED
      BY <2>2, <3>1, <3>2
  <2> QED
    BY <1>a, <2>1, <2>4 DEF CopiesAhead
<1>3. ASSUME NEW r \in Runs, AutoFlush(r) \/ Flush(r) PROVE Goal
  <2>1. /\ mishaps = 0 /\ pc[r] # "idle" /\ WriteBack(r) /\ now' = now /\ \A q \in Runs : q = r
    BY <1>3 DEF AutoFlush, Flush, OneRun
  <2>2. (pc' = pc /\ copy' = copy) \/ pc'[r] = "idle"
    BY <1>a, <1>3 DEF AutoFlush, Flush, Idle, TypeOK
  <2>3. /\ forgotten' = {}
        /\ \A o \in Observations : \A t \in Types :
              stored'[o][t] <= now /\ stored'[o][t] <= copy[r][o][t]
    BY <2>1, WriteBackAhead
  <2> QED
    BY <2>1, <2>2, <2>3 DEF CopiesAhead
<1>4. ASSUME NEW r \in Runs, Send(r) PROVE Goal
  <2>1. /\ mishaps' = mishaps \/ mishaps' = mishaps + 1
        /\ forgotten' = forgotten /\ now' = now /\ stored' = stored /\ copy' = copy
        /\ pc[r] = "gate" /\ \A q \in Runs : q = r
    BY <1>4 DEF Send, rows, OneRun
  <2>2. mishaps = 0
    BY <1>a, <2>1
  <2> QED
    BY <2>1, <2>2 DEF CopiesAhead
<1>5. ASSUME \/ \E r \in Runs : Fail(r)
             \/ \E o \in Observations : Update(o)
      PROVE  FALSE
  BY <1>a, <1>5 DEF Fail, Update
<1>6. ASSUME (\E o \in Observations : Delete(o)) \/ UNCHANGED vars PROVE Goal
  BY <1>6 DEF Delete, runState, history, vars, CopiesAhead
<1>7. CASE Tick
  <2>1. /\ mishaps' = mishaps /\ forgotten' = forgotten /\ now' = now + 1 /\ stored' = stored
        /\ copy' = copy /\ pc' = pc
    BY <1>7 DEF Tick, rows, runState, history
  <2> QED
    BY <1>a, <2>1 DEF CopiesAhead
<1> QED
  BY <1>1, <1>2, <1>3, <1>4, <1>5, <1>6, <1>7 DEF Next, GoOn

(* With one run under way at a time, and until something fails or an       *)
(* observation is updated, what "too frequent - skip" says is true, of     *)
(* whatever types the runs are: all that the run that breaks it needs is a *)
(* second run.                                                             *)
THEOREM NeverTooFrequentAlone ==
    ASSUME OneRun
    PROVE  Spec => [](mishaps = 0 => NeverTooFrequent)
<1>1. IInv /\ SpacingInv /\ [Next]_vars => SpacingInv'
  BY StepTwinsKnown, StepOutboxCoversDirty, StepLastMessageKnown,
     StepEarlyHasCause DEF SpacingInv
<1>2. IInv /\ CopiesAhead /\ [Next]_vars => CopiesAhead'
  BY StepCopiesAhead
<1>3. SpacingInv /\ CopiesAhead => (mishaps = 0 => NeverTooFrequent)
  BY DEF SpacingInv, CopiesAhead, EarlyHasCause, NeverTooFrequent
<1> QED
  BY Invariance, InitSpacing, InitCopiesAhead, <1>1, <1>2, <1>3, PTL DEF Spec

-----------------------------------------------------------------------------
(* What a run looks at and tells of is in its scope.  *)
InScopeOnly ==
    \A r \in Runs : \A o \in todo[r] \cup outbox[r] : InScope(o, scope[r])

LEMMA StepInScopeOnly == TypeOK /\ InScopeOnly /\ [Next]_vars => InScopeOnly'
<1> SUFFICES ASSUME TypeOK, InScopeOnly, [Next]_vars, NEW q \in Runs,
                    NEW o \in todo'[q] \cup outbox'[q]
             PROVE  InScope(o, scope'[q])
  BY DEF InScopeOnly, InScope
<1>1. ASSUME NEW r \in Runs, NEW t \in Types, NEW p \in Scopes(t), FetchObservations(r, t, p)
      PROVE  InScope(o, scope'[q])
  <2>1. CASE q = r
    BY <1>1, <2>1 DEF FetchObservations, TypeOK
  <2>2. CASE q # r
    BY <1>1, <2>2 DEF FetchObservations, TypeOK, InScopeOnly
  <2> QED
    BY <2>1, <2>2
<1>2. ASSUME todo'[q] \cup outbox'[q] \subseteq todo[q] \cup outbox[q], scope'[q] = scope[q]
      PROVE  InScope(o, scope'[q])
  BY <1>2 DEF InScopeOnly
<1>3. ASSUME NEW r \in Runs, Handle(r) PROVE InScope(o, scope'[q])
  <2>1. PICK e \in todo[r] : /\ todo' = [todo EXCEPT ![r] = todo[r] \ {e}]
                             /\ Skip(r, e) \/ Aggregate(r, e)
    BY <1>3 DEF Handle
  <2>2. outbox' = outbox \/ outbox' = [outbox EXCEPT ![r] = outbox[r] \cup {e}]
    BY <2>1 DEF Skip, Aggregate
  <2>3. todo'[q] \cup outbox'[q] \subseteq todo[q] \cup outbox[q]
    BY <2>1, <2>2 DEF TypeOK
  <2> QED
    BY <1>2, <1>3, <2>3 DEF Handle
<1>4. ASSUME NEW r \in Runs, Idle(r) PROVE InScope(o, scope'[q])
  <2>1. q # r /\ todo'[q] = todo[q] /\ outbox'[q] = outbox[q] /\ scope'[q] = scope[q]
    BY <1>4 DEF Idle, TypeOK
  <2> QED
    BY <1>2, <2>1
<1>5. ASSUME NEW r \in Runs, GoOn(r) \/ Fail(r) PROVE InScope(o, scope'[q])
  BY <1>2, <1>3, <1>4, <1>5 DEF GoOn, AutoFlush, Send, Flush, Fail
<1>6. ASSUME \/ Tick \/ UNCHANGED vars
             \/ \E e \in Observations : Update(e) \/ Delete(e)
      PROVE  InScope(o, scope'[q])
  BY <1>2, <1>6 DEF Tick, Update, Delete, runState, vars
<1> QED
  BY <1>1, <1>5, <1>6 DEF Next

(* The messages of a run go to the observations of the pool it is about,   *)
(* unless that is pool 0: taking the number 0 for no number                *)
(* (_fetchObservations) is all that is wrong.                              *)
THEOREM OwnPoolUnlessZero ==
    Spec => [](\A r \in Runs : scope[r] # 0 =>
                  \A o \in outbox[r] : scope[r] \in {AllPools, PoolOf[o]})
<1>1. Init => InScopeOnly
  BY DEF Init, InScopeOnly
<1>2. IInv => TypeOK
  BY DEF IInv
<1>3. InScopeOnly => \A r \in Runs : scope[r] # 0 =>
                        \A o \in outbox[r] : scope[r] \in {AllPools, PoolOf[o]}
  BY DEF InScopeOnly, InScope
<1> QED
  BY Invariance, <1>1, <1>2, <1>3, StepInScopeOnly, PTL DEF Spec
=============================================================================
