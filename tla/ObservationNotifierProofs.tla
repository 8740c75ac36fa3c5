----------------------- MODULE ObservationNotifierProofs -----------------------
(***************************************************************************)
(* For any observations, types and number of overlapping runs: a stamp in  *)
(* the database always stands for a message its user was sent, or the      *)
(* channel refused.                                                        *)
(***************************************************************************)
EXTENDS ObservationNotifier, TLAPS

USE DEF TooFrequent, NewStamp, ReadyToFlush

(* Stamp s of an observation stands for a message.  *)
Accounted(o, t, s) == s <= told[o][t] \/ <<o, t, s>> \in refused

(* A stamp a run holds stands for a message, except one it has put on an   *)
(* observation it is going to send the message of.                         *)
CopyMeansTold ==
    \A r \in Runs : \A o \in Observations : \A t \in Types \ Flushing :
        \/ Accounted(o, t, copy[r][o][t])
        \/ pc[r] = "gate" /\ type[r] = t /\ o \in outbox[r]

(* A run that is under way has a type.  *)
TypeKnown == \A r \in Runs : pc[r] # "idle" => type[r] \in Types

IInv == TypeOK /\ TypeKnown /\ CopyMeansTold /\ StampMeansTold

LEMMA FreshIsStamps == Fresh \in [Types -> Stamp]
  BY NotifierAssumption DEF Fresh, Never, Stamp

LEMMA InitIInv == Init => IInv
<1> SUFFICES ASSUME Init PROVE IInv
  OBVIOUS
<1>1. TypeOK
  BY NotifierAssumption, FreshIsStamps DEF Init, TypeOK
<1>2. TypeKnown
  BY DEF Init, TypeKnown
<1>3. CopyMeansTold /\ StampMeansTold
  BY DEF Init, CopyMeansTold, Accounted, StampMeansTold, Fresh, Never
<1> QED
  BY <1>1, <1>2, <1>3 DEF IInv

(* What the end of a run does to the types.  *)
LEMMA IdleKeepsTypes ==
    ASSUME TypeOK, NEW r \in Runs, Idle(r)
    PROVE  /\ pc' \in [Runs -> {"idle", "gate", "flush"}]
           /\ type' \in [Runs -> Types \cup {NoType}]
           /\ scope' \in [Runs -> Nat \cup {AllPools}]
           /\ copy' \in [Runs -> [Observations -> [Types -> Stamp]]]
           /\ todo' \in [Runs -> SUBSET Observations]
           /\ outbox' \in [Runs -> SUBSET Observations]
           /\ dirty' \in [Runs -> SUBSET Observations]
  BY FreshIsStamps DEF TypeOK, Idle

(* What a flush writes has the right types.  *)
LEMMA WriteBackKeepsTypes ==
    ASSUME TypeOK, NEW r \in Runs, WriteBack(r)
    PROVE  /\ stored' \in [Observations -> [Types -> Stamp]]
           /\ forgotten' \subseteq Observations \X Types
<1>1. stored' \in [Observations -> [Types -> Stamp]]
  BY DEF TypeOK, WriteBack
<1>2. forgotten' \subseteq Observations \X Types
  BY DEF TypeOK, WriteBack
<1> QED
  BY <1>1, <1>2

(* What Send does to the world, with the messages the channel took.  *)
Sent(r, taken) ==
    /\ refused' = refused \cup {<<o, type[r], copy[r][o][type[r]]>> : o \in outbox[r] \ taken}
    /\ told' = [o \in Observations |->
                  IF o \in taken /\ copy[r][o][type[r]] > told[o][type[r]]
                  THEN [told[o] EXCEPT ![type[r]] = copy[r][o][type[r]]] ELSE told[o]]
    /\ \E S \in SUBSET (taken \X {type[r]}) : early' = early \cup S

LEMMA SendIsSent ==
    ASSUME NEW r \in Runs, Send(r)
    PROVE  \E taken \in SUBSET outbox[r] : Sent(r, taken)
<1>1. \A taken : {p \in taken \X {type[r]} :
          /\ told[p[1]][type[r]] # Never
          /\ copy[r][p[1]][type[r]] - told[p[1]][type[r]] < Frequency}
            \in SUBSET (taken \X {type[r]})
  OBVIOUS
<1> QED
  BY <1>1 DEF Send, Sent, Deliveries

LEMMA StepTypeOK == IInv /\ [Next]_vars => TypeOK'
<1> SUFFICES ASSUME IInv, [Next]_vars PROVE TypeOK'
  OBVIOUS
<1> USE NotifierAssumption DEF IInv, TypeOK
<1>1. CASE Tick
  BY <1>1 DEF Tick, rows, runState, history
<1>2. ASSUME NEW r \in Runs, NEW t \in Types, NEW p \in Scopes(t),
             FetchObservations(r, t, p)
      PROVE  TypeOK'
  <2>1. p \in Nat \cup {AllPools}
    BY DEF Scopes
  <2>2. {o \in alive : InScope(o, p)} \subseteq Observations
    OBVIOUS
  <2>3. /\ scope' \in [Runs -> Nat \cup {AllPools}]
        /\ todo' \in [Runs -> SUBSET Observations]
    BY <1>2, <2>1, <2>2 DEF FetchObservations
  <2> QED
    BY <1>2, <2>3 DEF FetchObservations, rows
<1>3. ASSUME NEW r \in Runs, Handle(r) PROVE TypeOK'
  <2>1. PICK o \in todo[r] : /\ todo' = [todo EXCEPT ![r] = @ \ {o}]
                             /\ Skip(r, o) \/ Aggregate(r, o)
    BY <1>3 DEF Handle
  <2>2. now \in Stamp /\ type[r] \in Types /\ o \in Observations
    BY <1>3, <2>1 DEF Handle, TypeKnown, Stamp
  <2>3. copy' \in [Runs -> [Observations -> [Types -> Stamp]]]
    <3>1. CASE Skip(r, o)
      BY <3>1 DEF Skip
    <3>2. CASE Aggregate(r, o)
      <4>1. [copy[r][o] EXCEPT ![type[r]] = now] \in [Types -> Stamp]
        BY <2>2
      <4>2. copy' = [copy EXCEPT ![r] = [copy[r] EXCEPT
                        ![o] = [copy[r][o] EXCEPT ![type[r]] = now]]]
        BY <3>2 DEF Aggregate
      <4> QED
        BY <2>2, <4>1, <4>2
    <3> QED
      BY <2>1, <3>1, <3>2
  <2>4. /\ outbox' \in [Runs -> SUBSET Observations]
        /\ dirty' \in [Runs -> SUBSET Observations]
        /\ todo' \in [Runs -> SUBSET Observations]
    <3>1. /\ todo[r] \ {o} \subseteq Observations
          /\ outbox[r] \cup {o} \subseteq Observations
          /\ dirty[r] \cup {o} \subseteq Observations
      BY <2>2
    <3>2. \/ outbox' = outbox /\ dirty' = dirty
          \/ /\ outbox' = [outbox EXCEPT ![r] = outbox[r] \cup {o}]
             /\ dirty' = [dirty EXCEPT ![r] = dirty[r] \cup {o}]
      BY <2>1 DEF Skip, Aggregate
    <3>3. todo' = [todo EXCEPT ![r] = todo[r] \ {o}]
      BY <2>1
    <3>4. outbox' \in [Runs -> SUBSET Observations]
      BY <3>1, <3>2
    <3>5. dirty' \in [Runs -> SUBSET Observations]
      BY <3>1, <3>2
    <3>6. todo' \in [Runs -> SUBSET Observations]
      BY <3>1, <3>3
    <3> QED
      BY <3>4, <3>5, <3>6
  <2> QED
    BY <1>3, <2>3, <2>4 DEF Handle, rows, history
<1>4. ASSUME NEW r \in Runs, Send(r) PROVE TypeOK'
  <2>1. type[r] \in Types
    BY <1>4 DEF Send, TypeKnown
  <2> DEFINE t == type[r]
  <2>a. PICK taken \in SUBSET outbox[r] : Sent(r, taken)
    BY <1>4, SendIsSent
  <2>2. told' \in [Observations -> [Types -> Stamp]]
    <3>1. ASSUME NEW o \in Observations
          PROVE [told[o] EXCEPT ![t] = copy[r][o][t]] \in [Types -> Stamp]
      BY <2>1
    <3> QED
      BY <2>a, <3>1 DEF Sent
  <2>3. early' \subseteq Observations \X Types
    BY <2>1, <2>a DEF Sent
  <2>5. refused' \subseteq Observations \X Types \X Stamp
    BY <2>1, <2>a DEF Sent
  <2>6. mishaps' \in 0..MaxMishaps
    BY <1>4 DEF Send
  <2>4. pc' \in [Runs -> {"idle", "gate", "flush"}]
    BY <1>4 DEF Send
  <2> QED
    BY <1>4, <2>2, <2>3, <2>4, <2>5, <2>6 DEF Send, rows
<1>5. ASSUME NEW r \in Runs, Flush(r) PROVE TypeOK'
  BY <1>5, IdleKeepsTypes, WriteBackKeepsTypes DEF Flush
<1>10. ASSUME NEW r \in Runs, AutoFlush(r) PROVE TypeOK'
  BY <1>10, WriteBackKeepsTypes DEF AutoFlush
<1>6. ASSUME NEW r \in Runs, Fail(r) PROVE TypeOK'
  <2>1. forgotten' \subseteq Observations \X Types
    BY <1>6 DEF Fail, TypeKnown
  <2> QED
    BY <1>6, <2>1, IdleKeepsTypes DEF Fail, rows
<1>7. ASSUME NEW o \in Observations, Update(o) PROVE TypeOK'
  BY <1>7, FreshIsStamps DEF Update, runState
<1>8. ASSUME NEW o \in Observations, Delete(o) PROVE TypeOK'
  BY <1>8 DEF Delete, runState, history
<1>9. CASE UNCHANGED vars
  BY <1>9 DEF vars
<1> QED
  BY <1>1, <1>2, <1>3, <1>4, <1>5, <1>6, <1>7, <1>8, <1>9, <1>10 DEF Next, GoOn

LEMMA StepTypeKnown == IInv /\ [Next]_vars => TypeKnown'
<1> SUFFICES ASSUME IInv, [Next]_vars PROVE TypeKnown'
  OBVIOUS
<1> USE DEF IInv, TypeOK, TypeKnown
<1>1. CASE Tick
  BY <1>1 DEF Tick, runState
<1>2. ASSUME NEW r \in Runs, NEW t \in Types, NEW p \in Scopes(t),
             FetchObservations(r, t, p)
      PROVE  TypeKnown'
  BY <1>2 DEF FetchObservations
<1>3. ASSUME NEW r \in Runs, Handle(r) PROVE TypeKnown'
  BY <1>3 DEF Handle
<1>4. ASSUME NEW r \in Runs, Send(r) PROVE TypeKnown'
  BY <1>4 DEF Send
<1>5. ASSUME NEW r \in Runs, Idle(r) PROVE TypeKnown'
  BY <1>5 DEF Idle
<1>6. ASSUME NEW o \in Observations, Update(o) \/ Delete(o) PROVE TypeKnown'
  BY <1>6 DEF Update, Delete, runState
<1>7. ASSUME NEW r \in Runs, AutoFlush(r) PROVE TypeKnown'
  BY <1>7 DEF AutoFlush
<1>8. CASE UNCHANGED vars
  BY <1>8 DEF vars
<1> QED
  BY <1>1, <1>2, <1>3, <1>4, <1>5, <1>6, <1>7, <1>8 DEF Next, GoOn, Flush, Fail

(* Where the run is not r, the end of r changes nothing; r holds no stamp. *)
LEMMA IdleForgets ==
    ASSUME TypeOK, NEW r \in Runs, Idle(r),
           NEW q \in Runs, NEW o \in Observations, NEW t \in Types
    PROVE  /\ q = r => copy'[q][o][t] = Never
           /\ q # r => /\ copy'[q] = copy[q]
                       /\ pc'[q] = pc[q]
                       /\ type'[q] = type[q]
                       /\ outbox'[q] = outbox[q]
  BY DEF TypeOK, Idle, Fresh

(* A stamp that stood for a message still does when another is sent, and   *)
(* the stamps of the messages that are sent do from then on.               *)
LEMMA SendAccounts ==
    ASSUME IInv, NEW r \in Runs, Send(r), NEW o \in Observations,
           NEW t \in Types, NEW s \in Stamp
    PROVE  /\ Accounted(o, t, s) => Accounted(o, t, s)'
           /\ o \in outbox[r] /\ t = type[r] /\ s = copy[r][o][t]
                => Accounted(o, t, s)'
<1> USE DEF IInv, TypeOK
<1>1. type[r] \in Types
  BY DEF Send, TypeKnown
<1>2. PICK taken \in SUBSET outbox[r] : Sent(r, taken)
  BY SendIsSent
<1>3. /\ told[o][t] \in Int /\ told[o][type[r]] \in Int
      /\ copy[r][o][type[r]] \in Int /\ s \in Int
  BY <1>1 DEF Stamp
<1>4. told'[o] = IF o \in taken /\ copy[r][o][type[r]] > told[o][type[r]]
                 THEN [told[o] EXCEPT ![type[r]] = copy[r][o][type[r]]]
                 ELSE told[o]
  BY <1>2 DEF Sent
<1>5. told[o] \in [Types -> Stamp]
  OBVIOUS
<1>6. s <= told[o][t] => s <= told'[o][t]
  BY <1>1, <1>3, <1>4, <1>5
<1>7. o \in taken => copy[r][o][type[r]] <= told'[o][type[r]]
  BY <1>1, <1>3, <1>4, <1>5
<1>8. /\ refused \subseteq refused'
      /\ o \in outbox[r] \ taken => <<o, type[r], copy[r][o][type[r]]>> \in refused'
  BY <1>2 DEF Sent
<1> QED
  BY <1>6, <1>7, <1>8 DEF Accounted

LEMMA StepCopyMeansTold == IInv /\ [Next]_vars => CopyMeansTold'
<1> SUFFICES ASSUME IInv, [Next]_vars,
                    NEW q \in Runs, NEW o \in Observations,
                    NEW t \in Types \ Flushing
             PROVE  (\/ Accounted(o, t, copy[q][o][t])
                     \/ pc[q] = "gate" /\ type[q] = t /\ o \in outbox[q])'
  BY DEF CopyMeansTold
<1> DEFINE Known == Accounted(o, t, copy[q][o][t])
           Due == pc[q] = "gate" /\ type[q] = t /\ o \in outbox[q]
<1>a. TypeOK /\ (Known \/ Due) /\ Accounted(o, t, stored[o][t])
  BY DEF IInv, CopyMeansTold, StampMeansTold, Accounted
<1>b. copy[q][o][t] \in Stamp
  BY <1>a DEF TypeOK
<1>1. CASE Tick
  BY <1>1, <1>a DEF Tick, runState, history, Accounted
<1>2. ASSUME NEW r \in Runs, NEW u \in Types, NEW p \in Scopes(u),
             FetchObservations(r, u, p)
      PROVE  Known' \/ Due'
  <2>1. told' = told /\ refused' = refused
    BY <1>2 DEF FetchObservations
  <2>2. CASE q = r
    <3>1. copy'[q] = stored
      BY <1>2, <1>a, <2>2 DEF FetchObservations, TypeOK
    <3> QED
      BY <1>a, <2>1, <3>1 DEF Accounted
  <2>3. CASE q # r
    <3>1. /\ copy'[q] = copy[q] /\ pc'[q] = pc[q]
          /\ type'[q] = type[q] /\ outbox'[q] = outbox[q]
      BY <1>2, <1>a, <2>3 DEF FetchObservations, TypeOK
    <3> QED
      BY <1>a, <2>1, <3>1 DEF Accounted
  <2> QED
    BY <2>2, <2>3
<1>3. ASSUME NEW r \in Runs, Handle(r) PROVE Known' \/ Due'
  <2>1. PICK p \in todo[r] : Skip(r, p) \/ Aggregate(r, p)
    BY <1>3 DEF Handle
  <2>2. /\ told' = told /\ refused' = refused
        /\ pc' = pc /\ type' = type /\ pc[r] = "gate"
    BY <1>3 DEF Handle, history
  <2>3. CASE Skip(r, p)
    BY <1>a, <2>2, <2>3 DEF Skip, Accounted
  <2>4. CASE Aggregate(r, p)
    <3>1. /\ copy' = [copy EXCEPT ![r] = [copy[r] EXCEPT
                         ![p] = [copy[r][p] EXCEPT ![type[r]] = now]]]
          /\ outbox' = [outbox EXCEPT ![r] = outbox[r] \cup {p}]
      BY <2>4 DEF Aggregate
    <3>2. CASE q = r /\ o = p /\ t = type[r]
      BY <1>a, <2>2, <3>1, <3>2 DEF TypeOK
    <3>3. CASE ~(q = r /\ o = p /\ t = type[r])
      <4>1. copy'[q][o][t] = copy[q][o][t]
        BY <1>a, <3>1, <3>3 DEF TypeOK
      <4>2. o \in outbox[q] => o \in outbox'[q]
        BY <1>a, <3>1 DEF TypeOK
      <4> QED
        BY <1>a, <2>2, <4>1, <4>2 DEF Accounted
    <3> QED
      BY <3>2, <3>3
  <2> QED
    BY <2>1, <2>3, <2>4
<1>4. ASSUME NEW r \in Runs, Send(r) PROVE Known' \/ Due'
  <2>1. copy' = copy /\ type' = type /\ outbox' = outbox
    BY <1>4 DEF Send
  <2>2. CASE Known
    <3>1. Accounted(o, t, copy[q][o][t])'
      <4>1. \A s \in Stamp : Accounted(o, t, s) => Accounted(o, t, s)'
        BY <1>4, SendAccounts
      <4> QED
        BY <1>b, <2>1, <2>2, <4>1 DEF Accounted
    <3> QED
      BY <3>1
  <2>3. CASE Due
    <3>1. CASE q = r
      <4>1. \A s \in Stamp : s = copy[q][o][t] => Accounted(o, t, s)'
        BY <1>4, <2>3, <3>1, SendAccounts
      <4> QED
        BY <1>b, <2>1, <4>1 DEF Accounted
    <3>2. CASE q # r
      BY <1>4, <1>a, <2>1, <2>3, <3>2 DEF Send, TypeOK
    <3> QED
      BY <3>1, <3>2
  <2> QED
    BY <1>a, <2>2, <2>3
<1>5. ASSUME NEW r \in Runs, Idle(r), told' = told, refused' = refused
      PROVE  Known' \/ Due'
  <2>1. CASE q = r
    <3>1. copy'[q][o][t] = 0
      BY <1>5, <1>a, <2>1, IdleForgets DEF Never
    <3>2. told[o][t] \in 0..MaxTime
      BY <1>a DEF TypeOK, Stamp
    <3> QED
      BY <1>5, <3>1, <3>2, NotifierAssumption DEF Accounted
  <2>2. CASE q # r
    BY <1>5, <1>a, <2>2, IdleForgets DEF Accounted
  <2> QED
    BY <2>1, <2>2
<1>6. ASSUME NEW p \in Observations, Update(p) \/ Delete(p) PROVE Known' \/ Due'
  BY <1>6, <1>a DEF Update, Delete, runState, history, Accounted
<1>7. CASE UNCHANGED vars
  BY <1>7, <1>a DEF vars, Accounted
<1>8. ASSUME NEW r \in Runs, Flush(r) \/ Fail(r) PROVE Known' \/ Due'
  BY <1>5, <1>8 DEF Flush, Fail
<1>9. ASSUME NEW r \in Runs, AutoFlush(r) PROVE Known' \/ Due'
  BY <1>9, <1>a DEF AutoFlush, Accounted
<1> QED
  BY <1>1, <1>2, <1>3, <1>4, <1>6, <1>7, <1>8, <1>9 DEF Next, GoOn

LEMMA StepStampMeansTold == IInv /\ [Next]_vars => StampMeansTold'
<1> SUFFICES ASSUME IInv, [Next]_vars, NEW o \in Observations,
                    NEW t \in Types \ Flushing
             PROVE  Accounted(o, t, stored[o][t])'
  BY DEF StampMeansTold, Accounted
<1>a. TypeOK /\ Accounted(o, t, stored[o][t])
  BY DEF IInv, StampMeansTold, Accounted
<1>b. stored[o][t] \in Stamp /\ told[o][t] \in 0..MaxTime
  BY <1>a DEF TypeOK, Stamp
<1> DEFINE Kept == stored' = stored /\ told' = told /\ refused' = refused
<1>1. ASSUME NEW r \in Runs, Send(r) PROVE Accounted(o, t, stored[o][t])'
  <2>1. stored' = stored
    BY <1>1 DEF Send, rows
  <2>2. \A s \in Stamp : Accounted(o, t, s) => Accounted(o, t, s)'
    BY <1>1, SendAccounts
  <2> QED
    BY <1>a, <1>b, <2>1, <2>2 DEF Accounted
<1>2. ASSUME NEW r \in Runs, Flush(r) \/ AutoFlush(r)
      PROVE  Accounted(o, t, stored[o][t])'
  <2>1. /\ told' = told /\ refused' = refused
        /\ stored'[o] = IF o \in dirty[r] \cap alive THEN copy[r][o] ELSE stored[o]
    BY <1>2 DEF Flush, AutoFlush, WriteBack
  <2>2. Accounted(o, t, copy[r][o][t])
    <3>1. pc[r] = "flush" \/ type[r] # t
      BY <1>2 DEF Flush, AutoFlush
    <3> QED
      BY <3>1 DEF IInv, CopyMeansTold
  <2> QED
    BY <1>a, <2>1, <2>2 DEF Accounted
<1>3. ASSUME NEW p \in Observations, Update(p) PROVE Accounted(o, t, stored[o][t])'
  <2>1. /\ told' = told /\ refused' = refused
        /\ stored'[o] = stored[o] \/ stored'[o] = Fresh
    BY <1>3, <1>a DEF Update, TypeOK
  <2>2. Fresh[t] = 0 /\ 0 <= told[o][t]
    BY <1>b, NotifierAssumption DEF Fresh, Never
  <2> QED
    BY <1>a, <2>1, <2>2 DEF Accounted
<1>4. CASE Kept
  BY <1>4, <1>a DEF Accounted
<1>5. ASSUME \/ Tick
             \/ \E r \in Runs : \E u \in Types : \E p \in Scopes(u) :
                    FetchObservations(r, u, p)
             \/ \E r \in Runs : Handle(r) \/ Fail(r)
             \/ \E p \in Observations : Delete(p)
             \/ UNCHANGED vars
      PROVE  Kept
  BY <1>5 DEF Tick, FetchObservations, Handle, Fail, Delete, vars, rows, history
<1> QED
  BY <1>1, <1>2, <1>3, <1>4, <1>5 DEF Next, GoOn

THEOREM Invariance == Spec => []IInv
<1>1. IInv /\ [Next]_vars => IInv'
  BY StepTypeOK, StepTypeKnown, StepCopyMeansTold, StepStampMeansTold DEF IInv
<1> QED
  BY InitIInv, <1>1, PTL DEF Spec

(* Every variable of the notifier keeps its type.  *)
THEOREM TypeCorrect == Spec => []TypeOK
<1>1. IInv => TypeOK
  BY DEF IInv
<1> QED
  BY Invariance, <1>1, PTL

(* A stamp in the database never silences a message nobody was sent,       *)
(* however the runs of AbstractPeriodicCrawler overlap, fail and overwrite *)
(* each other's column: notifications are sent before their flush.         *)
THEOREM StampMeansToldAlways == Spec => []StampMeansTold
<1>1. IInv => StampMeansTold
  BY DEF IInv
<1> QED
  BY Invariance, <1>1, PTL
=============================================================================
