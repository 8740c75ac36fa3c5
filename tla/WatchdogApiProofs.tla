--------------------------- MODULE WatchdogApiProofs ---------------------------
(***************************************************************************)
(* For any number of overlapping requests, identities and rows: an         *)
(* identity is one user, has at most its limit and a row per request, and  *)
(* its rows are its own.                                                   *)
(***************************************************************************)
EXTENDS WatchdogApi, FiniteSetTheorems, TLAPS

USE DEF Taken, WithinLimit, Owns

(* Ids are handed out in turn, and a row refers to a user that exists.  *)
IdsInTurn ==
    /\ \A u \in UserIds : identity[u] # NoIdentity => u <= lastUser
    /\ \A o \in RowIds : owner[o] # NoId => o <= lastRow

(* The unique index.  *)
IdentitiesUnique ==
    \A u, v \in UserIds : identity[u] = identity[v] /\ identity[u] # NoIdentity => u = v

TokensTrue == \A t \in tokens : t[2] <= lastUser /\ identity[t[2]] = t[1]

(* A request that was let through to a row is of the row's owner, as long  *)
(* as the row is there.                                                    *)
TargetsOwned ==
    \A r \in Requests : pc[r] \in {"write", "remove"} =>
        target[r] \in 1..lastRow /\ owner[target[r]] \in {user[r], NoId}

UsersKnown == \A r \in Requests :
    pc[r] \in {"insertRow", "write", "remove"} => user[r] # NoId

(* Who logs in has an identity.  *)
ClientsKnown == \A r \in Requests : pc[r] = "insertUser" => client[r] \in Identities

ApiInv ==
    /\ TypeOK
    /\ ClientsKnown
    /\ IdsInTurn
    /\ IdentitiesUnique
    /\ TokensTrue
    /\ TargetsOwned
    /\ UsersKnown
    /\ OnlyOwnersWrite

LEMMA InitApiInv == Init => ApiInv
<1> SUFFICES ASSUME Init PROVE ApiInv
  OBVIOUS
<1>1. TypeOK
  BY ApiAssumption DEF Init, TypeOK
<1>2. IdsInTurn /\ IdentitiesUnique /\ TokensTrue /\ OnlyOwnersWrite
  BY DEF Init, IdsInTurn, IdentitiesUnique, TokensTrue, OnlyOwnersWrite
<1>3. TargetsOwned /\ UsersKnown /\ ClientsKnown
  BY DEF Init, TargetsOwned, UsersKnown, ClientsKnown
<1> QED
  BY <1>1, <1>2, <1>3 DEF ApiInv

(* What a request remembers has its type, and other requests are not       *)
(* touched, when it goes on.                                               *)
LEMMA GoesOnTypes ==
    ASSUME TypeOK, NEW r \in Requests,
           NEW p \in {"idle", "insertUser", "insertRow", "write", "remove"},
           NEW i \in Identities \cup {NoIdentity},
           NEW u \in UserIds \cup {NoId}, NEW o \in RowIds \cup {NoId},
           GoesOn(r, p, i, u, o)
    PROVE  /\ pc' \in [Requests -> {"idle", "insertUser", "insertRow", "write", "remove"}]
           /\ client' \in [Requests -> Identities \cup {NoIdentity}]
           /\ user' \in [Requests -> UserIds \cup {NoId}]
           /\ target' \in [Requests -> RowIds \cup {NoId}]
           /\ pc'[r] = p /\ client'[r] = i /\ user'[r] = u /\ target'[r] = o
           /\ \A q \in Requests \ {r} :
                 /\ pc'[q] = pc[q] /\ client'[q] = client[q]
                 /\ user'[q] = user[q] /\ target'[q] = target[q]
  BY DEF TypeOK, GoesOn

(* A step that ends a request and keeps the rows keeps what requests know. *)
LEMMA AnsweredKeeps ==
    ASSUME ApiInv, NEW r \in Requests, Answered(r), lastRow' \in Int, lastRow' >= lastRow,
           \A o \in 1..lastRow : owner'[o] \in {owner[o], NoId}
    PROVE  TargetsOwned' /\ UsersKnown' /\ ClientsKnown'
<1>1. /\ pc'[r] = "idle"
      /\ \A q \in Requests \ {r} :
            /\ pc'[q] = pc[q] /\ client'[q] = client[q]
            /\ user'[q] = user[q] /\ target'[q] = target[q]
  BY GoesOnTypes DEF ApiInv, Answered
<1>2. lastRow \in Int
  BY DEF ApiInv, TypeOK
<1>3. UsersKnown' /\ ClientsKnown'
  BY <1>1 DEF ApiInv, UsersKnown, ClientsKnown
<1>4. ASSUME NEW q \in Requests, pc'[q] \in {"write", "remove"}
      PROVE  target'[q] \in 1..lastRow' /\ owner'[target'[q]] \in {user'[q], NoId}
  <2>1. q # r
    BY <1>1, <1>4
  <2>2. target[q] \in 1..lastRow /\ owner[target[q]] \in {user[q], NoId}
    BY <1>1, <1>4, <2>1 DEF ApiInv, TargetsOwned
  <2> QED
    BY <1>1, <1>2, <2>1, <2>2
<1> QED
  BY <1>3, <1>4 DEF TargetsOwned

LEMMA StepApiInv == ApiInv /\ [Next]_vars => ApiInv'
<1> SUFFICES ASSUME ApiInv, [Next]_vars PROVE ApiInv'
  OBVIOUS
<1>a. /\ TypeOK /\ IdsInTurn /\ IdentitiesUnique /\ TokensTrue /\ ClientsKnown
      /\ TargetsOwned /\ UsersKnown /\ OnlyOwnersWrite
  BY DEF ApiInv
<1>b. lastUser \in 0..MaxUsers /\ lastRow \in 0..MaxRows /\ MaxUsers \in Nat /\ MaxRows \in Nat
  BY <1>a, ApiAssumption DEF TypeOK
<1>1. ASSUME NEW r \in Requests, NEW i \in Identities, FindUser(r, i) PROVE ApiInv'
  <2>1. PICK u \in 1..lastUser : identity[u] = i /\ tokens' = tokens \cup {<<i, u>>}
    BY <1>1 DEF FindUser, UsersOf
  <2>2. u \in UserIds
    BY <1>b, <2>1 DEF UserIds
  <2>3. TypeOK'
    BY <1>a, <1>1, <2>1, <2>2 DEF FindUser, TypeOK, database, request
  <2>4. TokensTrue'
    BY <1>a, <1>1, <2>1 DEF FindUser, TokensTrue, database
  <2> QED
    BY <1>a, <1>1, <2>3, <2>4 DEF FindUser, database, request, ApiInv, IdsInTurn,
       IdentitiesUnique, TargetsOwned, UsersKnown, ClientsKnown, OnlyOwnersWrite
<1>2. ASSUME NEW r \in Requests, Answered(r), UNCHANGED <<database, tokens>> PROVE ApiInv'
  <2>1. TypeOK'
    BY <1>a, <1>2, GoesOnTypes DEF Answered, TypeOK, database
  <2>2. TargetsOwned' /\ UsersKnown' /\ ClientsKnown'
    BY <1>b, <1>2, AnsweredKeeps DEF database
  <2> QED
    BY <1>a, <1>2, <2>1, <2>2 DEF database, ApiInv, IdsInTurn, IdentitiesUnique,
       TokensTrue, OnlyOwnersWrite
<1>3. ASSUME NEW r \in Requests, NEW p \in {"insertUser", "insertRow", "write", "remove"},
             NEW i \in Identities \cup {NoIdentity}, NEW u \in UserIds \cup {NoId},
             NEW o \in RowIds \cup {NoId}, GoesOn(r, p, i, u, o),
             UNCHANGED <<database, tokens>>,
             p = "insertUser" => i \in Identities,
             p # "insertUser" => u # NoId,
             p \in {"write", "remove"} => o \in RowIds /\ Owns(u, o)
      PROVE  ApiInv'
  <2>0. p \in {"idle", "insertUser", "insertRow", "write", "remove"}
    OBVIOUS
  <2>1. /\ pc' \in [Requests -> {"idle", "insertUser", "insertRow", "write", "remove"}]
        /\ client' \in [Requests -> Identities \cup {NoIdentity}]
        /\ user' \in [Requests -> UserIds \cup {NoId}]
        /\ target' \in [Requests -> RowIds \cup {NoId}]
        /\ pc'[r] = p /\ client'[r] = i /\ user'[r] = u /\ target'[r] = o
        /\ \A q \in Requests \ {r} :
              /\ pc'[q] = pc[q] /\ client'[q] = client[q]
              /\ user'[q] = user[q] /\ target'[q] = target[q]
    BY <1>a, <1>3, <2>0, GoesOnTypes
  <2>2. TypeOK'
    BY <1>a, <1>3, <2>1 DEF TypeOK, database
  <2>3. UsersKnown' /\ ClientsKnown'
    BY <1>a, <1>3, <2>1 DEF UsersKnown, ClientsKnown
  <2>4. ASSUME p \in {"write", "remove"}
        PROVE  o \in 1..lastRow /\ owner[o] = u
    <3>1. owner[o] # NoId /\ owner[o] = u
      BY <1>3, <2>4
    <3>2. o \in RowIds
      BY <1>3, <2>4
    <3> QED
      BY <1>a, <1>b, <3>1, <3>2 DEF IdsInTurn, RowIds
  <2>5. TargetsOwned'
    BY <1>a, <1>3, <2>1, <2>4 DEF TargetsOwned, database
  <2> QED
    BY <1>a, <1>3, <2>2, <2>3, <2>5 DEF database, ApiInv, IdsInTurn, IdentitiesUnique,
       TokensTrue, OnlyOwnersWrite
<1>4. ASSUME NEW r \in Requests, InsertUser(r) PROVE ApiInv'
  <2> DEFINE i == client[r]
             id == lastUser + 1
  <2>1. /\ UsersOf(i) = {} /\ id \in UserIds /\ i \in Identities
        /\ identity' = [identity EXCEPT ![id] = i] /\ lastUser' = id
        /\ tokens' = tokens \cup {<<i, id>>} /\ Answered(r)
        /\ owner' = owner /\ lastRow' = lastRow /\ writer' = writer
    BY <1>a, <1>b, <1>4 DEF InsertUser, ClientsKnown, UserIds
  <2>2. identity \in [UserIds -> Identities \cup {NoIdentity}] /\ tokens \subseteq Identities \X UserIds
    BY <1>a DEF TypeOK
  <2>3. \A u \in UserIds : identity[u] = i => u = id /\ FALSE
    <3> SUFFICES ASSUME NEW u \in UserIds, identity[u] = i PROVE FALSE
      OBVIOUS
    <3>1. u \in 1..lastUser
      BY <1>a, <1>b, <2>1, ApiAssumption DEF IdsInTurn, UserIds
    <3> QED
      BY <2>1, <3>1 DEF UsersOf
  <2>4. TypeOK'
    <3>1. identity' \in [UserIds -> Identities \cup {NoIdentity}]
      BY <2>1, <2>2
    <3>2. tokens' \subseteq Identities \X UserIds /\ lastUser' \in 0..MaxUsers
      BY <1>b, <2>1, <2>2 DEF UserIds
    <3> QED
      BY <1>a, <2>1, <3>1, <3>2, GoesOnTypes DEF Answered, TypeOK
  <2>5. TargetsOwned' /\ UsersKnown' /\ ClientsKnown'
    BY <1>b, <2>1, AnsweredKeeps
  <2>6. IdsInTurn'
    BY <1>a, <1>b, <2>1, <2>2 DEF IdsInTurn, UserIds
  <2>7. IdentitiesUnique'
    BY <1>a, <2>1, <2>2, <2>3 DEF IdentitiesUnique
  <2>8. TokensTrue'
    <3> SUFFICES ASSUME NEW t \in tokens' PROVE t[2] <= lastUser' /\ identity'[t[2]] = t[1]
      BY DEF TokensTrue
    <3>1. CASE t \in tokens
      <4>1. t[2] \in UserIds /\ t[2] <= lastUser /\ identity[t[2]] = t[1]
        BY <1>a, <2>2, <3>1 DEF TokensTrue
      <4>2. t[2] # id /\ t[2] <= id
        BY <1>b, <4>1 DEF UserIds
      <4> QED
        BY <2>1, <2>2, <4>1, <4>2
    <3>2. CASE t = <<i, id>>
      BY <1>b, <2>1, <2>2, <3>2
    <3> QED
      BY <2>1, <3>1, <3>2
  <2> QED
    BY <1>a, <2>1, <2>4, <2>5, <2>6, <2>7, <2>8 DEF ApiInv, OnlyOwnersWrite
<1>5. ASSUME NEW r \in Requests, CountObservations(r) PROVE ApiInv'
  <2>1. PICK t \in tokens : GoesOn(r, "insertRow", NoIdentity, t[2], NoId)
    BY <1>5 DEF CountObservations
  <2>2. t[2] \in UserIds /\ t[2] # NoId
    BY <1>a, <1>b DEF TypeOK, UserIds, NoId
  <2> QED
    BY <1>3, <1>5, <2>1, <2>2 DEF CountObservations
<1>6. ASSUME NEW r \in Requests, NEW step \in {"write", "remove"}, FindRow(r, step) PROVE ApiInv'
  <2>1. PICK t \in tokens, o \in RowIds :
           Owns(t[2], o) /\ GoesOn(r, step, NoIdentity, t[2], o)
    BY <1>6 DEF FindRow
  <2>2. t[2] \in UserIds /\ t[2] # NoId
    BY <1>a, <1>b DEF TypeOK, UserIds, NoId
  <2> QED
    BY <1>3, <1>6, <2>1, <2>2 DEF FindRow
<1>7. ASSUME NEW r \in Requests, InsertRow(r) PROVE ApiInv'
  <2> DEFINE id == lastRow + 1
  <2>1. /\ pc[r] = "insertRow" /\ id \in RowIds /\ user[r] \in UserIds
        /\ owner' = [owner EXCEPT ![id] = user[r]]
        /\ writer' = [writer EXCEPT ![id] = user[r]]
        /\ lastRow' = id /\ Answered(r)
        /\ identity' = identity /\ lastUser' = lastUser /\ tokens' = tokens
    BY <1>a, <1>b, <1>7 DEF InsertRow, RowIds, UsersKnown, TypeOK
  <2>2. /\ owner \in [RowIds -> UserIds \cup {NoId}]
        /\ writer \in [RowIds -> UserIds \cup {NoId}]
    BY <1>a DEF TypeOK
  <2>3. TypeOK'
    <3>1. owner' \in [RowIds -> UserIds \cup {NoId}] /\ writer' \in [RowIds -> UserIds \cup {NoId}]
      BY <2>1, <2>2
    <3>2. lastRow' \in 0..MaxRows
      BY <1>b, <2>1 DEF RowIds
    <3> QED
      BY <1>a, <2>1, <3>1, <3>2, GoesOnTypes DEF Answered, TypeOK
  <2>4. \A o \in 1..lastRow : owner'[o] = owner[o]
    BY <1>b, <2>1, <2>2 DEF RowIds
  <2>5. TargetsOwned' /\ UsersKnown' /\ ClientsKnown'
    BY <1>b, <2>1, <2>4, AnsweredKeeps
  <2>6. IdsInTurn'
    BY <1>a, <1>b, <2>1, <2>2 DEF IdsInTurn, RowIds
  <2>7. OnlyOwnersWrite'
    BY <1>a, <2>1, <2>2 DEF OnlyOwnersWrite
  <2> QED
    BY <1>a, <2>1, <2>3, <2>5, <2>6, <2>7 DEF ApiInv, IdentitiesUnique, TokensTrue
<1>8. ASSUME NEW r \in Requests, WriteRow(r) \/ RemoveRow(r) PROVE ApiInv'
  <2> DEFINE o == target[r]
  <2>1. /\ pc[r] \in {"write", "remove"} /\ Answered(r)
        /\ identity' = identity /\ lastUser' = lastUser /\ lastRow' = lastRow /\ tokens' = tokens
    BY <1>8 DEF WriteRow, RemoveRow
  <2>2. o \in RowIds /\ owner[o] \in {user[r], NoId} /\ user[r] \in UserIds
    BY <1>a, <1>b, <2>1 DEF TargetsOwned, UsersKnown, TypeOK, RowIds
  <2>3. \/ owner' = owner /\ writer' = writer
        \/ owner' = owner /\ owner[o] = user[r] /\ writer' = [writer EXCEPT ![o] = user[r]]
        \/ owner' = [owner EXCEPT ![o] = NoId] /\ writer' = [writer EXCEPT ![o] = NoId]
    BY <1>8, <2>2 DEF WriteRow, RemoveRow
  <2>4. /\ owner \in [RowIds -> UserIds \cup {NoId}]
        /\ writer \in [RowIds -> UserIds \cup {NoId}]
    BY <1>a DEF TypeOK
  <2>5. TypeOK'
    <3>1. owner' \in [RowIds -> UserIds \cup {NoId}] /\ writer' \in [RowIds -> UserIds \cup {NoId}]
      BY <2>2, <2>3, <2>4
    <3> QED
      BY <1>a, <2>1, <3>1, GoesOnTypes DEF Answered, TypeOK
  <2>6. \A p \in RowIds : owner'[p] \in {owner[p], NoId}
    BY <2>2, <2>3, <2>4
  <2>7. 1..lastRow \subseteq RowIds
    BY <1>b DEF RowIds
  <2>8. TargetsOwned' /\ UsersKnown' /\ ClientsKnown'
    BY <1>b, <2>1, <2>6, <2>7, AnsweredKeeps
  <2>9. IdsInTurn' /\ OnlyOwnersWrite'
    <3>1. OnlyOwnersWrite'
      BY <1>a, <2>2, <2>3, <2>4 DEF OnlyOwnersWrite
    <3> QED
      BY <1>a, <2>1, <2>6, <3>1 DEF IdsInTurn
  <2> QED
    BY <1>a, <2>1, <2>5, <2>8, <2>9 DEF ApiInv, IdentitiesUnique, TokensTrue
<1>9. CASE UNCHANGED vars
  BY <1>a, <1>9 DEF vars, database, request, ApiInv, TypeOK, IdsInTurn, IdentitiesUnique,
     TokensTrue, ClientsKnown, TargetsOwned, UsersKnown, OnlyOwnersWrite
<1>10. ASSUME NEW r \in Requests, NEW i \in Identities, MissUser(r, i) PROVE ApiInv'
  BY <1>3, <1>10 DEF MissUser
<1>11. ASSUME NEW r \in Requests, RejectUser(r) \/ Fail(r) PROVE ApiInv'
  BY <1>2, <1>11 DEF RejectUser, Fail
<1> QED
  BY <1>1, <1>4, <1>5, <1>6, <1>7, <1>8, <1>9, <1>10, <1>11 DEF Next, Login, Create, Change

(* What a user has and what its requests that were let through will add.   *)
InsertingOf(u) == {r \in Requests : pc[r] = "insertRow" /\ user[r] = u}
QuotaInv ==
    \A u \in UserIds : Cardinality(RowsOf(u)) + Cardinality(InsertingOf(u))
                          <= MAX_OBSERVATION_COUNT + Cardinality(Requests)

LEMMA CountsFinite ==
    ASSUME NEW u
    PROVE  /\ IsFiniteSet(RowsOf(u)) /\ Cardinality(RowsOf(u)) \in Nat
           /\ IsFiniteSet(InsertingOf(u)) /\ Cardinality(InsertingOf(u)) \in Nat
           /\ Cardinality(InsertingOf(u)) <= Cardinality(Requests)
           /\ Cardinality(Requests) \in Nat
<1>1. IsFiniteSet(RowIds)
  BY ApiAssumption, FS_Interval DEF RowIds
<1>2. IsFiniteSet(Requests)
  BY ApiAssumption
<1>3. RowsOf(u) \subseteq RowIds /\ InsertingOf(u) \subseteq Requests
  BY DEF RowsOf, InsertingOf
<1>4. IsFiniteSet(RowsOf(u)) /\ IsFiniteSet(InsertingOf(u))
      /\ Cardinality(InsertingOf(u)) <= Cardinality(Requests)
  BY <1>1, <1>2, <1>3, FS_Subset
<1> QED
  BY <1>2, <1>4, FS_CardinalityType

(* The same of the next state: the facts are about any state.              *)
LEMMA CountsFiniteNext ==
    ASSUME NEW u
    PROVE  /\ IsFiniteSet(RowsOf(u)') /\ Cardinality(RowsOf(u)') \in Nat
           /\ IsFiniteSet(InsertingOf(u)') /\ Cardinality(InsertingOf(u)') \in Nat
           /\ Cardinality(InsertingOf(u)') <= Cardinality(Requests)
<1>1. IsFiniteSet(RowIds)
  BY ApiAssumption, FS_Interval DEF RowIds
<1>2. IsFiniteSet(Requests)
  BY ApiAssumption
<1>3. RowsOf(u)' \subseteq RowIds /\ InsertingOf(u)' \subseteq Requests
  BY DEF RowsOf, InsertingOf
<1>4. IsFiniteSet(RowsOf(u)') /\ IsFiniteSet(InsertingOf(u)')
      /\ Cardinality(InsertingOf(u)') <= Cardinality(Requests)
  BY <1>1, <1>2, <1>3, FS_Subset
<1> QED
  BY <1>2, <1>4, FS_CardinalityType

LEMMA InitQuotaInv == Init => QuotaInv
<1> SUFFICES ASSUME Init, NEW u \in UserIds
             PROVE  Cardinality(RowsOf(u)) + Cardinality(InsertingOf(u))
                       <= MAX_OBSERVATION_COUNT + Cardinality(Requests)
  BY DEF QuotaInv
<1>1. RowsOf(u) = {}
  BY ApiAssumption DEF Init, RowsOf, UserIds, NoId
<1> QED
  BY <1>1, CountsFinite, FS_EmptySet, ApiAssumption

(* A step that gives a user no row and lets none of its requests through   *)
(* keeps the bound.                                                        *)
LEMMA NoMoreKeepsQuota ==
    ASSUME NEW u \in UserIds, QuotaInv,
           RowsOf(u)' \subseteq RowsOf(u), InsertingOf(u)' \subseteq InsertingOf(u)
    PROVE  Cardinality(RowsOf(u)') + Cardinality(InsertingOf(u)')
              <= MAX_OBSERVATION_COUNT + Cardinality(Requests)
<1>1. /\ Cardinality(RowsOf(u)') <= Cardinality(RowsOf(u))
      /\ Cardinality(InsertingOf(u)') <= Cardinality(InsertingOf(u))
  BY CountsFinite, FS_Subset
<1> QED
  BY <1>1, CountsFinite, CountsFiniteNext, ApiAssumption DEF QuotaInv

LEMMA StepQuotaInv == ApiInv /\ QuotaInv /\ [Next]_vars => QuotaInv'
<1> SUFFICES ASSUME ApiInv, QuotaInv, [Next]_vars, NEW u \in UserIds
             PROVE  Cardinality(RowsOf(u)') + Cardinality(InsertingOf(u)')
                       <= MAX_OBSERVATION_COUNT + Cardinality(Requests)
  BY DEF QuotaInv
<1>a. TypeOK /\ IdsInTurn /\ TargetsOwned /\ UsersKnown
  BY DEF ApiInv
<1>b. lastRow \in 0..MaxRows /\ MaxRows \in Nat /\ MAX_OBSERVATION_COUNT \in Nat
  BY <1>a, ApiAssumption DEF TypeOK
<1>1. ASSUME NEW r \in Requests, NEW p \in {"idle", "insertUser", "write", "remove"},
             NEW i \in Identities \cup {NoIdentity}, NEW v \in UserIds \cup {NoId},
             NEW o \in RowIds \cup {NoId}, GoesOn(r, p, i, v, o),
             \A x \in RowIds : owner'[x] \in {owner[x], NoId}
      PROVE  Cardinality(RowsOf(u)') + Cardinality(InsertingOf(u)')
                <= MAX_OBSERVATION_COUNT + Cardinality(Requests)
  <2>1. RowsOf(u)' \subseteq RowsOf(u)
    BY <1>1, ApiAssumption DEF UserIds, NoId, RowsOf
  <2>2. /\ pc'[r] = p
        /\ \A q \in Requests \ {r} : pc'[q] = pc[q] /\ user'[q] = user[q]
    BY <1>a, <1>1 DEF GoesOn, TypeOK
  <2>3. InsertingOf(u)' \subseteq InsertingOf(u)
    BY <2>2 DEF InsertingOf
  <2> QED
    BY <2>1, <2>3, NoMoreKeepsQuota
<1>2. ASSUME NEW r \in Requests, CountObservations(r)
      PROVE  Cardinality(RowsOf(u)') + Cardinality(InsertingOf(u)')
                <= MAX_OBSERVATION_COUNT + Cardinality(Requests)
  <2>1. PICK t \in tokens : /\ Cardinality(RowsOf(t[2])) <= MAX_OBSERVATION_COUNT
                            /\ GoesOn(r, "insertRow", NoIdentity, t[2], NoId)
    BY <1>2 DEF CountObservations
  <2>2. owner' = owner
    BY <1>2 DEF CountObservations, database
  <2>3. RowsOf(u)' = RowsOf(u)
    BY <2>2 DEF RowsOf
  <2>4. /\ user'[r] = t[2]
        /\ \A q \in Requests \ {r} : pc'[q] = pc[q] /\ user'[q] = user[q]
    BY <1>a, <2>1 DEF GoesOn, TypeOK
  <2>5. CASE t[2] = u
    BY <1>b, <2>1, <2>3, <2>5, CountsFinite, CountsFiniteNext
  <2>6. CASE t[2] # u
    <3>1. InsertingOf(u)' \subseteq InsertingOf(u)
      BY <2>4, <2>6 DEF InsertingOf
    <3> QED
      BY <2>3, <3>1, NoMoreKeepsQuota
  <2> QED
    BY <2>5, <2>6
<1>3. ASSUME NEW r \in Requests, InsertRow(r)
      PROVE  Cardinality(RowsOf(u)') + Cardinality(InsertingOf(u)')
                <= MAX_OBSERVATION_COUNT + Cardinality(Requests)
  <2> DEFINE id == lastRow + 1
  <2>1. /\ pc[r] = "insertRow" /\ id \in RowIds /\ Answered(r)
        /\ owner' = [owner EXCEPT ![id] = user[r]]
    BY <1>b, <1>3 DEF InsertRow, RowIds
  <2>2. /\ pc'[r] = "idle"
        /\ \A q \in Requests \ {r} : pc'[q] = pc[q] /\ user'[q] = user[q]
    BY <1>a, <2>1 DEF Answered, GoesOn, TypeOK
  <2>3. owner[id] = NoId
    BY <1>a, <1>b, <2>1 DEF IdsInTurn
  <2>4. owner' \in [RowIds -> UserIds \cup {NoId}] /\ owner'[id] = user[r]
        /\ \A x \in RowIds \ {id} : owner'[x] = owner[x]
    BY <1>a, <2>1 DEF TypeOK
  <2>5. CASE user[r] = u
    <3>1. id \notin RowsOf(u)
      BY <2>3, ApiAssumption DEF UserIds, NoId, RowsOf
    <3>2. RowsOf(u)' = RowsOf(u) \cup {id}
      BY <2>1, <2>4, <2>5 DEF RowsOf
    <3>3. Cardinality(RowsOf(u)') = Cardinality(RowsOf(u)) + 1
      BY <3>1, <3>2, CountsFinite, FS_AddElement
    <3>4. InsertingOf(u)' = InsertingOf(u) \ {r} /\ r \in InsertingOf(u)
      BY <2>1, <2>2, <2>5 DEF InsertingOf
    <3>5. Cardinality(InsertingOf(u)') = Cardinality(InsertingOf(u)) - 1
      BY <3>4, CountsFinite, FS_RemoveElement
    <3> QED
      BY <1>b, <3>3, <3>5, CountsFinite, CountsFiniteNext DEF QuotaInv
  <2>6. CASE user[r] # u
    <3>1. RowsOf(u)' \subseteq RowsOf(u)
      BY <2>4, <2>6 DEF RowsOf
    <3>2. InsertingOf(u)' \subseteq InsertingOf(u)
      BY <2>2 DEF InsertingOf
    <3> QED
      BY <3>1, <3>2, NoMoreKeepsQuota
  <2> QED
    BY <2>5, <2>6
<1>4. ASSUME UNCHANGED <<database, request>>
      PROVE  Cardinality(RowsOf(u)') + Cardinality(InsertingOf(u)')
                <= MAX_OBSERVATION_COUNT + Cardinality(Requests)
  BY <1>4, NoMoreKeepsQuota DEF database, request, RowsOf, InsertingOf
<1>5. ASSUME NEW r \in Requests, Answered(r), owner' = owner
      PROVE  Cardinality(RowsOf(u)') + Cardinality(InsertingOf(u)')
                <= MAX_OBSERVATION_COUNT + Cardinality(Requests)
  BY <1>1, <1>5 DEF Answered
<1>6. ASSUME NEW r \in Requests, WriteRow(r) \/ RemoveRow(r)
      PROVE  Cardinality(RowsOf(u)') + Cardinality(InsertingOf(u)')
                <= MAX_OBSERVATION_COUNT + Cardinality(Requests)
  <2>1. owner' = owner \/ owner' = [owner EXCEPT ![target[r]] = NoId]
    BY <1>6 DEF WriteRow, RemoveRow
  <2>2. \A x \in RowIds : owner'[x] \in {owner[x], NoId}
    BY <1>a, <2>1 DEF TypeOK
  <2> QED
    BY <1>1, <1>6, <2>2 DEF WriteRow, RemoveRow, Answered
<1>7. ASSUME NEW r \in Requests, NEW i \in Identities, FindUser(r, i) \/ MissUser(r, i)
      PROVE  Cardinality(RowsOf(u)') + Cardinality(InsertingOf(u)')
                <= MAX_OBSERVATION_COUNT + Cardinality(Requests)
  <2>1. CASE FindUser(r, i)
    BY <1>4, <2>1 DEF FindUser
  <2>2. CASE MissUser(r, i)
    <3>1. owner' = owner /\ GoesOn(r, "insertUser", i, NoId, NoId)
      BY <2>2 DEF MissUser, database
    <3> QED
      BY <1>1, <3>1
  <2> QED
    BY <1>7, <2>1, <2>2
<1>8. ASSUME NEW r \in Requests, NEW step \in {"write", "remove"}, FindRow(r, step)
      PROVE  Cardinality(RowsOf(u)') + Cardinality(InsertingOf(u)')
                <= MAX_OBSERVATION_COUNT + Cardinality(Requests)
  <2>1. PICK t \in tokens, o \in RowIds : GoesOn(r, step, NoIdentity, t[2], o)
    BY <1>8 DEF FindRow
  <2>2. owner' = owner /\ t[2] \in UserIds
    BY <1>a, <1>8 DEF FindRow, database, TypeOK
  <2> QED
    BY <1>1, <2>1, <2>2
<1>9. ASSUME NEW r \in Requests, InsertUser(r) \/ RejectUser(r) \/ Fail(r)
      PROVE  Cardinality(RowsOf(u)') + Cardinality(InsertingOf(u)')
                <= MAX_OBSERVATION_COUNT + Cardinality(Requests)
  BY <1>5, <1>9 DEF InsertUser, RejectUser, Fail, database
<1> QED
  BY <1>2, <1>3, <1>4, <1>6, <1>7, <1>8, <1>9 DEF Next, Login, Create, Change, vars

(* The rows of an identity are rows of one user.                           *)
LEMMA QuotaFromUsers == ApiInv /\ QuotaInv => QuotaBound
<1> SUFFICES ASSUME ApiInv, QuotaInv, NEW i \in Identities
             PROVE  Cardinality(Owned(i)) <= MAX_OBSERVATION_COUNT + Cardinality(Requests)
  BY DEF QuotaBound
<1>1. CASE Owned(i) = {}
  BY <1>1, CountsFinite, FS_EmptySet, ApiAssumption
<1>2. CASE Owned(i) # {}
  <2>1. PICK o \in RowIds : owner[o] # NoId /\ identity[owner[o]] = i
    BY <1>2 DEF Owned
  <2> DEFINE u == owner[o]
  <2>2. u \in UserIds /\ i # NoIdentity
    BY <2>1, ApiAssumption DEF ApiInv, TypeOK
  <2>3. Owned(i) \subseteq RowsOf(u)
    BY <2>1, <2>2 DEF Owned, RowsOf, ApiInv, TypeOK, IdentitiesUnique
  <2>4. Cardinality(Owned(i)) <= Cardinality(RowsOf(u)) /\ Cardinality(Owned(i)) \in Nat
    BY <2>3, CountsFinite, FS_Subset, FS_CardinalityType
  <2> QED
    BY <2>2, <2>4, CountsFinite, ApiAssumption DEF QuotaInv
<1> QED
  BY <1>1, <1>2

LEMMA TokensNameOne == ApiInv => OneUserPerIdentity
  BY ApiAssumption DEF ApiInv, TypeOK, TokensTrue, IdentitiesUnique, OneUserPerIdentity

(* A step never gives a row that was inserted to another user.             *)
LEMMA StepKeepsOwners ==
    ApiInv /\ [Next]_vars => \A o \in 1..lastRow : owner'[o] \in {owner[o], NoId}
<1> SUFFICES ASSUME ApiInv, [Next]_vars, NEW o \in 1..lastRow
             PROVE  owner'[o] \in {owner[o], NoId}
  OBVIOUS
<1>1. owner \in [RowIds -> UserIds \cup {NoId}] /\ lastRow \in 0..MaxRows /\ MaxRows \in Nat
  BY ApiAssumption DEF ApiInv, TypeOK
<1>2. o \in RowIds /\ o # lastRow + 1
  BY <1>1 DEF RowIds
<1>3. \/ owner' = owner
      \/ \E r \in Requests : owner' = [owner EXCEPT ![lastRow + 1] = user[r]]
      \/ \E r \in Requests : owner' = [owner EXCEPT ![target[r]] = NoId]
  BY DEF Next, Login, Create, Change, FindUser, MissUser, InsertUser, RejectUser,
     CountObservations, InsertRow, FindRow, WriteRow, RemoveRow, Fail, vars, database
<1> QED
  BY <1>1, <1>2, <1>3

-----------------------------------------------------------------------------
(* Whoever has a row, or a request that will insert one, is a user that    *)
(* was inserted, with an identity.                                         *)
UsersExist ==
    /\ \A u \in 1..lastUser : identity[u] \in Identities
    /\ \A o \in RowIds : owner[o] # NoId => owner[o] \in 1..lastUser
    /\ \A r \in Requests : pc[r] = "insertRow" => user[r] \in 1..lastUser

LEMMA InitUsersExist == Init => UsersExist
  BY DEF Init, UsersExist

LEMMA StepUsersExist == ApiInv /\ UsersExist /\ [Next]_vars => UsersExist'
<1> SUFFICES ASSUME ApiInv, UsersExist, [Next]_vars PROVE UsersExist'
  OBVIOUS
<1>a. /\ TypeOK /\ TokensTrue /\ ClientsKnown
      /\ lastUser \in Nat /\ lastRow \in Nat /\ MaxUsers \in Nat
  BY ApiAssumption DEF ApiInv, TypeOK
<1>1. ASSUME NEW r \in Requests, NEW p, NEW i, NEW u, NEW o, GoesOn(r, p, i, u, o),
             UNCHANGED <<identity, lastUser>>,
             \A x \in RowIds : owner'[x] # NoId => owner'[x] \in 1..lastUser,
             p = "insertRow" => u \in 1..lastUser
      PROVE  UsersExist'
  <2>1. /\ pc'[r] = p /\ user'[r] = u
        /\ \A q \in Requests \ {r} : pc'[q] = pc[q] /\ user'[q] = user[q]
    BY <1>a, <1>1 DEF GoesOn, TypeOK
  <2>2. ASSUME NEW q \in Requests, pc'[q] = "insertRow" PROVE user'[q] \in 1..lastUser
    <3>1. CASE q = r
      BY <1>1, <2>1, <2>2, <3>1
    <3>2. CASE q # r
      BY <2>1, <2>2, <3>2 DEF UsersExist
    <3> QED
      BY <3>1, <3>2
  <2> QED
    BY <1>1, <2>2 DEF UsersExist
<1>2. ASSUME NEW r \in Requests, InsertUser(r) PROVE UsersExist'
  <2> DEFINE id == lastUser + 1
  <2>1. /\ pc[r] = "insertUser" /\ client[r] \in Identities /\ id \in UserIds
        /\ identity' = [identity EXCEPT ![id] = client[r]] /\ lastUser' = id
        /\ owner' = owner /\ Answered(r)
    BY <1>a, <1>2 DEF InsertUser, ClientsKnown, UserIds
  <2>2. \A u \in 1..id : identity'[u] \in Identities
    <3>1. identity'[id] = client[r] /\ \A u \in 1..lastUser : identity'[u] = identity[u]
      BY <1>a, <2>1 DEF TypeOK, UserIds
    <3> QED
      BY <1>a, <2>1, <3>1 DEF UsersExist
  <2>3. /\ pc'[r] = "idle"
        /\ \A q \in Requests \ {r} : pc'[q] = pc[q] /\ user'[q] = user[q]
    BY <1>a, <2>1 DEF Answered, GoesOn, TypeOK
  <2>4. 1..lastUser \subseteq 1..id
    BY <1>a
  <2>5. \A o \in RowIds : owner'[o] # NoId => owner'[o] \in 1..id
    BY <2>1, <2>4 DEF UsersExist
  <2>6. \A q \in Requests : pc'[q] = "insertRow" => user'[q] \in 1..id
    BY <2>3, <2>4 DEF UsersExist
  <2> QED
    BY <2>1, <2>2, <2>5, <2>6 DEF UsersExist
<1>3. ASSUME NEW r \in Requests, InsertRow(r) PROVE UsersExist'
  <2>1. /\ owner' = [owner EXCEPT ![lastRow + 1] = user[r]] /\ user[r] \in 1..lastUser
        /\ UNCHANGED <<identity, lastUser>> /\ GoesOn(r, "idle", NoIdentity, NoId, NoId)
    BY <1>3 DEF InsertRow, UsersExist, Answered
  <2>2. \A x \in RowIds : owner'[x] \in {owner[x], user[r]}
    BY <1>a, <2>1 DEF TypeOK
  <2>3. \A x \in RowIds : owner'[x] # NoId => owner'[x] \in 1..lastUser
    BY <2>1, <2>2 DEF UsersExist
  <2> QED
    BY <1>1, <2>1, <2>3
<1>4. ASSUME NEW r \in Requests, WriteRow(r) \/ RemoveRow(r) PROVE UsersExist'
  <2>1. /\ owner' = owner \/ owner' = [owner EXCEPT ![target[r]] = NoId]
        /\ UNCHANGED <<identity, lastUser>> /\ GoesOn(r, "idle", NoIdentity, NoId, NoId)
    BY <1>4 DEF WriteRow, RemoveRow, Answered
  <2>2. \A x \in RowIds : owner'[x] \in {owner[x], NoId}
    BY <1>a, <2>1 DEF TypeOK
  <2>3. \A x \in RowIds : owner'[x] # NoId => owner'[x] \in 1..lastUser
    BY <2>2 DEF UsersExist
  <2> QED
    BY <1>1, <2>1, <2>3
<1>5. ASSUME NEW r \in Requests, RejectUser(r) \/ Fail(r) PROVE UsersExist'
  <2>1. UNCHANGED database /\ GoesOn(r, "idle", NoIdentity, NoId, NoId)
    BY <1>5 DEF RejectUser, Fail, Answered
  <2> QED
    BY <1>1, <2>1 DEF database, UsersExist
<1>6. ASSUME NEW r \in Requests, NEW i \in Identities, MissUser(r, i) PROVE UsersExist'
  <2>1. UNCHANGED database /\ GoesOn(r, "insertUser", i, NoId, NoId)
    BY <1>6 DEF MissUser
  <2> QED
    BY <1>1, <2>1 DEF database, UsersExist
<1>7. ASSUME NEW r \in Requests, CountObservations(r) PROVE UsersExist'
  <2>1. UNCHANGED database
    BY <1>7 DEF CountObservations
  <2>2. PICK t \in tokens : GoesOn(r, "insertRow", NoIdentity, t[2], NoId)
    BY <1>7 DEF CountObservations
  <2>3. t[2] \in 1..lastUser
    BY <1>a DEF TokensTrue, TypeOK, UserIds
  <2> QED
    BY <1>1, <2>1, <2>2, <2>3 DEF database, UsersExist
<1>8. ASSUME NEW r \in Requests, NEW step \in {"write", "remove"}, FindRow(r, step)
      PROVE  UsersExist'
  <2>1. UNCHANGED database
    BY <1>8 DEF FindRow
  <2>2. PICK t \in tokens, o \in RowIds : GoesOn(r, step, NoIdentity, t[2], o)
    BY <1>8 DEF FindRow
  <2> QED
    BY <1>1, <2>1, <2>2 DEF database, UsersExist
<1>9. CASE UNCHANGED <<database, request>>
  BY <1>9 DEF database, request, UsersExist
<1> QED
  BY <1>2, <1>3, <1>4, <1>5, <1>6, <1>7, <1>8, <1>9
     DEF Next, Login, Create, Change, FindUser, vars

(* Overlapping requests do to the registry what one of them at a time does.*)
LEMMA InitRegistry == Init => Registry!Init
<1> SUFFICES ASSUME Init PROVE Registry!Init
  OBVIOUS
<1>1. Known = {}
  BY DEF Init, Known
<1>2. Holder = [o \in RowIds |-> NoIdentity]
  BY DEF Init, Holder
<1> QED
  BY <1>1, <1>2 DEF Init, Registry!Init, Registry!RowIds, RowIds, Registry!NoIdentity, NoIdentity

LEMMA InsertUserRegisters ==
    ASSUME ApiInv, UsersExist, NEW r \in Requests, InsertUser(r)
    PROVE  Registry!Register(client[r]) /\ client[r] \in Identities
<1> DEFINE i == client[r]
           id == lastUser + 1
<1>1. /\ UsersOf(i) = {} /\ id \in UserIds /\ i \in Identities
      /\ identity' = [identity EXCEPT ![id] = i] /\ lastUser' = id
      /\ owner' = owner /\ lastRow' = lastRow /\ lastUser \in Nat
      /\ identity \in [UserIds -> Identities \cup {NoIdentity}]
  BY ApiAssumption DEF ApiInv, TypeOK, ClientsKnown, InsertUser, UserIds
<1>2. /\ \A u \in 1..id : u \in 1..lastUser \/ u = id
      /\ id \in 1..id /\ 1..lastUser \subseteq 1..id
      /\ id \notin 1..lastUser /\ 1..lastUser \subseteq UserIds
  BY <1>1, ApiAssumption DEF UserIds
<1>3. /\ identity'[id] = i
      /\ \A u \in 1..lastUser : identity'[u] = identity[u]
  BY <1>1, <1>2
<1>4. i \notin Known
  BY <1>1 DEF UsersOf, Known
<1>5. Known' = Known \cup {i}
  BY <1>1, <1>2, <1>3 DEF Known
<1>6. \A o \in RowIds : owner[o] # NoId => identity'[owner[o]] = identity[owner[o]]
  BY <1>3 DEF UsersExist
<1>7. Holder' = Holder
  BY <1>1, <1>6 DEF Holder
<1> QED
  BY <1>1, <1>4, <1>5, <1>7 DEF Registry!Register

LEMMA InsertRowCreates ==
    ASSUME ApiInv, UsersExist, QuotaInv, NEW r \in Requests, InsertRow(r)
    PROVE  \E i \in Identities : Registry!Create(i)
<1> DEFINE u == user[r]
           i == identity[u]
           id == lastRow + 1
<1>1. /\ pc[r] = "insertRow" /\ id \in RowIds /\ lastRow < MaxRows
      /\ owner' = [owner EXCEPT ![id] = u] /\ lastRow' = id
      /\ identity' = identity /\ lastUser' = lastUser
      /\ owner \in [RowIds -> UserIds \cup {NoId}]
      /\ MAX_OBSERVATION_COUNT \in Nat /\ lastUser \in Nat /\ lastUser <= MaxUsers
  BY ApiAssumption DEF ApiInv, TypeOK, InsertRow, RowIds
<1>2. u \in 1..lastUser /\ i \in Identities /\ i \in Known /\ u \in UserIds /\ u # NoId
  BY <1>1, ApiAssumption DEF UsersExist, Known, UserIds, NoId
<1>3. Registry!Holds(i) \subseteq RowsOf(u)
  <2> SUFFICES ASSUME NEW o \in RowIds, Holder[o] = i PROVE owner[o] = u
    BY DEF Registry!Holds, Registry!RowIds, RowIds, RowsOf
  <2>1. owner[o] # NoId /\ identity[owner[o]] = i /\ i # NoIdentity
    BY <1>2, ApiAssumption DEF Holder
  <2>2. owner[o] \in UserIds
    BY <1>1, <2>1
  <2> QED
    BY <1>2, <2>1, <2>2 DEF ApiInv, IdentitiesUnique
<1>4. Cardinality(Registry!Holds(i)) <= Cardinality(RowsOf(u))
      /\ Cardinality(Registry!Holds(i)) \in Nat
  BY <1>3, CountsFinite, FS_Subset, FS_CardinalityType
<1>5. Cardinality(InsertingOf(u)) # 0
  <2>1. r \in InsertingOf(u)
    BY <1>1 DEF InsertingOf
  <2> QED
    BY <2>1, CountsFinite, FS_EmptySet
<1>6. Cardinality(Registry!Holds(i)) < MAX_OBSERVATION_COUNT + Cardinality(Requests)
  BY <1>1, <1>2, <1>4, <1>5, CountsFinite DEF QuotaInv
<1>7. Known' = Known
  BY <1>1 DEF Known
<1>8. Holder' = [Holder EXCEPT ![id] = i]
  BY <1>1, <1>2 DEF Holder
<1>9. Registry!Cardinality(Registry!Holds(i)) = Cardinality(Registry!Holds(i))
  BY Zenon DEF Registry!Cardinality, Cardinality
<1>10. Registry!Create(i)
  BY <1>1, <1>2, <1>6, <1>7, <1>8, <1>9 DEF Registry!Create
<1> QED
  BY <1>2, <1>10

LEMMA RemoveRowDeletes ==
    ASSUME ApiInv, NEW r \in Requests, RemoveRow(r)
    PROVE  \E o \in Registry!RowIds : Registry!Delete(o)
<1> DEFINE o == target[r]
<1>1. /\ owner' = [owner EXCEPT ![o] = NoId] /\ lastRow' = lastRow
      /\ identity' = identity /\ lastUser' = lastUser
      /\ owner \in [RowIds -> UserIds \cup {NoId}]
  BY DEF ApiInv, TypeOK, RemoveRow
<1>2. o \in RowIds
  BY ApiAssumption DEF ApiInv, TypeOK, RemoveRow, TargetsOwned, RowIds
<1>3. Known' = Known
  BY <1>1 DEF Known
<1>4. Holder' = [Holder EXCEPT ![o] = NoIdentity]
  BY <1>1, <1>2 DEF Holder
<1>5. Registry!Delete(o)
  BY <1>1, <1>3, <1>4 DEF Registry!Delete, Registry!NoIdentity, NoIdentity
<1> QED
  BY <1>2, <1>5 DEF Registry!RowIds, RowIds

LEMMA StepRegistry ==
    ApiInv /\ UsersExist /\ QuotaInv /\ [Next]_vars => [Registry!Next]_(Registry!vars)
<1> SUFFICES ASSUME ApiInv, UsersExist, QuotaInv, [Next]_vars
             PROVE  [Registry!Next]_(Registry!vars)
  OBVIOUS
<1>1. ASSUME UNCHANGED <<identity, lastUser, owner, lastRow>> PROVE UNCHANGED Registry!vars
  BY <1>1 DEF Registry!vars, Known, Holder
<1>2. ASSUME NEW r \in Requests, InsertUser(r) PROVE Registry!Next
  BY <1>2, InsertUserRegisters DEF Registry!Next
<1>3. ASSUME NEW r \in Requests, InsertRow(r) PROVE Registry!Next
  BY <1>3, InsertRowCreates DEF Registry!Next
<1>4. ASSUME NEW r \in Requests, RemoveRow(r) PROVE Registry!Next
  BY <1>4, RemoveRowDeletes DEF Registry!Next
<1>5. ASSUME NEW r \in Requests, NEW i \in Identities, FindUser(r, i) \/ MissUser(r, i)
      PROVE  UNCHANGED Registry!vars
  BY <1>1, <1>5 DEF FindUser, MissUser, database
<1>6. ASSUME NEW r \in Requests,
             \/ RejectUser(r) \/ CountObservations(r) \/ WriteRow(r) \/ Fail(r)
             \/ \E step \in {"write", "remove"} : FindRow(r, step)
      PROVE  UNCHANGED Registry!vars
  BY <1>1, <1>6 DEF RejectUser, CountObservations, FindRow, WriteRow, Fail, database
<1>7. CASE UNCHANGED vars
  BY <1>1, <1>7 DEF vars, database
<1> QED
  BY <1>2, <1>3, <1>4, <1>5, <1>6, <1>7 DEF Next, Login, Create, Change

-----------------------------------------------------------------------------
LEMMA InvAlways == Spec => [](ApiInv /\ QuotaInv)
<1>1. Init => ApiInv /\ QuotaInv
  BY InitApiInv, InitQuotaInv
<1>2. (ApiInv /\ QuotaInv) /\ [Next]_vars => (ApiInv /\ QuotaInv)'
  BY StepApiInv, StepQuotaInv
<1> QED
  BY <1>1, <1>2, PTL DEF Spec

(* The API's variables keep their types.                                   *)
THEOREM TypeCorrect == Spec => []TypeOK
<1>1. ApiInv => TypeOK
  BY DEF ApiInv
<1> QED
  BY <1>1, InvAlways, PTL

(* However many first logins of an identity overlap, and whichever of them *)
(* the index rejects, its tokens all name one user                         *)
(* (TelegramLoginController._getOrCreateUser).                             *)
THEOREM OneUserPerIdentityAlways == Spec => []OneUserPerIdentity
  BY TokensNameOne, InvAlways, PTL

(* However many creations overlap, an identity has at most its limit and   *)
(* one observation more for each of them (ObservationController.create).   *)
THEOREM QuotaBoundAlways == Spec => []QuotaBound
  BY QuotaFromUsers, InvAlways, PTL

(* What an observation says was written by its owner, whatever happened    *)
(* between the check and the write (ObservationController.update, delete). *)
THEOREM OnlyOwnersWriteAlways == Spec => []OnlyOwnersWrite
<1>1. ApiInv => OnlyOwnersWrite
  BY DEF ApiInv
<1> QED
  BY <1>1, InvAlways, PTL

(* An observation stays its owner's until it is deleted, for good.         *)
THEOREM DeletedStaysDeletedAlways == Spec => DeletedStaysDeleted
<1>1. ApiInv /\ [Next]_vars => [\A o \in 1..lastRow : owner'[o] \in {owner[o], NoId}]_vars
  BY StepKeepsOwners
<1> QED
  BY <1>1, InvAlways, PTL DEF Spec, DeletedStaysDeleted

(* The API implements the registry of users and observations, in which a   *)
(* request is done at once: logins register an identity once, creations    *)
(* stay within a quota, deletions take one row, and nothing else changes   *)
(* who has what.                                                           *)
THEOREM ImplementsRegistry == Spec => ObservationRegistrySpec
<1>1. Init => UsersExist
  BY InitUsersExist
<1>2. (ApiInv /\ QuotaInv) /\ UsersExist /\ [Next]_vars => UsersExist'
  BY StepUsersExist
<1>3. (ApiInv /\ QuotaInv) /\ UsersExist /\ [Next]_vars => [Registry!Next]_(Registry!vars)
  BY StepRegistry
<1> QED
  BY <1>1, <1>2, <1>3, InitRegistry, InvAlways, PTL DEF Spec, ObservationRegistrySpec, Registry!Spec
=============================================================================
