------------------------------ MODULE WatchdogApi ------------------------------
(***************************************************************************)
(* The API of the watchdog: clients log in with an identity their channel  *)
(* (Discord, Telegram) vouches for, and with the token they get create,    *)
(* update and delete observations.  Requests overlap: Node.js runs one     *)
(* handler until it awaits the database, then another.  Each handler reads *)
(* before it writes - it looks the user up, counts the observations,       *)
(* checks who owns a row - and what it read may be out of date when it     *)
(* writes.                                                                 *)
(*                                                                         *)
(* A request's entity manager is taken to be its own: what it reads comes  *)
(* from the database.  Tokens are not taken to expire.                     *)
(***************************************************************************)
EXTENDS Integers, FiniteSets

CONSTANTS
    Requests,               \* requests that may be under way at once
    Identities,             \* pairs of msgChannel and msgUserId
    MAX_OBSERVATION_COUNT,  \* User.MAX_OBSERVATION_COUNT
    MaxUsers,               \* bound: rows ever inserted into watchdog_user
    MaxRows                 \* bound: observations ever inserted

NoIdentity == "none"

ASSUME ApiAssumption ==
    /\ IsFiniteSet(Requests)
    /\ NoIdentity \notin Identities
    /\ MAX_OBSERVATION_COUNT \in Nat
    /\ MaxUsers \in Nat
    /\ MaxRows \in Nat

UserIds == 1..MaxUsers
RowIds == 1..MaxRows
NoId == 0                               \* of a row that does not exist
VARIABLES
    identity,           \* database: the identity of each user's row
    lastUser,           \* database: the last id of a user
    owner,              \* database: the user of each observation's row
    lastRow,            \* database: the last id of an observation
    writer,             \* database: whose request wrote the row's columns last
    tokens,             \* clients: the tokens they hold, with the user's id
    pc,                 \* what each request does next
    client,             \* the identity that logs in with the request
    user,               \* the user the request is authorized as
    target              \* the observation it is about

database == <<identity, lastUser, owner, lastRow, writer>>
request == <<pc, client, user, target>>
vars == <<database, tokens, request>>

TypeOK ==
    /\ identity \in [UserIds -> Identities \cup {NoIdentity}]
    /\ lastUser \in 0..MaxUsers
    /\ owner \in [RowIds -> UserIds \cup {NoId}]
    /\ lastRow \in 0..MaxRows
    /\ writer \in [RowIds -> UserIds \cup {NoId}]
    /\ tokens \subseteq Identities \X UserIds
    /\ pc \in [Requests -> {"idle", "insertUser", "insertRow", "write", "remove"}]
    /\ client \in [Requests -> Identities \cup {NoIdentity}]
    /\ user \in [Requests -> UserIds \cup {NoId}]
    /\ target \in [Requests -> RowIds \cup {NoId}]

Init ==
    /\ identity = [u \in UserIds |-> NoIdentity]
    /\ lastUser = 0
    /\ owner = [o \in RowIds |-> NoId]
    /\ lastRow = 0
    /\ writer = [o \in RowIds |-> NoId]
    /\ tokens = {}
    /\ pc = [r \in Requests |-> "idle"]
    /\ client = [r \in Requests |-> NoIdentity]
    /\ user = [r \in Requests |-> NoId]
    /\ target = [r \in Requests |-> NoId]

(* The request goes on with a step p, or is answered.  *)
GoesOn(r, p, i, u, o) ==
    /\ pc' = [pc EXCEPT ![r] = p]
    /\ client' = [client EXCEPT ![r] = i]
    /\ user' = [user EXCEPT ![r] = u]
    /\ target' = [target EXCEPT ![r] = o]

Answered(r) == GoesOn(r, "idle", NoIdentity, NoId, NoId)

-----------------------------------------------------------------------------
(* Login: the user's row is looked up by channel and id ...  *)
UsersOf(i) == {u \in 1..lastUser : identity[u] = i}

FindUser(r, i) ==
    /\ pc[r] = "idle"
    /\ \E u \in UsersOf(i) : tokens' = tokens \cup {<<i, u>>}
    /\ UNCHANGED <<database, request>>

(* As a mistake: the token is made before the row has its id.  *)
MissUserUnflushed(r, i) ==
    /\ pc[r] = "idle"
    /\ UsersOf(i) = {}
    /\ GoesOn(r, "insertUser", i, NoId, NoId)
    /\ tokens' = tokens \cup {<<i, NoId>>}
    /\ UNCHANGED database

MissUser(r, i) ==
    /\ pc[r] = "idle"
    /\ UsersOf(i) = {}
    /\ GoesOn(r, "insertUser", i, NoId, NoId)
    /\ UNCHANGED <<database, tokens>>

(* ... and inserted if it was not found.  The unique index on channel and  *)
(* user id rejects a second row.  As mistakes: no index; an index on the   *)
(* channel alone.                                                          *)
TakenNever(i) == FALSE
TakenChannel(i) == lastUser > 0
Taken(i) == UsersOf(i) # {}

InsertUser(r) ==
    LET i == client[r]
        id == lastUser + 1
    IN
    /\ pc[r] = "insertUser"
    /\ ~Taken(i)
    /\ id <= MaxUsers
    /\ identity' = [identity EXCEPT ![id] = i]
    /\ lastUser' = id
    /\ tokens' = tokens \cup {<<i, id>>}
    /\ Answered(r)
    /\ UNCHANGED <<owner, lastRow, writer>>

(* The handler catches the rejection and answers false.  *)
RejectUser(r) ==
    /\ pc[r] = "insertUser"
    /\ Taken(client[r])
    /\ Answered(r)
    /\ UNCHANGED <<database, tokens>>

-----------------------------------------------------------------------------
(* Create: the user's observations are loaded and counted.  As a mistake:  *)
(* the limit is only tested for one more.                                  *)
RowsOf(u) == {o \in RowIds : owner[o] = u}

WithinLimitOfLast(u) == Cardinality(RowsOf(u)) # MAX_OBSERVATION_COUNT + 1
WithinLimit(u) == Cardinality(RowsOf(u)) <= MAX_OBSERVATION_COUNT

(* Bound: no request is admitted whose row would be beyond MaxRows.  *)
Inserting == {r \in Requests : pc[r] = "insertRow"}

CountObservations(r) ==
    /\ pc[r] = "idle"
    /\ lastRow + Cardinality(Inserting) < MaxRows
    /\ \E t \in tokens :
         /\ WithinLimit(t[2])
         /\ GoesOn(r, "insertRow", NoIdentity, t[2], NoId)
    /\ UNCHANGED <<database, tokens>>

InsertRow(r) ==
    LET id == lastRow + 1 IN
    /\ pc[r] = "insertRow"
    /\ id <= MaxRows
    /\ owner' = [owner EXCEPT ![id] = user[r]]
    /\ writer' = [writer EXCEPT ![id] = user[r]]
    /\ lastRow' = id
    /\ Answered(r)
    /\ UNCHANGED <<identity, lastUser, tokens>>

-----------------------------------------------------------------------------
(* Update and delete: the row is found by its id, and its owner compared   *)
(* with the user of the token.  As a mistake: it is not.                   *)
OwnsAnything(u, o) == owner[o] # NoId
Owns(u, o) == owner[o] # NoId /\ owner[o] = u

FindRow(r, step) ==
    /\ pc[r] = "idle"
    /\ \E t \in tokens : \E o \in RowIds :
         /\ Owns(t[2], o)
         /\ GoesOn(r, step, NoIdentity, t[2], o)
    /\ UNCHANGED <<database, tokens>>

(* An UPDATE by id touches no row if the row is gone.  As a mistake: it    *)
(* would insert the row again.                                             *)
WriteRowUpsert(r) ==
    /\ pc[r] = "write"
    /\ owner' = [owner EXCEPT ![target[r]] = user[r]]
    /\ writer' = [writer EXCEPT ![target[r]] = user[r]]
    /\ Answered(r)
    /\ UNCHANGED <<identity, lastUser, lastRow, tokens>>

WriteRow(r) ==
    /\ pc[r] = "write"
    /\ writer' = IF owner[target[r]] = NoId THEN writer
                 ELSE [writer EXCEPT ![target[r]] = user[r]]
    /\ Answered(r)
    /\ UNCHANGED <<identity, lastUser, owner, lastRow, tokens>>

(* As a mistake: all of the user's rows are removed.                       *)
RemoveRowsOfUser(r) ==
    LET gone == RowsOf(user[r]) IN
    /\ pc[r] = "remove"
    /\ owner' = [o \in RowIds |-> IF o \in gone THEN NoId ELSE owner[o]]
    /\ writer' = [o \in RowIds |-> IF o \in gone THEN NoId ELSE writer[o]]
    /\ Answered(r)
    /\ UNCHANGED <<identity, lastUser, lastRow, tokens>>

RemoveRow(r) ==
    LET o == target[r] IN
    /\ pc[r] = "remove"
    /\ owner' = [owner EXCEPT ![o] = NoId]
    /\ writer' = [writer EXCEPT ![o] = NoId]
    /\ Answered(r)
    /\ UNCHANGED <<identity, lastUser, lastRow, tokens>>

(* The database, the chain or the process fails the request.  *)
Fail(r) ==
    /\ pc[r] # "idle"
    /\ Answered(r)
    /\ UNCHANGED <<database, tokens>>

Login(r) ==
    \/ \E i \in Identities : FindUser(r, i) \/ MissUser(r, i)
    \/ InsertUser(r)
    \/ RejectUser(r)

Create(r) == CountObservations(r) \/ InsertRow(r)

Change(r) ==
    \/ \E step \in {"write", "remove"} : FindRow(r, step)
    \/ WriteRow(r)
    \/ RemoveRow(r)

Next == \E r \in Requests : Login(r) \/ Create(r) \/ Change(r) \/ Fail(r)

Spec == Init /\ [][Next]_vars

(* A client logs in again and again, and not every request fails; a        *)
(* request that is under way is answered.                                  *)
FairSpec ==
    /\ Spec
    /\ \A i \in Identities :
         /\ SF_vars(\E r \in Requests : FindUser(r, i))
         /\ SF_vars(\E r \in Requests : MissUser(r, i))
         /\ SF_vars(\E r \in Requests : client[r] = i /\ InsertUser(r))
    /\ \A r \in Requests : WF_vars(pc[r] # "idle" /\ (Login(r) \/ Create(r) \/ Change(r)))

-----------------------------------------------------------------------------
(* Whatever first logins overlap, all tokens of an identity name the same  *)
(* user: a client never finds itself without its observations.             *)
OneUserPerIdentity ==
    \A s, t \in tokens : s[1] = t[1] => s[2] = t[2]

(* What an identity can have, over all users it may be: the limit, and one *)
(* more for each request that counts before another has inserted - at      *)
(* least one, as the count is compared with > (ObservationController.ts:54).*)
Owned(i) == {o \in RowIds : owner[o] # NoId /\ identity[owner[o]] = i}
QuotaBound ==
    \A i \in Identities :
        Cardinality(Owned(i)) <= MAX_OBSERVATION_COUNT + Cardinality(Requests)

(* The columns of a row were last written by a request of its owner,       *)
(* though the owner is checked when the row is read, and not when it is    *)
(* written.                                                                *)
OnlyOwnersWrite == \A o \in RowIds : writer[o] = owner[o]

(* An observation never changes hands, and a deleted one never comes back: *)
(* not by an update that read it before.                                   *)
DeletedStaysDeleted ==
    [][\A o \in 1..lastRow : owner'[o] \in {owner[o], NoId}]_vars

(* Requests that overlap and write what they read before amount to ones    *)
(* that are done at once, but for the quota, which is larger by one for    *)
(* each request.                                                           *)
Known == {identity[u] : u \in 1..lastUser}
Holder == [o \in RowIds |-> IF owner[o] = NoId THEN NoIdentity ELSE identity[owner[o]]]

Registry == INSTANCE ObservationRegistry
    WITH known <- Known, users <- lastUser, holder <- Holder,
         Quota <- MAX_OBSERVATION_COUNT + Cardinality(Requests)
ObservationRegistrySpec == Registry!Spec

(* A client that keeps trying gets in, whoever else inserts its user.  *)
GetsIn == \A i \in Identities : <>(\E u \in UserIds : <<i, u>> \in tokens)
=============================================================================
