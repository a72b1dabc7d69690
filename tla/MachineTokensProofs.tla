-------------------------- MODULE MachineTokensProofs --------------------------
(***************************************************************************)
(* Theorems about ReplayStore, MachineTokens and ResourceServer, for any   *)
(* number of calls, processes, keys, instants, machine keys, resources,    *)
(* scopes, signing keys, visits and marks.                                 *)
(***************************************************************************)
EXTENDS ResourceServer, SequenceTheorems, TLAPS

\* Inductive strengthening: no call works with a later time than the clock's, so
\* nothing it may delete is still valid, and every accepted proof that is still
\* valid has its marker.
MarkersKept ==
  /\ \A c \in Calls : calls[c].now <= clock
  /\ \A k \in Keys, e \in Instants : uses[k][e] > 0 /\ e > clock => markers[k] = e

\* Every step keeps the types.
LEMMA TypeStep ==
  ASSUME TypeOK, [Next]_vars
  PROVE  TypeOK'
<1> USE DEF TypeOK
<1>1. CASE UNCHANGED vars
  BY <1>1 DEF vars
<1>2. CASE Tick
  <2>1. clock + 1 \in Instants
    BY <1>2, NumbersAreNat DEF Tick, Instants
  <2> QED
    BY <1>2, <2>1 DEF Tick
<1>3. ASSUME NEW c \in Calls, Consume(c)
      PROVE  TypeOK'
  <2>1. PICK p \in Processes, k \in Keys, e \in Instants :
          LET due == clock - lastCleanup[p] > CleanupGap \/ lastCleanup[p] = Never
          IN /\ calls' = [calls EXCEPT ![c] = [NoCall EXCEPT !.key = k, !.expiresAt = e,
                            !.now = clock, !.pc = IF due THEN "cleanup" ELSE "insert"]]
             /\ lastCleanup' = IF due THEN [lastCleanup EXCEPT ![p] = clock] ELSE lastCleanup
    BY <1>3 DEF Consume, ConsumeKey
  <2> DEFINE pc == IF clock - lastCleanup[p] > CleanupGap \/ lastCleanup[p] = Never
                   THEN "cleanup" ELSE "insert"
             call == [NoCall EXCEPT !.key = k, !.expiresAt = e, !.now = clock, !.pc = pc]
  <2>2. pc \in {"cleanup", "insert"}
    OBVIOUS
  <2>3. calls' = [calls EXCEPT ![c] = call]
    BY <2>1
  <2> HIDE DEF pc
  <2>4. call \in Call
    BY <2>2 DEF NoCall, Call
  <2> HIDE DEF call
  <2>5. calls' \in [Calls -> Call]
    BY <2>3, <2>4
  <2>6. lastCleanup' \in [Processes -> Instants \cup {Never}]
    BY <2>1
  <2> QED
    BY <1>3, <2>5, <2>6 DEF Consume, ConsumeKey
<1>4. ASSUME NEW c \in Calls, SelectExpired(c)
      PROVE  TypeOK'
  <2>1. PICK batch \in SUBSET {k \in Keys : Expired(k, calls[c].now)} :
          calls' = [calls EXCEPT ![c].expired = batch,
                                 ![c].pc = IF batch = {} THEN "insert" ELSE "delete"]
    BY <1>4 DEF SelectExpired
  <2> DEFINE pc == IF batch = {} THEN "insert" ELSE "delete"
  <2>2. pc \in {"insert", "delete"} /\ batch \subseteq Keys
    OBVIOUS
  <2>3. calls' = [calls EXCEPT ![c].expired = batch, ![c].pc = pc]
    BY <2>1
  <2> HIDE DEF pc
  <2>4. calls' \in [Calls -> Call]
    BY ZenonT(60), <2>2, <2>3 DEF Call
  <2> QED
    BY <1>4, <2>4 DEF SelectExpired
<1>5. ASSUME NEW c \in Calls, DeleteExpired(c)
      PROVE  TypeOK'
  <2>1. markers' \in [Keys -> Instants \cup {Never}]
    BY <1>5 DEF DeleteExpired
  <2>2. calls' \in [Calls -> Call]
    BY <1>5 DEF DeleteExpired, Call
  <2> QED
    BY <1>5, <2>1, <2>2 DEF DeleteExpired
<1>idle. NoCall \in Call
  BY DEF NoCall, Call
<1>6. ASSUME NEW c \in Calls, Insert(c)
      PROVE  TypeOK'
  <2>1. calls' \in [Calls -> Call] /\ UNCHANGED <<clock, lastCleanup>>
    BY <1>6, <1>idle DEF Insert
  <2>2. CASE UNCHANGED <<markers, uses>>
    BY <2>1, <2>2
  <2> DEFINE k == calls[c].key
             e == calls[c].expiresAt
  <2>3. CASE /\ markers' = [markers EXCEPT ![k] = e]
             /\ uses' = [uses EXCEPT ![k][e] = @ + 1]
    <3>1. e \in Instants \cup {Never}
      BY DEF Call
    <3>2. markers' \in [Keys -> Instants \cup {Never}]
      BY <2>3, <3>1
    <3>3. uses' \in [Keys -> [Instants -> Nat]]
      <4>1. CASE k \notin Keys
        BY <2>3, <4>1
      <4>2. CASE k \in Keys /\ e \notin Instants
        BY <2>3, <4>2
      <4>3. CASE k \in Keys /\ e \in Instants
        BY <2>3, <4>3
      <4> QED
        BY <4>1, <4>2, <4>3
    <3> QED
      BY <2>1, <3>2, <3>3
  <2> QED
    BY <1>6, <2>2, <2>3 DEF Insert
<1>7. ASSUME NEW c \in Calls, Fail(c)
      PROVE  TypeOK'
  BY <1>7, <1>idle DEF Fail
<1> QED
  BY <1>1, <1>2, <1>3, <1>4, <1>5, <1>6, <1>7 DEF Next

\* A marker that is still valid is never deleted, and none is replaced.
LEMMA MarkersStep ==
  ASSUME TypeOK, MarkersKept, [Next]_vars
  PROVE  MarkersKept'
<1>clock. clock \in Nat /\ clock' \in Nat /\ clock <= clock'
  <2>1. clock \in Nat
    BY DEF TypeOK, Instants
  <2>2. clock' = clock \/ clock' = clock + 1
    BY DEF Next, vars, Tick, Consume, ConsumeKey, SelectExpired, DeleteExpired, Insert, Fail
  <2> QED
    BY <2>1, <2>2
<1>1. ASSUME NEW c \in Calls
      PROVE  calls'[c].now <= clock'
  <2>1. calls[c].now <= clock /\ calls[c].now \in Nat
    BY DEF MarkersKept, TypeOK, Call, Instants, Never
  <2>2. CASE calls'[c].now = calls[c].now
    BY <1>clock, <2>1, <2>2
  <2>3. NoCall.now = 0
    BY DEF NoCall, Never
  <2>4. CASE calls'[c] = NoCall
    BY <1>clock, <2>3, <2>4
  <2>5. CASE UNCHANGED calls
    BY <2>2, <2>5
  <2>6. CASE UNCHANGED vars \/ Tick
    BY <2>5, <2>6 DEF vars, Tick
  <2>7. ASSUME NEW d \in Calls, SelectExpired(d) \/ DeleteExpired(d)
        PROVE  calls'[c].now = calls[c].now
    <3>1. calls \in [Calls -> Call]
      BY DEF TypeOK
    <3>2. CASE DeleteExpired(d)
      BY <3>1, <3>2 DEF Call, DeleteExpired
    <3>3. CASE SelectExpired(d)
      <4>1. \E batch, pc : calls' = [calls EXCEPT ![d].expired = batch, ![d].pc = pc]
        BY <3>3 DEF SelectExpired
      <4> QED
        BY <3>1, <4>1 DEF Call
    <3> QED
      BY <2>7, <3>2, <3>3
  <2>8. ASSUME NEW d \in Calls, Insert(d) \/ Fail(d)
        PROVE  calls'[c] = calls[c] \/ calls'[c] = NoCall
    BY <2>8 DEF TypeOK, Insert, Fail
  <2>9. ASSUME NEW d \in Calls, Consume(d)
        PROVE  calls'[c].now \in {calls[c].now, clock} /\ UNCHANGED clock
    BY <2>9 DEF TypeOK, Consume, ConsumeKey, NoCall
  <2> QED
    BY <1>clock, <2>2, <2>4, <2>6, <2>7, <2>8, <2>9 DEF Next
<1>2. ASSUME NEW k \in Keys, NEW e \in Instants, uses'[k][e] > 0, e > clock'
      PROVE  markers'[k] = e
  <2>late. e > clock /\ e \in Nat
    BY <1>clock, <1>2 DEF Instants
  <2>1. CASE uses'[k][e] = uses[k][e] /\ markers'[k] = markers[k]
    BY <1>2, <2>late, <2>1 DEF MarkersKept
  <2>2. CASE UNCHANGED <<uses, markers>>
    BY <2>1, <2>2
  <2>3. CASE UNCHANGED vars \/ Tick
    BY <2>2, <2>3 DEF vars, Tick
  <2>4. ASSUME NEW d \in Calls, Consume(d) \/ SelectExpired(d) \/ Fail(d)
        PROVE  UNCHANGED <<uses, markers>>
    BY <2>4 DEF Consume, ConsumeKey, SelectExpired, Fail
  <2>5. ASSUME NEW d \in Calls, DeleteExpired(d)
        PROVE  markers'[k] = e
    <3>1. UNCHANGED uses /\ markers' = [x \in Keys |-> IF x \in Deleted(d) THEN Never ELSE markers[x]]
      BY <2>5 DEF DeleteExpired
    <3>2. markers[k] = e
      BY <1>2, <2>late, <3>1 DEF MarkersKept
    <3>3. calls[d].now <= clock /\ calls[d].now \in Nat
      BY DEF MarkersKept, TypeOK, Call, Instants, Never
    <3>4. k \notin Deleted(d)
      BY <1>clock, <2>late, <3>2, <3>3 DEF Deleted, Expired
    <3> QED
      BY <3>1, <3>2, <3>4
  <2>6. ASSUME NEW d \in Calls, Insert(d)
        PROVE  markers'[k] = e
    <3>1. CASE UNCHANGED <<uses, markers>>
      BY <2>2, <3>1
    <3>2. CASE /\ markers[calls[d].key] = Never
               /\ markers' = [markers EXCEPT ![calls[d].key] = calls[d].expiresAt]
               /\ uses' = [uses EXCEPT ![calls[d].key][calls[d].expiresAt] = @ + 1]
      <4>1. CASE k # calls[d].key
        BY <2>1, <3>2, <4>1 DEF TypeOK
      <4>2. CASE k = calls[d].key /\ e # calls[d].expiresAt
        <5>1. uses'[k][e] = uses[k][e]
          BY <3>2, <4>2 DEF TypeOK
        <5>2. markers[k] = e
          BY <1>2, <2>late, <5>1 DEF MarkersKept
        <5> QED
          BY <3>2, <4>2, <5>2 DEF Never, Instants
      <4>3. CASE k = calls[d].key /\ e = calls[d].expiresAt
        BY <3>2, <4>3 DEF TypeOK
      <4> QED
        BY <4>1, <4>2, <4>3
    <3> QED
      BY <2>6, <3>1, <3>2 DEF Insert
  <2> QED
    BY <2>2, <2>3, <2>4, <2>5, <2>6 DEF Next
<1> QED
  BY <1>1, <1>2 DEF MarkersKept

\* The empty store keeps its markers.
LEMMA StoreInit ==
  ASSUME Init
  PROVE  TypeOK /\ MarkersKept
<1>1. NoCall \in Call /\ NoCall.now = 0
  BY DEF NoCall, Call, Never
<1>2. Init => TypeOK
  BY <1>1 DEF Init, TypeOK
<1>3. Init => \A c \in Calls : calls[c].now <= clock
  <2>1. Init => clock \in Nat /\ \A c \in Calls : calls[c].now = 0
    BY <1>1 DEF Init, Instants
  <2> QED
    BY <2>1
<1> QED
  BY <1>2, <1>3 DEF Init, MarkersKept

\* A proof is accepted only when every accepted proof with its key has expired.
LEMMA AcceptedAfterExpiry ==
  ASSUME TypeOK, MarkersKept, Next, NEW k \in Keys, NEW e \in Instants,
         uses'[k][e] > uses[k][e], NEW d \in Instants, uses[k][d] > 0
  PROVE  d <= clock
<1>1. uses[k][e] \in Nat
  BY DEF TypeOK
<1>2. uses' # uses
  BY <1>1
<1>3. PICK c \in Calls : Insert(c)
  BY <1>2 DEF Next, Tick, Consume, ConsumeKey, SelectExpired, DeleteExpired, Fail
<1>4. /\ markers[calls[c].key] = Never
      /\ uses' = [uses EXCEPT ![calls[c].key][calls[c].expiresAt] = @ + 1]
  BY <1>2, <1>3 DEF Insert
<1>5. k = calls[c].key
  BY <1>1, <1>4 DEF TypeOK
<1>6. ~(d > clock)
  BY <1>4, <1>5 DEF MarkersKept, Never, Instants
<1> QED
  BY <1>6 DEF TypeOK, Instants

\* While a proof is valid, no call of any process accepts its key again.
THEOREM ReplaysRefused == Spec => OncePerWindow
<1>1. Init => TypeOK /\ MarkersKept
  BY StoreInit
<1>2. TypeOK /\ MarkersKept /\ [Next]_vars => (TypeOK /\ MarkersKept)'
  BY TypeStep, MarkersStep
<1>3. TypeOK /\ MarkersKept /\ [Next]_vars
        => [\A k \in Keys, e \in Instants : uses'[k][e] > uses[k][e] =>
              \A d \in Instants : uses[k][d] > 0 => d <= clock]_vars
  BY AcceptedAfterExpiry
<1> QED
  BY <1>1, <1>2, <1>3, PTL DEF Spec, OncePerWindow
--------------------------------------------------------------------------------
RedeemPhase == {"client", "key", "resource", "access", "read", "commit"}
Redeeming(q) == req[q].pc \in RedeemPhase

Request == [pc : {"idle", "authenticated", "consume"} \cup RedeemPhase, kid : Kids \cup {None},
            id : Nat, target : Resources \cup {None}, scopes : SUBSET Scopes,
            key : Keys \cup {Never}, expiresAt : Instants \cup {Never}, locks : SUBSET Rows]
Presented(x) == x.kid \in Kids /\ x.key \in Keys /\ x.expiresAt \in Instants
Mutation == [todo : Seq(SUBSET Rows), held : SUBSET Rows, result : Tables \cup {None}]

\* MachineTypeOK with the requests and the tables in full.
MachineTypes ==
  /\ TypeOK
  /\ db \in Tables /\ tx \in Mutation
  /\ req \in [Requests -> Request]
  /\ \A q \in Requests : req[q].pc # "idle" => Presented(req[q])
  /\ ids \in Nat /\ changes \in 0 .. MaxChanges /\ started \in 0 .. MaxRequests
  /\ tokens \in [Keys -> [Instants -> Nat]]

\* A request under its locks takes another one, goes on, or ends.
RequestMove(q) ==
  /\ Redeeming(q)
  /\ \/ req' = [req EXCEPT ![q] = NoRequest]
     \/ \E pc \in RedeemPhase, locks \in SUBSET Rows :
          req' = [req EXCEPT ![q].locks = locks, ![q].pc = pc]

LockStep(q) == \/ LockClient(q) \/ LockKey(q) \/ LockResource(q) \/ LockAccess(q)
               \/ ReadAgain(q) \/ RollBack(q)

LEMMA NoRequestIsOne == NoRequest \in Request /\ NoRequest.pc = "idle" /\ NoRequest.locks = {}
BY DEF NoRequest, Request, Never, RedeemPhase

\* The decisions of an issuance change nothing but the request.
LEMMA LockSteps ==
  ASSUME MachineTypes, NEW q \in Requests, LockStep(q)
  PROVE  /\ RequestMove(q)
         /\ UNCHANGED <<vars, db, tx, ids, changes, started, tokens>>
<1> USE DEF RedeemPhase, Redeeming
<1>types. /\ req \in [Requests -> Request] /\ req[q] \in Request
          /\ req[q].pc # "idle" => req[q].kid \in Kids
          /\ db.client.resources \subseteq Resources
  BY DEF MachineTypes, Presented, Tables, Clients
<1>same. ASSUME NEW pc
         PROVE  [req EXCEPT ![q].pc = pc] = [req EXCEPT ![q].locks = req[q].locks, ![q].pc = pc]
  BY <1>types DEF Request
<1>1. CASE LockClient(q)
  <2>1. Locked(q, {ClientRow}) \in SUBSET Rows
    BY <1>types DEF Locked, Request, Rows
  <2> QED
    BY <1>1, <2>1 DEF LockClient, RequestMove, Refuse
<1>2. CASE LockKey(q)
  <2>1. Locked(q, {<<"key", req[q].kid>>}) \in SUBSET Rows
    BY <1>2, <1>types DEF LockKey, Locked, Request, Rows
  <2> QED
    BY <1>2, <2>1 DEF LockKey, RequestMove, Refuse
<1>3. CASE LockResource(q)
  <2>1. CASE req[q].target = None
    BY <1>3, <2>1 DEF LockResource, RequestMove, Refuse
  <2>2. CASE req[q].target # None
    <3>1. req[q].target \in Resources
      BY <1>types, <2>2 DEF Request
    <3>2. Locked(q, {<<"resource", req[q].target>>}) \in SUBSET Rows
      BY <1>types, <3>1 DEF Locked, Request, Rows
    <3> QED
      BY <1>3, <3>2 DEF LockResource, RequestMove, Refuse
  <2> QED
    BY <2>1, <2>2
<1>4. CASE LockAccess(q)
  <2>1. CASE req[q].target \notin db.client.resources
    BY <1>4, <2>1 DEF LockAccess, RequestMove, Refuse
  <2>2. CASE req[q].target \in db.client.resources
    <3>1. Locked(q, {<<"access", req[q].target>>}) \in SUBSET Rows
      BY <1>types, <2>2 DEF Locked, Request, Rows
    <3> QED
      BY <1>4, <3>1 DEF LockAccess, RequestMove, Refuse
  <2> QED
    BY <2>1, <2>2
<1>5. CASE ReadAgain(q)
  <2>1. req[q].locks \in SUBSET Rows
    BY <1>types DEF Request
  <2> QED
    BY <1>5, <1>same, <2>1 DEF ReadAgain, RequestMove, Refuse, Goto
<1>6. CASE RollBack(q)
  BY <1>6 DEF RollBack, RequestMove, Refuse
<1> QED
  BY <1>1, <1>2, <1>3, <1>4, <1>5, <1>6 DEF LockStep

\* A move of a request keeps its type and what it presented.
LEMMA MoveTypes ==
  ASSUME MachineTypes, NEW q \in Requests, RequestMove(q)
  PROVE  /\ req' \in [Requests -> Request]
         /\ \A r \in Requests : req'[r].pc # "idle" => Presented(req'[r])
         /\ \A r \in Requests \ {q} : req'[r] = req[r]
         /\ \/ req'[q] = NoRequest
            \/ /\ req'[q].pc \in RedeemPhase
               /\ req'[q].key = req[q].key /\ req'[q].expiresAt = req[q].expiresAt
<1>types. /\ req \in [Requests -> Request] /\ Redeeming(q)
          /\ \A r \in Requests : req[r].pc # "idle" => Presented(req[r])
          /\ req[q].pc # "idle"
  BY DEF MachineTypes, RequestMove, Redeeming, RedeemPhase
<1>1. CASE req' = [req EXCEPT ![q] = NoRequest]
  BY <1>1, <1>types, NoRequestIsOne
<1>2. ASSUME NEW pc \in RedeemPhase, NEW locks \in SUBSET Rows,
             req' = [req EXCEPT ![q].locks = locks, ![q].pc = pc]
      PROVE  /\ req' \in [Requests -> Request]
             /\ \A r \in Requests \ {q} : req'[r] = req[r]
             /\ req'[q] \in Request /\ req'[q].pc = pc /\ req'[q].kid = req[q].kid
             /\ req'[q].key = req[q].key /\ req'[q].expiresAt = req[q].expiresAt
  BY <1>2, <1>types DEF Request
<1>3. ASSUME NEW pc \in RedeemPhase, NEW locks \in SUBSET Rows,
             req' = [req EXCEPT ![q].locks = locks, ![q].pc = pc]
      PROVE  \A r \in Requests : req'[r].pc # "idle" => Presented(req'[r])
  BY <1>2, <1>3, <1>types DEF Presented
<1> QED
  BY <1>1, <1>2, <1>3, <1>types DEF RequestMove

--------------------------------------------------------------------------------
(* Mutations *)

RowsOf(todo) == UNION {todo[i] : i \in DOMAIN todo}

\* What a token depends on is as committed, or in rows that the mutation locks.
Covers(result, rows) ==
  db.client.exists =>
    /\ ClientRow \in rows \/ result.client = db.client
    /\ \A kid \in Kids : KeyIsActive(kid) =>
         <<"key", kid>> \in rows \/ result.key[kid] = db.key[kid]
    /\ \A r \in Resources : db.resource[r].status = "enabled" =>
         <<"resource", r>> \in rows \/ result.resource[r] = db.resource[r]

LEMMA RowsOfParts ==
  /\ RowsOf(<<>>) = {}
  /\ \A A : RowsOf(<<A>>) = A
  /\ \A A, B : RowsOf(<<A, B>>) = A \cup B
<1>1. RowsOf(<<>>) = {}
  BY DEF RowsOf
<1>2. ASSUME NEW A PROVE RowsOf(<<A>>) = A
  <2>1. DOMAIN <<A>> = {1} /\ <<A>>[1] = A
    OBVIOUS
  <2> QED
    BY <2>1 DEF RowsOf
<1>3. ASSUME NEW A, NEW B PROVE RowsOf(<<A, B>>) = A \cup B
  <2>1. DOMAIN <<A, B>> = {1, 2} /\ <<A, B>>[1] = A /\ <<A, B>>[2] = B
    OBVIOUS
  <2> QED
    BY <2>1 DEF RowsOf
<1> QED
  BY <1>1, <1>2, <1>3

LEMMA ShortSequences ==
  ASSUME NEW S
  PROVE  /\ <<>> \in Seq(S)
         /\ \A a \in S : <<a>> \in Seq(S)
         /\ \A a \in S, b \in S : <<a, b>> \in Seq(S)
OBVIOUS

LEMMA RowsOfConcat ==
  ASSUME NEW s \in Seq(SUBSET Rows), NEW t \in Seq(SUBSET Rows)
  PROVE  s \o t \in Seq(SUBSET Rows) /\ RowsOf(s \o t) = RowsOf(s) \cup RowsOf(t)
<1>1. /\ s \o t \in Seq(SUBSET Rows)
      /\ DOMAIN s = 1 .. Len(s) /\ DOMAIN t = 1 .. Len(t)
      /\ DOMAIN (s \o t) = 1 .. Len(s) + Len(t)
      /\ Len(s) \in Nat /\ Len(t) \in Nat
      /\ \A i \in 1 .. Len(s) + Len(t) :
           (s \o t)[i] = IF i <= Len(s) THEN s[i] ELSE t[i - Len(s)]
  OBVIOUS
<1> DEFINE u == s \o t
<1>2. ASSUME NEW i \in DOMAIN u
      PROVE  u[i] \subseteq RowsOf(s) \cup RowsOf(t)
  <2>1. CASE i <= Len(s)
    <3>1. i \in DOMAIN s /\ u[i] = s[i]
      BY <1>1, <1>2, <2>1
    <3> QED
      BY <3>1 DEF RowsOf
  <2>2. CASE ~(i <= Len(s))
    <3>1. i - Len(s) \in DOMAIN t /\ u[i] = t[i - Len(s)]
      BY <1>1, <1>2, <2>2
    <3> QED
      BY <3>1 DEF RowsOf
  <2> QED
    BY <2>1, <2>2
<1>3. ASSUME NEW i \in DOMAIN s
      PROVE  i \in DOMAIN u /\ u[i] = s[i]
  BY <1>1, <1>3
<1>4. ASSUME NEW i \in DOMAIN t
      PROVE  i + Len(s) \in DOMAIN u /\ u[i + Len(s)] = t[i]
  BY <1>1, <1>4
<1> HIDE DEF u
<1>5. RowsOf(u) = RowsOf(s) \cup RowsOf(t)
  BY <1>2, <1>3, <1>4 DEF RowsOf
<1> QED
  BY <1>1, <1>5 DEF u

\* The rows of a reconciliation name what it changes of an existing machine.
LEMMA ReconciledRowsCover ==
  ASSUME MachineTypes, NEW enabled \in BOOLEAN, NEW active \in SUBSET Kids,
         NEW resources \in SUBSET Resources, NEW scopes \in SUBSET Scopes
  PROVE  LET todo == ReconciledRows(enabled, active, resources, scopes)
         IN /\ todo \in Seq(SUBSET Rows)
            /\ db.client.exists =>
                 /\ \/ ClientRow \in RowsOf(todo)
                    \/ /\ db.client.enabled = enabled /\ db.client.resources = resources
                       /\ db.client.scopes = scopes
                 /\ \A kid \in Kids \ active : KeyIsActive(kid) =>
                      <<"key", kid>> \in RowsOf(todo)
<1> DEFINE revoked == {kid \in Kids : KeyIsActive(kid)} \ active
           switches == IF db.client.enabled # enabled THEN <<{ClientRow}>> ELSE <<>>
           revokes == IF revoked # {} THEN <<{"key"} \X revoked>> ELSE <<>>
           replaces == IF db.client.resources # resources \/ db.client.scopes # scopes
                       THEN <<{ClientRow}, {"access"} \X db.client.resources>> ELSE <<>>
<1>1. CASE ~db.client.exists
  BY <1>1 DEF ReconciledRows
<1>2. CASE db.client.exists
  <2>1. ReconciledRows(enabled, active, resources, scopes) = switches \o revokes \o replaces
    BY <1>2 DEF ReconciledRows
  <2>2. db.client.resources \subseteq Resources
    BY DEF MachineTypes, Tables, Clients
  <2>3. /\ {ClientRow} \in SUBSET Rows /\ {"key"} \X revoked \in SUBSET Rows
        /\ {"access"} \X db.client.resources \in SUBSET Rows
    BY <2>2 DEF Rows
  <2>4. /\ switches \in Seq(SUBSET Rows) /\ revokes \in Seq(SUBSET Rows)
        /\ replaces \in Seq(SUBSET Rows)
    BY <2>3, ShortSequences
  <2>5. db.client.enabled # enabled => ClientRow \in RowsOf(switches)
    BY RowsOfParts
  <2>6. \A kid \in revoked : <<"key", kid>> \in RowsOf(revokes)
    <3>1. ASSUME NEW kid \in revoked
          PROVE  <<"key", kid>> \in RowsOf(revokes)
      <4>1. RowsOf(revokes) = {"key"} \X revoked
        BY <3>1, RowsOfParts
      <4> QED
        BY <3>1, <4>1
    <3> QED
      BY <3>1
  <2>7. db.client.resources # resources \/ db.client.scopes # scopes
          => ClientRow \in RowsOf(replaces)
    BY RowsOfParts
  <2>8. /\ switches \o revokes \o replaces \in Seq(SUBSET Rows)
        /\ RowsOf(switches \o revokes \o replaces)
             = RowsOf(switches) \cup RowsOf(revokes) \cup RowsOf(replaces)
    <3> HIDE DEF switches, revokes, replaces
    <3>1. /\ switches \o revokes \in Seq(SUBSET Rows)
          /\ RowsOf(switches \o revokes) = RowsOf(switches) \cup RowsOf(revokes)
      BY <2>4, RowsOfConcat
    <3>2. RowsOf((switches \o revokes) \o replaces)
            = RowsOf(switches \o revokes) \cup RowsOf(replaces)
      BY <2>4, <3>1, RowsOfConcat
    <3> QED
      BY <2>4, <3>1, <3>2
  <2>9. \A kid \in Kids \ active : KeyIsActive(kid) => kid \in revoked
    OBVIOUS
  <2> HIDE DEF switches, revokes, replaces, revoked
  <2> QED
    BY <2>1, <2>5, <2>6, <2>7, <2>8, <2>9
<1> QED
  BY <1>1, <1>2

LEMMA KeysReconciledType ==
  ASSUME MachineTypes, NEW active \in SUBSET Kids
  PROVE  /\ KeysReconciled(active, ids) \in [Kids -> KeyRow]
         /\ \A kid \in active : KeyIsActive(kid) => KeysReconciled(active, ids)[kid] = db.key[kid]
<1>1. db.key \in [Kids -> KeyRow] /\ ids \in Nat
  BY DEF MachineTypes, Tables
<1> DEFINE keys == KeysReconciled(active, ids)
<1>2. ASSUME NEW kid \in Kids
      PROVE  /\ keys[kid] \in KeyRow
             /\ kid \in active /\ KeyIsActive(kid) => keys[kid] = db.key[kid]
  <2>1. db.key[kid] \in KeyRow
    BY <1>1
  <2>2. [status |-> "active", id |-> ids] \in KeyRow
    BY <1>1 DEF KeyRow
  <2>3. [db.key[kid] EXCEPT !.status = "revoked"] \in KeyRow
    BY <2>1 DEF KeyRow
  <2>4. keys[kid] = CASE kid \in active /\ ~KeyIsActive(kid) -> [status |-> "active", id |-> ids]
                      [] kid \notin active /\ KeyIsActive(kid)
                           -> [db.key[kid] EXCEPT !.status = "revoked"]
                      [] OTHER -> db.key[kid]
    BY DEF KeysReconciled
  <2> HIDE DEF keys
  <2>5. CASE kid \in active /\ ~KeyIsActive(kid)
    BY <2>2, <2>4, <2>5
  <2>6. CASE kid \notin active /\ KeyIsActive(kid)
    BY <2>3, <2>4, <2>6
  <2>7. CASE kid \in active <=> KeyIsActive(kid)
    BY <2>1, <2>4, <2>7
  <2> QED
    BY <2>5, <2>6, <2>7
<1>3. keys = [kid \in Kids |-> keys[kid]]
  BY DEF KeysReconciled
<1> HIDE DEF keys
<1>4. keys \in [Kids -> KeyRow]
  BY <1>2, <1>3
<1> QED
  BY <1>2, <1>4 DEF keys

\* A reconciliation of tables that differ from the committed ones in covered rows.
LEMMA ReconciledCovered ==
  ASSUME MachineTypes, NEW tables \in Tables, NEW first \in Seq(SUBSET Rows),
         tables.client = db.client, tables.key = db.key, Covers(tables, RowsOf(first)),
         NEW enabled \in BOOLEAN, NEW active \in SUBSET Kids,
         NEW resources \in SUBSET Resources, NEW scopes \in SUBSET Scopes
  PROVE  LET result == Reconciled(tables, enabled, active, resources, scopes)
             todo == first \o ReconciledRows(enabled, active, resources, scopes)
         IN result \in Tables /\ todo \in Seq(SUBSET Rows) /\ Covers(result, RowsOf(todo))
<1> DEFINE result == Reconciled(tables, enabled, active, resources, scopes)
           rest == ReconciledRows(enabled, active, resources, scopes)
           client == [exists |-> TRUE, enabled |-> enabled, resources |-> resources,
                      scopes |-> scopes]
           keys == KeysReconciled(active, ids)
<1>1. result = [client |-> client, key |-> keys, resource |-> tables.resource]
  <2>1. result = [tables EXCEPT !.client = client, !.key = keys]
    BY DEF Reconciled
  <2> HIDE DEF result, client, keys
  <2>2. DOMAIN tables = {"client", "key", "resource"}
    BY DEF Tables
  <2> QED
    BY <2>1, <2>2 DEF Tables
<1>2. client \in Clients
  BY DEF Clients
<1>3. /\ keys \in [Kids -> KeyRow]
      /\ \A kid \in active : KeyIsActive(kid) => keys[kid] = db.key[kid]
  BY KeysReconciledType
<1> HIDE DEF client, keys, result
<1>4. result \in Tables
  BY <1>1, <1>2, <1>3 DEF Tables
<1>5. /\ rest \in Seq(SUBSET Rows)
      /\ db.client.exists =>
           /\ \/ ClientRow \in RowsOf(rest)
              \/ /\ db.client.enabled = enabled /\ db.client.resources = resources
                 /\ db.client.scopes = scopes
           /\ \A kid \in Kids \ active : KeyIsActive(kid) => <<"key", kid>> \in RowsOf(rest)
  BY ReconciledRowsCover
<1> HIDE DEF rest
<1>6. first \o rest \in Seq(SUBSET Rows) /\ RowsOf(first \o rest) = RowsOf(first) \cup RowsOf(rest)
  BY <1>5, RowsOfConcat
<1>7. ASSUME db.client.exists
      PROVE  ClientRow \in RowsOf(rest) \/ result.client = db.client
  <2>1. db.client \in Clients
    BY DEF MachineTypes, Tables
  <2>2. CASE /\ db.client.enabled = enabled /\ db.client.resources = resources
             /\ db.client.scopes = scopes
    <3>1. db.client = client
      BY <1>7, <2>1, <2>2 DEF Clients, client
    <3> QED
      BY <1>1, <3>1
  <2> QED
    BY <1>5, <1>7, <2>2
<1>8. ASSUME db.client.exists, NEW kid \in Kids, KeyIsActive(kid)
      PROVE  <<"key", kid>> \in RowsOf(rest) \/ result.key[kid] = db.key[kid]
  BY <1>1, <1>3, <1>5, <1>8
<1>9. ASSUME db.client.exists, NEW r \in Resources, db.resource[r].status = "enabled"
      PROVE  <<"resource", r>> \in RowsOf(first) \/ result.resource[r] = db.resource[r]
  BY <1>1, <1>9 DEF Covers
<1>10. Covers(result, RowsOf(first \o rest))
  BY <1>6, <1>7, <1>8, <1>9 DEF Covers
<1> QED
  BY <1>4, <1>6, <1>10 DEF result, rest

\* Every mutation begins with the rows it needs.
Mutate == Reconcile \/ DeleteMachine \/ SaveResource \/ DeleteResource \/ ApplyPlan

LEMMA MutationsCover ==
  ASSUME MachineTypes, Mutate
  PROVE  /\ \E result \in Tables, todo \in Seq(SUBSET Rows) :
              Begin(result, todo) /\ Covers(result, RowsOf(todo))
         /\ ids' \in Nat
<1>types. db \in Tables /\ ids \in Nat /\ db.client \in Clients
  BY DEF MachineTypes, Tables
<1>empty. /\ <<>> \in Seq(SUBSET Rows) /\ RowsOf(<<>>) = {}
          /\ Covers(db, RowsOf(<<>>))
  BY RowsOfParts DEF Covers
<1>1. CASE Reconcile
  <2>1. PICK enabled \in BOOLEAN, active \in SUBSET Kids, resources \in SUBSET Resources,
             scopes \in SUBSET Scopes :
          Begin(Reconciled(db, enabled, active, resources, scopes),
                ReconciledRows(enabled, active, resources, scopes))
    BY <1>1 DEF Reconcile
  <2> DEFINE result == Reconciled(db, enabled, active, resources, scopes)
             rest == ReconciledRows(enabled, active, resources, scopes)
  <2>2. rest \in Seq(SUBSET Rows)
    BY ReconciledRowsCover
  <2>3. /\ result \in Tables /\ <<>> \o rest \in Seq(SUBSET Rows)
        /\ Covers(result, RowsOf(<<>> \o rest))
    BY <1>types, <1>empty, ReconciledCovered
  <2> HIDE DEF result, rest
  <2>4. <<>> \o rest = rest
    BY <2>2
  <2>5. Begin(result, rest)
    BY <2>1 DEF result, rest
  <2>6. ids' \in Nat
    BY <1>1, <1>types DEF Reconcile
  <2> QED
    BY <2>2, <2>3, <2>4, <2>5, <2>6
<1>2. CASE DeleteMachine
  <2> DEFINE result == [db EXCEPT !.client = NoClient, !.key = [kid \in Kids |-> NoKey]]
             rows == {row \in Rows : row[1] \in {"key", "access"}}
             todo == <<{ClientRow}, rows>>
  <2>1. Begin(result, todo) /\ ids' = ids
    BY <1>2 DEF DeleteMachine
  <2>2. NoClient \in Clients /\ [kid \in Kids |-> NoKey] \in [Kids -> KeyRow]
    BY DEF NoClient, NoKey, Clients, KeyRow
  <2>3. result \in Tables /\ result.resource = db.resource
    BY <1>types, <2>2 DEF Tables
  <2>4. {ClientRow} \in SUBSET Rows /\ \A kid \in Kids : <<"key", kid>> \in rows
    BY DEF Rows
  <2>5. RowsOf(todo) = {ClientRow} \cup rows
    BY RowsOfParts
  <2> HIDE DEF result, rows
  <2>6. todo \in Seq(SUBSET Rows)
    <3>1. rows \in SUBSET Rows
      BY DEF rows
    <3> QED
      BY <2>4, <3>1, ShortSequences
  <2> HIDE DEF todo
  <2>7. Covers(result, RowsOf(todo))
    BY <2>3, <2>4, <2>5 DEF Covers
  <2> QED
    BY <1>types, <2>1, <2>3, <2>6, <2>7
<1>3. ASSUME NEW r \in Resources, NEW row \in ResourceRow,
             NEW todo \in {<<>>, <<{<<"resource", r>>}>>},
             db.resource[r].status = "absent" \/ todo # <<>>
      PROVE  LET result == [db EXCEPT !.resource[r] = row]
             IN /\ result \in Tables /\ todo \in Seq(SUBSET Rows) /\ Covers(result, RowsOf(todo))
                /\ result.client = db.client /\ result.key = db.key
  <2> DEFINE result == [db EXCEPT !.resource[r] = row]
  <2>1. /\ result \in Tables /\ result.client = db.client /\ result.key = db.key
        /\ \A x \in Resources \ {r} : result.resource[x] = db.resource[x]
    BY <1>types DEF Tables
  <2>2. {<<"resource", r>>} \in SUBSET Rows
    BY DEF Rows
  <2>3. todo \in Seq(SUBSET Rows)
    BY <1>3, <2>2, ShortSequences
  <2>4. db.resource[r].status = "enabled" => <<"resource", r>> \in RowsOf(todo)
    BY <1>3, RowsOfParts
  <2> HIDE DEF result
  <2>5. Covers(result, RowsOf(todo))
    BY <2>1, <2>4 DEF Covers
  <2> QED
    BY <2>1, <2>3, <2>5 DEF result
<1>4. CASE SaveResource
  <2>1. PICK r \in Resources, status \in {"disabled", "enabled"}, supports \in SUBSET Ordinary :
          Begin([db EXCEPT !.resource[r] = [status |-> status, supports |-> supports]],
                IF db.resource[r].status = "absent" THEN <<>> ELSE <<{<<"resource", r>>}>>)
    BY <1>4 DEF SaveResource
  <2> DEFINE row == [status |-> status, supports |-> supports]
             todo == IF db.resource[r].status = "absent" THEN <<>> ELSE <<{<<"resource", r>>}>>
  <2>2. row \in ResourceRow
    BY DEF ResourceRow
  <2>3. todo \in {<<>>, <<{<<"resource", r>>}>>} /\ (db.resource[r].status = "absent" \/ todo # <<>>)
    OBVIOUS
  <2>4. Begin([db EXCEPT !.resource[r] = row], todo) /\ ids' = ids
    BY <1>4, <2>1 DEF SaveResource
  <2> HIDE DEF row, todo
  <2> QED
    BY <1>3, <1>types, <2>2, <2>3, <2>4
<1>5. CASE DeleteResource
  <2>1. PICK r \in Resources :
          Begin([db EXCEPT !.resource[r] = [status |-> "absent", supports |-> {}]],
                <<{<<"resource", r>>}>>)
    BY <1>5 DEF DeleteResource
  <2> DEFINE row == [status |-> "absent", supports |-> {}]
             todo == <<{<<"resource", r>>}>>
  <2>2. row \in ResourceRow
    BY DEF ResourceRow
  <2>3. todo \in {<<>>, <<{<<"resource", r>>}>>} /\ todo # <<>>
    OBVIOUS
  <2>4. Begin([db EXCEPT !.resource[r] = row], todo) /\ ids' = ids
    BY <1>5, <2>1 DEF DeleteResource
  <2> HIDE DEF row, todo
  <2> QED
    BY <1>3, <1>types, <2>2, <2>3, <2>4
<1>6. CASE ApplyPlan
  <2> DEFINE active == {kid \in Kids : KeyIsActive(kid)}
  <2>1. PICK r \in Resources, supports \in SUBSET Ordinary, resources \in SUBSET Resources,
             scopes \in SUBSET Scopes :
          LET tables == [db EXCEPT !.resource[r] = [@ EXCEPT !.supports = supports]]
          IN Begin(Reconciled(tables, db.client.enabled, active, resources, scopes),
                   <<{<<"resource", r>>}>>
                     \o ReconciledRows(db.client.enabled, active, resources, scopes))
    BY <1>6 DEF ApplyPlan
  <2> DEFINE row == [db.resource[r] EXCEPT !.supports = supports]
             tables == [db EXCEPT !.resource[r] = row]
             first == <<{<<"resource", r>>}>>
             result == Reconciled(tables, db.client.enabled, active, resources, scopes)
             todo == first \o ReconciledRows(db.client.enabled, active, resources, scopes)
  <2>2. row \in ResourceRow
    BY <1>types DEF Tables, ResourceRow
  <2>3. first \in {<<>>, <<{<<"resource", r>>}>>} /\ first # <<>>
    OBVIOUS
  <2>4. Begin(result, todo) /\ ids' \in Nat
    BY <1>6, <1>types, <2>1 DEF ApplyPlan
  <2>5. db.client.enabled \in BOOLEAN /\ active \in SUBSET Kids
    BY <1>types DEF Clients
  <2> HIDE DEF row, first, active
  <2>6. /\ tables \in Tables /\ first \in Seq(SUBSET Rows) /\ Covers(tables, RowsOf(first))
        /\ tables.client = db.client /\ tables.key = db.key
    BY <1>3, <2>2, <2>3
  <2> HIDE DEF tables
  <2>7. result \in Tables /\ todo \in Seq(SUBSET Rows) /\ Covers(result, RowsOf(todo))
    BY <2>5, <2>6, ReconciledCovered
  <2> HIDE DEF result, todo
  <2> QED
    BY <2>4, <2>7
<1> QED
  BY <1>1, <1>2, <1>4, <1>5, <1>6 DEF Mutate

--------------------------------------------------------------------------------
(* Types *)

\* The call of the replay store that a request waits for is its own.
Called(q) ==
  calls[q].pc # "idle" =>
    req[q].pc = "consume" /\ calls[q].key = req[q].key /\ calls[q].expiresAt = req[q].expiresAt

MachineInv ==
  /\ MachineTypes
  /\ tx # NoMutation => tx.result \in Tables
  /\ \A q \in Requests : Called(q)

\* A machine step is a step of the replay store.
LEMMA StoreSteps ==
  ASSUME MachineTypes, [MachineNext]_allVars
  PROVE  [Next]_vars
<1>presented. \A q \in Requests : req[q].pc # "idle" => Presented(req[q])
  BY DEF MachineTypes
<1>1. CASE UNCHANGED allVars
  BY <1>1 DEF allVars
<1>2. CASE Tick
  BY <1>2 DEF Next
<1>3. ASSUME NEW q \in Requests, ConsumeAssertion(q)
      PROVE  [Next]_vars
  <2>1. CASE UNCHANGED vars
    BY <2>1
  <2>2. ASSUME NEW p \in Processes, ConsumeKey(q, p, req[q].key, req[q].expiresAt)
        PROVE  [Next]_vars
    <3>1. Presented(req[q])
      BY <1>3, <1>presented DEF ConsumeAssertion
    <3>2. Consume(q)
      BY <2>2, <3>1 DEF Consume, Presented
    <3> QED
      BY <3>2 DEF Next, Requests
  <2> QED
    BY <1>3, <2>1, <2>2 DEF ConsumeAssertion
<1>4. ASSUME NEW q \in Requests, Cleanup(q) \/ Consumed(q) \/ StoreFails(q)
      PROVE  [Next]_vars
  BY <1>4 DEF Next, Requests, Cleanup, Consumed, StoreFails
<1>5. ASSUME NEW q \in Requests, LockStep(q) \/ Authenticate(q) \/ Issue(q)
      PROVE  UNCHANGED vars
  BY <1>5, LockSteps DEF Authenticate, Issue
<1>6. CASE Mutate \/ WriteRows \/ CommitMutation \/ MutationFails
  BY <1>6 DEF Mutate, Reconcile, DeleteMachine, SaveResource, DeleteResource, ApplyPlan, Begin,
              WriteRows, CommitMutation, MutationFails
<1> QED
  BY <1>1, <1>2, <1>3, <1>4, <1>5, <1>6 DEF MachineNext, LockStep, Mutate

\* A request arrives.
LEMMA AuthenticateTypes ==
  ASSUME MachineTypes, NEW q \in Requests, Authenticate(q)
  PROVE  /\ req' \in [Requests -> Request]
         /\ \A r \in Requests : req'[r].pc # "idle" => Presented(req'[r])
         /\ req[q].pc = "idle" /\ req'[q].pc = "authenticated" /\ req'[q].locks = {}
         /\ \A r \in Requests \ {q} : req'[r] = req[r]
         /\ started' \in 0 .. MaxRequests
<1>types. /\ req \in [Requests -> Request] /\ db \in Tables /\ started \in 0 .. MaxRequests
          /\ \A r \in Requests : req[r].pc # "idle" => Presented(req[r])
  BY DEF MachineTypes
<1>1. PICK kid \in Kids, target \in Resources \cup {None}, scopes \in (SUBSET Scopes) \ {{}},
           k \in Keys, e \in Instants :
        /\ db.client.exists /\ db.client.enabled /\ KeyIsActive(kid)
        /\ e > clock
        /\ req' = [req EXCEPT ![q] = [NoRequest EXCEPT !.pc = "authenticated", !.kid = kid,
                     !.id = db.key[kid].id, !.target = target, !.scopes = scopes,
                     !.key = k, !.expiresAt = e]]
  BY Zenon DEF Authenticate
<1> DEFINE new == [NoRequest EXCEPT !.pc = "authenticated", !.kid = kid,
                     !.id = db.key[kid].id, !.target = target, !.scopes = scopes,
                     !.key = k, !.expiresAt = e]
<1>2. db.key[kid].id \in Nat
  BY <1>types DEF Tables, KeyRow
<1>3. new \in Request /\ Presented(new) /\ new.pc = "authenticated" /\ new.locks = {}
  BY <1>2 DEF NoRequest, Request, Presented
<1>4. req' = [req EXCEPT ![q] = new]
  BY <1>1
<1> HIDE DEF new
<1>5. started' \in 0 .. MaxRequests
  BY <1>types, LimitsAreNat DEF Authenticate
<1> QED
  BY <1>types, <1>3, <1>4, <1>5 DEF Authenticate

LEMMA MachineTypeStep ==
  ASSUME MachineInv, [MachineNext]_allVars
  PROVE  MachineTypes' /\ (tx # NoMutation => tx.result \in Tables)'
<1>types. /\ MachineTypes /\ TypeOK /\ db \in Tables /\ tx \in Mutation
          /\ req \in [Requests -> Request]
          /\ \A q \in Requests : req[q].pc # "idle" => Presented(req[q])
          /\ ids \in Nat /\ changes \in 0 .. MaxChanges /\ started \in 0 .. MaxRequests
          /\ tokens \in [Keys -> [Instants -> Nat]]
          /\ tx # NoMutation => tx.result \in Tables
  BY DEF MachineInv, MachineTypes
<1> DEFINE Typed == MachineTypes /\ (tx # NoMutation => tx.result \in Tables)
<1> SUFFICES Typed'
  OBVIOUS
<1>store. TypeOK'
  BY <1>types, StoreSteps, TypeStep
<1>none. NoMutation \in Mutation
  BY ShortSequences DEF NoMutation, Mutation
<1> DEFINE ReqTypes == /\ req \in [Requests -> Request]
                       /\ \A q \in Requests : req[q].pc # "idle" => Presented(req[q])
           RowTypes == /\ db \in Tables /\ tx \in Mutation /\ ids \in Nat
                       /\ changes \in 0 .. MaxChanges
                       /\ tx # NoMutation => tx.result \in Tables
           TokenTypes == tokens \in [Keys -> [Instants -> Nat]]
           StartTypes == started \in 0 .. MaxRequests
<1>old. ReqTypes /\ RowTypes /\ TokenTypes /\ StartTypes
  BY <1>types
<1>goal. ASSUME ReqTypes', RowTypes', TokenTypes', StartTypes'
         PROVE  Typed'
  BY <1>store, <1>goal DEF MachineTypes
<1>rows. ASSUME UNCHANGED <<db, tx, ids, changes>> PROVE RowTypes'
  BY <1>old, <1>rows
<1>keep. /\ UNCHANGED started => StartTypes'
         /\ UNCHANGED tokens => TokenTypes'
         /\ UNCHANGED req => ReqTypes'
  BY <1>old
<1>end. ASSUME NEW q \in Requests, req' = [req EXCEPT ![q] = NoRequest]
        PROVE  ReqTypes'
  BY <1>old, <1>end, NoRequestIsOne
<1>go. ASSUME NEW q \in Requests, NEW pc \in {"consume", "client"}, req[q].pc # "idle",
              req' = [req EXCEPT ![q].pc = pc]
       PROVE  ReqTypes'
  <2>1. /\ req' \in [Requests -> Request]
        /\ req'[q].kid = req[q].kid /\ req'[q].key = req[q].key
        /\ req'[q].expiresAt = req[q].expiresAt
        /\ \A r \in Requests \ {q} : req'[r] = req[r]
    BY <1>old, <1>go DEF Request, RedeemPhase
  <2> QED
    BY <1>old, <1>go, <2>1 DEF Presented
<1> HIDE DEF ReqTypes, RowTypes, TokenTypes, StartTypes, Typed
<1>1. CASE UNCHANGED allVars
  BY <1>1, <1>goal, <1>rows, <1>keep DEF allVars, machineVars
<1>2. CASE Tick /\ UNCHANGED machineVars
  BY <1>2, <1>goal, <1>rows, <1>keep DEF machineVars
<1>3. ASSUME NEW q \in Requests, Authenticate(q)
      PROVE  Typed'
  <2>1. ReqTypes' /\ StartTypes'
    BY <1>3, <1>types, AuthenticateTypes DEF ReqTypes, StartTypes
  <2> QED
    BY <1>3, <1>goal, <1>rows, <1>keep, <2>1 DEF Authenticate
<1>4. ASSUME NEW q \in Requests, LockStep(q)
      PROVE  Typed'
  <2>1. RequestMove(q) /\ UNCHANGED <<db, tx, ids, changes, started, tokens>>
    BY <1>4, <1>types, LockSteps
  <2>2. ReqTypes'
    BY <1>types, <2>1, MoveTypes DEF ReqTypes
  <2> QED
    BY <1>goal, <1>rows, <1>keep, <2>1, <2>2
<1>5. ASSUME NEW q \in Requests, ConsumeAssertion(q)
      PROVE  Typed'
  <2>1. UNCHANGED <<db, tx, ids, changes, started, tokens>>
    BY <1>5 DEF ConsumeAssertion
  <2>2. ReqTypes'
    BY <1>5, <1>go, <1>end DEF ConsumeAssertion, Goto, Refuse
  <2> QED
    BY <1>goal, <1>rows, <1>keep, <2>1, <2>2
<1>6. ASSUME NEW q \in Requests, Cleanup(q)
      PROVE  Typed'
  BY <1>6, <1>goal, <1>rows, <1>keep DEF Cleanup, machineVars
<1>7. ASSUME NEW q \in Requests, Consumed(q)
      PROVE  Typed'
  <2>1. UNCHANGED <<db, tx, ids, changes, started, tokens>>
    BY <1>7 DEF Consumed
  <2>2. req[q].pc # "idle"
    BY <1>7 DEF MachineInv, Called, Consumed, Insert, Requests
  <2>3. ReqTypes'
    BY <1>7, <1>go, <1>end, <2>2 DEF Consumed, Goto, Refuse
  <2> QED
    BY <1>goal, <1>rows, <1>keep, <2>1, <2>3
<1>8. ASSUME NEW q \in Requests, StoreFails(q)
      PROVE  Typed'
  BY <1>8, <1>goal, <1>rows, <1>keep, <1>end DEF StoreFails, Refuse
<1>9. ASSUME NEW q \in Requests, Issue(q)
      PROVE  Typed'
  <2>1. TokenTypes'
    <3>1. Presented(req[q])
      BY <1>9, <1>types DEF Issue
    <3>2. tokens' = [tokens EXCEPT ![req[q].key][req[q].expiresAt] = @ + 1]
      BY <1>9 DEF Issue
    <3> QED
      BY <1>types, <3>1, <3>2 DEF Presented, TokenTypes
  <2> QED
    BY <1>9, <1>goal, <1>rows, <1>keep, <1>end, <2>1 DEF Issue, Refuse
<1>10. CASE Mutate
  <2>1. PICK result \in Tables, todo \in Seq(SUBSET Rows) : Begin(result, todo)
    BY <1>10, <1>types, MutationsCover
  <2>2. ids' \in Nat
    BY <1>10, <1>types, MutationsCover
  <2>3. tx' \in Mutation /\ tx'.result \in Tables
    BY <2>1 DEF Begin, Mutation
  <2>4. changes' \in 0 .. MaxChanges
    BY <1>types, <2>1, LimitsAreNat DEF Begin
  <2>5. RowTypes'
    BY <1>types, <2>1, <2>2, <2>3, <2>4 DEF Begin, RowTypes
  <2> QED
    BY <1>goal, <1>keep, <2>1, <2>5 DEF Begin
<1>11. CASE WriteRows
  <2>1. Head(tx.todo) \in SUBSET Rows /\ Tail(tx.todo) \in Seq(SUBSET Rows)
    BY <1>11, <1>types DEF WriteRows, Mutation
  <2>2. tx' \in Mutation /\ tx'.result = tx.result
    BY <1>11, <1>types, <2>1 DEF WriteRows, Mutation
  <2>3. RowTypes'
    BY <1>11, <1>types, <2>2 DEF WriteRows, RowTypes
  <2> QED
    BY <1>11, <1>goal, <1>keep, <2>3 DEF WriteRows
<1>12. CASE CommitMutation
  <2>1. RowTypes'
    BY <1>12, <1>types, <1>none DEF CommitMutation, RowTypes
  <2> QED
    BY <1>12, <1>goal, <1>keep, <2>1 DEF CommitMutation
<1>13. CASE MutationFails
  <2>1. RowTypes'
    BY <1>13, <1>types, <1>none DEF MutationFails, RowTypes
  <2> QED
    BY <1>13, <1>goal, <1>keep, <2>1 DEF MutationFails
<1> QED
  BY <1>1, <1>2, <1>3, <1>4, <1>5, <1>6, <1>7, <1>8, <1>9, <1>10, <1>11, <1>12, <1>13
     DEF MachineNext, LockStep, Mutate

\* A call ends before its request goes on.
LEMMA CallStep ==
  ASSUME MachineInv, [MachineNext]_allVars, NEW q \in Requests
  PROVE  Called(q)'
<1>types. /\ calls \in [Calls -> Call] /\ req \in [Requests -> Request] /\ Requests = Calls
          /\ MachineTypes /\ Called(q)
  BY DEF MachineInv, MachineTypes, TypeOK, Requests
<1>idle. NoCall.pc = "idle"
  BY DEF NoCall
<1>1. CASE UNCHANGED <<calls, req>>
  BY <1>1, <1>types DEF Called
<1>2. ASSUME NEW r \in Requests, calls[r].pc = "idle", UNCHANGED calls,
             \A x \in Requests \ {r} : req'[x] = req[x]
      PROVE  Called(q)'
  BY <1>2, <1>types DEF Called
<1>3. ASSUME NEW r \in Requests, calls' = [calls EXCEPT ![r] = NoCall],
             \A x \in Requests \ {r} : req'[x] = req[x]
      PROVE  Called(q)'
  BY <1>3, <1>types, <1>idle DEF Called
<1>calm. ASSUME NEW r \in Requests, req[r].pc # "consume"
         PROVE  calls[r].pc = "idle"
  BY <1>calm DEF MachineInv, Called
<1>4. ASSUME NEW r \in Requests, LockStep(r)
      PROVE  Called(q)'
  <2>1. RequestMove(r) /\ UNCHANGED calls
    BY <1>4, <1>types, LockSteps DEF vars
  <2>2. \A x \in Requests \ {r} : req'[x] = req[x]
    BY <1>types, <2>1, MoveTypes
  <2>3. req[r].pc # "consume"
    BY <2>1 DEF RequestMove, Redeeming, RedeemPhase
  <2> QED
    BY <1>2, <1>calm, <2>1, <2>2, <2>3
<1>5. ASSUME NEW r \in Requests, Authenticate(r)
      PROVE  Called(q)'
  <2>1. UNCHANGED calls
    BY <1>5 DEF Authenticate, vars
  <2>2. req[r].pc # "consume" /\ \A x \in Requests \ {r} : req'[x] = req[x]
    BY <1>5, <1>types, AuthenticateTypes
  <2> QED
    BY <1>2, <1>calm, <2>1, <2>2
<1>6. ASSUME NEW r \in Requests, Issue(r)
      PROVE  Called(q)'
  BY <1>2, <1>6, <1>calm, <1>types DEF Issue, Refuse, vars
<1>7. ASSUME NEW r \in Requests, ConsumeAssertion(r)
      PROVE  Called(q)'
  <2>1. CASE Refuse(r) /\ UNCHANGED vars
    BY <1>2, <1>7, <1>calm, <1>types, <2>1 DEF ConsumeAssertion, Refuse, vars
  <2>2. ASSUME NEW p \in Processes, ConsumeKey(r, p, req[r].key, req[r].expiresAt), Goto(r, "consume")
        PROVE  Called(q)'
    <3>1. PICK pc : calls' = [calls EXCEPT ![r] = [NoCall EXCEPT !.key = req[r].key,
                                !.expiresAt = req[r].expiresAt, !.now = clock, !.pc = pc]]
      BY <2>2 DEF ConsumeKey
    <3>2. /\ calls'[r].key = req[r].key /\ calls'[r].expiresAt = req[r].expiresAt
          /\ \A x \in Requests \ {r} : calls'[x] = calls[x]
      BY <1>types, <3>1 DEF NoCall
    <3>3. /\ req'[r].pc = "consume" /\ req'[r].key = req[r].key
          /\ req'[r].expiresAt = req[r].expiresAt
          /\ \A x \in Requests \ {r} : req'[x] = req[x]
      BY <1>types, <2>2 DEF Goto, Request
    <3> QED
      BY <1>types, <3>2, <3>3 DEF Called
  <2> QED
    BY <1>7, <2>1, <2>2 DEF ConsumeAssertion
<1>8. ASSUME NEW r \in Requests, Cleanup(r)
      PROVE  Called(q)'
  <2>1. req' = req /\ calls[r].pc # "idle"
    BY <1>8 DEF Cleanup, machineVars, SelectExpired, DeleteExpired
  <2>2. \E batch, pc : calls' = [calls EXCEPT ![r].expired = batch, ![r].pc = pc]
    BY <1>8 DEF Cleanup, SelectExpired, DeleteExpired
  <2>3. /\ calls'[r].key = calls[r].key /\ calls'[r].expiresAt = calls[r].expiresAt
        /\ \A x \in Requests \ {r} : calls'[x] = calls[x]
    BY <1>types, <2>2 DEF Call
  <2> QED
    BY <1>types, <2>1, <2>3 DEF Called
<1>9. ASSUME NEW r \in Requests, Consumed(r) \/ StoreFails(r)
      PROVE  Called(q)'
  <2>1. calls' = [calls EXCEPT ![r] = NoCall]
    BY <1>9 DEF Consumed, StoreFails, Insert, Fail
  <2>2. \A x \in Requests \ {r} : req'[x] = req[x]
    BY <1>9, <1>types DEF Consumed, StoreFails, Refuse, Goto
  <2> QED
    BY <1>3, <2>1, <2>2
<1>10. CASE Mutate \/ WriteRows \/ CommitMutation \/ MutationFails
  BY <1>1, <1>10 DEF Mutate, Reconcile, DeleteMachine, SaveResource, DeleteResource, ApplyPlan, Begin,
              WriteRows, CommitMutation, MutationFails, vars
<1>11. CASE UNCHANGED allVars \/ (Tick /\ UNCHANGED machineVars)
  BY <1>1, <1>11 DEF allVars, machineVars, vars, Tick
<1> QED
  BY <1>4, <1>5, <1>6, <1>7, <1>8, <1>9, <1>10, <1>11 DEF MachineNext, LockStep, Mutate

LEMMA MachineStart ==
  ASSUME MachineInit
  PROVE  MachineInv
<1>1. TypeOK /\ MarkersKept
  BY StoreInit DEF MachineInit
<1>2. db \in Tables
  <2>1. db \in [client : {[exists |-> TRUE, enabled |-> TRUE, resources |-> Resources, scopes |-> Scopes]},
                key : [Kids -> {[status |-> "active", id |-> 0]}],
                resource : [Resources -> {[status |-> "enabled", supports |-> Ordinary]}]]
    BY DEF MachineInit
  <2>2. /\ [exists |-> TRUE, enabled |-> TRUE, resources |-> Resources, scopes |-> Scopes] \in Clients
        /\ [status |-> "active", id |-> 0] \in KeyRow
        /\ [status |-> "enabled", supports |-> Ordinary] \in ResourceRow
    BY DEF Clients, KeyRow, ResourceRow
  <2> QED
    BY <2>1, <2>2 DEF Tables
<1>3. tx \in Mutation /\ tx = NoMutation
  BY ShortSequences DEF MachineInit, NoMutation, Mutation
<1>4. req \in [Requests -> Request] /\ \A q \in Requests : req[q].pc = "idle"
  BY NoRequestIsOne DEF MachineInit
<1>5. \A q \in Requests : calls[q].pc = "idle"
  BY DEF MachineInit, Init, NoCall, Requests
<1>6. /\ ids \in Nat /\ changes \in 0 .. MaxChanges /\ started \in 0 .. MaxRequests
      /\ tokens \in [Keys -> [Instants -> Nat]]
  BY DEF MachineInit
<1> QED
  BY <1>1, <1>2, <1>3, <1>4, <1>5, <1>6 DEF MachineInv, MachineTypes, Called

\* The types of the store, the issuance and the mutations (MachineTypeOK).
THEOREM MachineTypesHold == MachineSpec => []MachineTypeOK
<1>1. MachineInit => MachineInv
  BY MachineStart
<1>2. MachineInv /\ [MachineNext]_allVars => MachineInv'
  BY MachineTypeStep, CallStep DEF MachineInv
<1>3. MachineInv => MachineTypeOK
  BY DEF MachineInv, MachineTypes, MachineTypeOK, Mutation, Request, RedeemPhase
<1> QED
  BY <1>1, <1>2, <1>3, PTL DEF MachineSpec

--------------------------------------------------------------------------------
(* An assertion buys one token *)

\* Nothing was bought with an assertion but by a request that consumed it.
Bought(k, e) ==
  e > clock => tokens[k][e] <= 1 /\ (tokens[k][e] > 0 => uses[k][e] > 0)

\* A request under its locks has consumed its assertion, alone, and bought nothing yet.
Redeems(q) ==
  LET k == req[q].key
      e == req[q].expiresAt
  IN Redeeming(q) /\ e > clock =>
       /\ uses[k][e] > 0 /\ tokens[k][e] = 0
       /\ \A r \in Requests \ {q} : Redeeming(r) => req[r].key # k \/ req[r].expiresAt # e

RedeemInv ==
  /\ MarkersKept
  /\ \A k \in Keys, e \in Instants : Bought(k, e)
  /\ \A q \in Requests : Redeems(q)

\* What is still valid after a step was so before it.
LEMMA ClockGrows ==
  ASSUME MachineTypes, [MachineNext]_allVars
  PROVE  clock \in Instants /\ clock' \in Instants /\ clock <= clock'
<1>1. [Next]_vars /\ TypeOK
  BY StoreSteps DEF MachineTypes
<1>2. TypeOK'
  BY <1>1, TypeStep
<1>3. clock' = clock \/ clock' = clock + 1
  BY <1>1 DEF Next, vars, Tick, Consume, ConsumeKey, SelectExpired, DeleteExpired, Insert, Fail
<1> QED
  BY <1>1, <1>2, <1>3 DEF TypeOK, Instants

LEMMA RedeemStep ==
  ASSUME MachineInv, RedeemInv, [MachineNext]_allVars
  PROVE  RedeemInv'
<1>types. /\ MachineTypes /\ TypeOK /\ Requests = Calls
          /\ req \in [Requests -> Request] /\ uses \in [Keys -> [Instants -> Nat]]
          /\ tokens \in [Keys -> [Instants -> Nat]]
          /\ markers \in [Keys -> Instants \cup {Never}]
          /\ \A q \in Requests : req[q].pc # "idle" => Presented(req[q])
  BY DEF MachineInv, MachineTypes, TypeOK, Requests
<1>inv. /\ MarkersKept
        /\ \A k \in Keys, e \in Instants : Bought(k, e)
        /\ \A q \in Requests : Redeems(q)
  BY DEF RedeemInv
<1>clock. /\ clock \in Instants /\ clock' \in Instants /\ clock <= clock'
          /\ \A e \in Instants : e > clock' => e > clock
  BY <1>types, ClockGrows DEF Instants
<1>kept. MarkersKept'
  <2>1. [Next]_vars
    BY <1>types, StoreSteps
  <2> QED
    BY <1>types, <1>inv, <2>1, MarkersStep
<1> DEFINE Rest == /\ \A k \in Keys, e \in Instants : Bought(k, e)
                   /\ \A q \in Requests : Redeems(q)
<1> SUFFICES Rest'
  BY <1>kept DEF RedeemInv
<1>old. Rest
  BY <1>inv
<1>none. \A x : x = NoRequest => x.pc \notin RedeemPhase
  BY DEF NoRequest, RedeemPhase
<1>busy. \A q \in Requests : Redeeming(q) => req[q].key \in Keys /\ req[q].expiresAt \in Instants
  BY <1>types DEF Redeeming, RedeemPhase, Presented
\* Steps that sell nothing, accept nothing and let nobody redeem.
<1>quiet. ASSUME UNCHANGED <<uses, tokens>>, NEW q \in Requests,
                 \A r \in Requests \ {q} : req'[r] = req[r],
                 \/ req'[q] = req[q]
                 \/ req'[q].pc \notin RedeemPhase
                 \/ /\ Redeeming(q)
                    /\ req'[q].key = req[q].key /\ req'[q].expiresAt = req[q].expiresAt
          PROVE  Rest'
  <2>1. \A r \in Requests : Redeeming(r)' =>
          Redeeming(r) /\ req'[r].key = req[r].key /\ req'[r].expiresAt = req[r].expiresAt
    BY <1>quiet DEF Redeeming
  <2>2. ASSUME NEW k \in Keys, NEW e \in Instants
        PROVE  Bought(k, e)'
    BY <1>clock, <1>inv, <1>quiet DEF Bought
  <2>3. ASSUME NEW r \in Requests
        PROVE  Redeems(r)'
    <3> DEFINE k == req[r].key
               e == req[r].expiresAt
    <3>1. SUFFICES ASSUME Redeeming(r)', (e > clock)'
                   PROVE  /\ (uses[k][e] > 0 /\ tokens[k][e] = 0)'
                          /\ \A x \in Requests \ {r} : Redeeming(x)' =>
                               req'[x].key # k' \/ req'[x].expiresAt # e'
      BY DEF Redeems
    <3>2. Redeeming(r) /\ k' = k /\ e' = e
      BY <2>1, <3>1
    <3>3. e > clock
      BY <1>busy, <1>clock, <3>1, <3>2
    <3>4. /\ uses[k][e] > 0 /\ tokens[k][e] = 0
          /\ \A x \in Requests \ {r} : Redeeming(x) => req[x].key # k \/ req[x].expiresAt # e
      BY <1>inv, <3>2, <3>3 DEF Redeems
    <3> QED
      BY <1>quiet, <2>1, <3>2, <3>4
  <2> QED
    BY <2>2, <2>3
<1> HIDE DEF Rest
<1>still. ASSUME UNCHANGED <<uses, tokens, req>> PROVE Rest'
  <2>1. CASE Requests = {}
    <3>1. \A k \in Keys, e \in Instants : Bought(k, e)'
      BY <1>clock, <1>inv, <1>still DEF Bought
    <3> QED
      BY <2>1, <3>1 DEF Rest
  <2>2. ASSUME NEW q \in Requests PROVE Rest'
    BY <1>quiet, <1>still
  <2> QED
    BY <2>1, <2>2
<1>1. CASE UNCHANGED allVars \/ (Tick /\ UNCHANGED machineVars)
  BY <1>1, <1>still DEF allVars, vars, machineVars, Tick
<1>2. CASE Mutate \/ WriteRows \/ CommitMutation \/ MutationFails
  BY <1>2, <1>still DEF Mutate, Reconcile, DeleteMachine, SaveResource, DeleteResource, ApplyPlan,
              Begin, WriteRows, CommitMutation, MutationFails, vars
<1>3. ASSUME NEW q \in Requests, Authenticate(q)
      PROVE  Rest'
  <2>1. UNCHANGED <<uses, tokens>>
    BY <1>3 DEF Authenticate, vars
  <2>2. req'[q].pc \notin RedeemPhase /\ \A r \in Requests \ {q} : req'[r] = req[r]
    BY <1>3, <1>types, AuthenticateTypes DEF RedeemPhase
  <2> QED
    BY <1>quiet, <2>1, <2>2
<1>4. ASSUME NEW q \in Requests, LockStep(q)
      PROVE  Rest'
  <2>1. RequestMove(q) /\ UNCHANGED <<uses, tokens>>
    BY <1>4, <1>types, LockSteps DEF vars
  <2>2. /\ \A r \in Requests \ {q} : req'[r] = req[r]
        /\ \/ req'[q] = NoRequest
           \/ req'[q].key = req[q].key /\ req'[q].expiresAt = req[q].expiresAt
    BY <1>types, <2>1, MoveTypes
  <2>3. Redeeming(q)
    BY <2>1 DEF RequestMove
  <2> QED
    BY <1>quiet, <1>none, <2>1, <2>2, <2>3
<1>5. ASSUME NEW q \in Requests, ConsumeAssertion(q)
      PROVE  Rest'
  <2>1. UNCHANGED <<uses, tokens>>
    BY <1>5 DEF ConsumeAssertion, ConsumeKey, vars
  <2>2. req'[q].pc \notin RedeemPhase /\ \A r \in Requests \ {q} : req'[r] = req[r]
    BY <1>5, <1>types, <1>none DEF ConsumeAssertion, Goto, Refuse, RedeemPhase, Request
  <2> QED
    BY <1>quiet, <2>1, <2>2
<1>6. ASSUME NEW q \in Requests, Cleanup(q)
      PROVE  Rest'
  BY <1>6, <1>still DEF Cleanup, SelectExpired, DeleteExpired, machineVars
<1>7. ASSUME NEW q \in Requests, StoreFails(q)
      PROVE  Rest'
  <2>1. UNCHANGED <<uses, tokens>> /\ req' = [req EXCEPT ![q] = NoRequest]
    BY <1>7 DEF StoreFails, Fail, Refuse
  <2> QED
    BY <1>quiet, <1>none, <1>types, <2>1
<1>8. ASSUME NEW q \in Requests, Issue(q)
      PROVE  Rest'
  <2> DEFINE k == req[q].key
             e == req[q].expiresAt
  <2>1. /\ Redeeming(q) /\ uses' = uses /\ clock' = clock
        /\ tokens' = [tokens EXCEPT ![k][e] = @ + 1]
        /\ req' = [req EXCEPT ![q] = NoRequest]
    BY <1>8 DEF Issue, Redeeming, RedeemPhase, Refuse, vars
  <2>2. k \in Keys /\ e \in Instants
    BY <1>busy, <2>1
  <2>3. e > clock => /\ uses[k][e] > 0 /\ tokens[k][e] = 0
                     /\ \A r \in Requests \ {q} : Redeeming(r) => req[r].key # k \/ req[r].expiresAt # e
    BY <1>inv, <2>1 DEF Redeems
  <2>4. /\ tokens'[k][e] = tokens[k][e] + 1
        /\ \A l \in Keys, d \in Instants : l # k \/ d # e => tokens'[l][d] = tokens[l][d]
    BY <1>types, <2>1, <2>2
  <2>5. ASSUME NEW l \in Keys, NEW d \in Instants
        PROVE  Bought(l, d)'
    <3>1. CASE l = k /\ d = e
      BY <2>1, <2>3, <2>4, <3>1 DEF Bought
    <3>2. CASE l # k \/ d # e
      BY <1>inv, <2>1, <2>4, <3>2 DEF Bought
    <3> QED
      BY <3>1, <3>2
  <2>6. \A r \in Requests : Redeeming(r)' => r # q /\ req'[r] = req[r] /\ Redeeming(r)
    BY <1>none, <1>types, <2>1 DEF Redeeming
  <2>7. ASSUME NEW r \in Requests
        PROVE  Redeems(r)'
    <3> DEFINE l == req[r].key
               d == req[r].expiresAt
    <3>1. SUFFICES ASSUME Redeeming(r)', (d > clock)'
                   PROVE  /\ (uses[l][d] > 0 /\ tokens[l][d] = 0)'
                          /\ \A x \in Requests \ {r} : Redeeming(x)' =>
                               req'[x].key # l' \/ req'[x].expiresAt # d'
      BY DEF Redeems
    <3>2. Redeeming(r) /\ l' = l /\ d' = d /\ r # q /\ d > clock /\ l \in Keys /\ d \in Instants
      BY <1>busy, <2>1, <2>6, <3>1
    <3>3. /\ uses[l][d] > 0 /\ tokens[l][d] = 0
          /\ \A x \in Requests \ {r} : Redeeming(x) => req[x].key # l \/ req[x].expiresAt # d
      BY <1>inv, <3>2 DEF Redeems
    <3>4. l # k \/ d # e
      BY <2>1, <3>2, <3>3
    <3> QED
      BY <2>1, <2>4, <2>6, <3>2, <3>3, <3>4
  <2> QED
    BY <2>5, <2>7 DEF Rest
<1>9. ASSUME NEW q \in Requests, Consumed(q)
      PROVE  Rest'
  <2> DEFINE k == req[q].key
             e == req[q].expiresAt
  <2>1. /\ req[q].pc = "consume" /\ calls[q].key = k /\ calls[q].expiresAt = e
    BY <1>9 DEF MachineInv, Called, Consumed, Insert, Requests
  <2>2. k \in Keys /\ e \in Instants
    BY <1>types, <2>1 DEF Presented
  <2>3. tokens' = tokens /\ clock' = clock
    BY <1>9 DEF Consumed, Insert
  <2>4. CASE ~FirstUse(q)
    <3>1. uses' = uses
      BY <1>9, <2>1, <2>4 DEF Consumed, Insert, FirstUse
    <3>2. req' = [req EXCEPT ![q] = NoRequest]
      BY <1>9, <2>4 DEF Consumed, Refuse
    <3> QED
      BY <1>quiet, <1>none, <1>types, <2>3, <3>1, <3>2
  <2>5. CASE FirstUse(q)
    <3>1. markers[k] = Never
      BY <2>5 DEF FirstUse
    <3>2. uses' = [uses EXCEPT ![k][e] = @ + 1]
      BY <1>9, <2>1, <3>1 DEF Consumed, Insert
    <3>3. \A d \in Instants : d > clock => ~(uses[k][d] > 0)
      BY <1>inv, <2>2, <3>1 DEF MarkersKept, Never, Instants
    <3>4. \A d \in Instants : d > clock => tokens[k][d] = 0
      BY <1>inv, <1>types, <2>2, <3>3 DEF Bought
    <3>5. \A r \in Requests : Redeeming(r) /\ req[r].expiresAt > clock => req[r].key # k
      BY <1>inv, <1>busy, <3>3 DEF Redeems
    <3>6. /\ req'[q].pc = "client" /\ req'[q].key = k /\ req'[q].expiresAt = e
          /\ \A r \in Requests \ {q} : req'[r] = req[r]
      BY <1>9, <1>types, <2>5 DEF Consumed, Goto, Request
    <3>7. /\ uses'[k][e] > 0
          /\ \A l \in Keys, d \in Instants : uses[l][d] > 0 => uses'[l][d] > 0
      BY <1>types, <2>2, <3>2
    <3>8. ASSUME NEW l \in Keys, NEW d \in Instants
          PROVE  Bought(l, d)'
      BY <1>inv, <2>3, <3>7 DEF Bought
    <3>9. Redeems(q)'
      <4>1. e > clock => /\ tokens[k][e] = 0
                         /\ \A r \in Requests \ {q} : Redeeming(r) => req[r].key # k \/ req[r].expiresAt # e
        BY <2>2, <3>4, <3>5
      <4> QED
        BY <2>3, <3>6, <3>7, <4>1 DEF Redeems, Redeeming
    <3>10. ASSUME NEW r \in Requests \ {q}
           PROVE  Redeems(r)'
      <4> DEFINE l == req[r].key
                 d == req[r].expiresAt
      <4>1. SUFFICES ASSUME Redeeming(r)', (d > clock)'
                     PROVE  /\ (uses[l][d] > 0 /\ tokens[l][d] = 0)'
                            /\ \A x \in Requests \ {r} : Redeeming(x)' =>
                                 req'[x].key # l' \/ req'[x].expiresAt # d'
        BY DEF Redeems
      <4>2. Redeeming(r) /\ l' = l /\ d' = d /\ d > clock /\ l \in Keys /\ d \in Instants
        BY <1>busy, <2>3, <3>6, <4>1 DEF Redeeming
      <4>3. /\ uses[l][d] > 0 /\ tokens[l][d] = 0 /\ l # k
            /\ \A x \in Requests \ {r} : Redeeming(x) => req[x].key # l \/ req[x].expiresAt # d
        BY <1>inv, <3>5, <4>2 DEF Redeems
      <4> QED
        BY <2>3, <3>6, <3>7, <4>2, <4>3 DEF Redeeming
    <3> QED
      BY <3>8, <3>9, <3>10 DEF Rest
  <2> QED
    BY <2>4, <2>5
<1> QED
  BY <1>1, <1>2, <1>3, <1>4, <1>5, <1>6, <1>7, <1>8, <1>9 DEF MachineNext, LockStep, Mutate

\* While it is valid an assertion buys one token, and no other with its key does: a
\* request locks the machine's rows only after it alone stored the marker, and the
\* marker outlives the assertion.
THEOREM OneTokenPerAssertion == MachineSpec => []AssertionBuysOneToken
<1>1. MachineInit => MachineInv /\ RedeemInv
  <2>1. MachineInit => MachineInv /\ MarkersKept
    BY MachineStart, StoreInit DEF MachineInit
  <2>2. MachineInit => \A k \in Keys, e \in Instants : tokens[k][e] = 0
    BY DEF MachineInit
  <2>3. MachineInit => \A q \in Requests : req[q].pc \notin RedeemPhase
    BY DEF MachineInit, NoRequest, RedeemPhase
  <2> QED
    BY <2>1, <2>2, <2>3 DEF RedeemInv, Bought, Redeems, Redeeming
<1>2. MachineInv /\ RedeemInv /\ [MachineNext]_allVars => (MachineInv /\ RedeemInv)'
  <2>1. MachineInv /\ [MachineNext]_allVars => MachineInv'
    BY MachineTypeStep, CallStep DEF MachineInv
  <2> QED
    BY <2>1, RedeemStep
<1>3. MachineInv /\ RedeemInv => AssertionBuysOneToken
  <2>1. SUFFICES ASSUME MachineInv, RedeemInv, NEW k \in Keys,
                        NEW d \in {i \in Instants : i > clock},
                        NEW e \in {i \in Instants : i > clock},
                        tokens[k][d] > 0, tokens[k][e] > 0
                 PROVE  d = e /\ tokens[k][d] = 1
    BY DEF AssertionBuysOneToken
  <2>2. tokens[k][d] \in Nat
    BY <2>1 DEF MachineInv, MachineTypes
  <2>3. uses[k][d] > 0 /\ uses[k][e] > 0 /\ tokens[k][d] <= 1
    BY <2>1 DEF RedeemInv, Bought
  <2>4. markers[k] = d /\ markers[k] = e
    BY <2>1, <2>3 DEF RedeemInv, MarkersKept
  <2> QED
    BY <2>1, <2>2, <2>3, <2>4
<1> QED
  BY <1>1, <1>2, <1>3, PTL DEF MachineSpec

--------------------------------------------------------------------------------
(* Tokens are issued under current access *)

\* What a request has locked, and what it has decided, at each of its steps.
Locks(q) ==
  LET pc == req[q].pc
      locks == req[q].locks
  IN /\ pc \in RedeemPhase \ {"client"} => ClientRow \in locks
     /\ pc \in RedeemPhase \ {"client", "key"} => <<"key", req[q].kid>> \in locks
     /\ pc = "access" \/ (pc \in {"read", "commit"} /\ ~Internal(q))
          => <<"resource", req[q].target>> \in locks
     /\ pc = "commit" => Grantable(q)

\* A mutation has covered what it will commit, and shares no row with a request.
CoverInv == tx # NoMutation => Covers(tx.result, tx.held \cup RowsOf(tx.todo))
LockInv == \A q \in Requests : Locks(q) /\ req[q].locks \cap tx.held = {}

\* What is granted depends on what the request asks for and on the committed rows.
LEMMA GrantableSame ==
  ASSUME NEW q, db' = db, req'[q].kid = req[q].kid, req'[q].id = req[q].id,
         req'[q].target = req[q].target, req'[q].scopes = req[q].scopes
  PROVE  (Internal(q)' <=> Internal(q)) /\ (Grantable(q)' <=> Grantable(q))
BY DEF Internal, Grantable, Supported

LEMMA OthersKeepLocks ==
  ASSUME MachineInv, LockInv, UNCHANGED <<db, tx>>,
         NEW q \in Requests, \A r \in Requests \ {q} : req'[r] = req[r],
         Locks(q)', req'[q].locks \cap tx.held = {}
  PROVE  LockInv'
<1>1. ASSUME NEW r \in Requests \ {q}
      PROVE  Locks(r)' /\ req'[r].locks \cap tx'.held = {}
  <2>1. Internal(r)' <=> Internal(r)
    BY <1>1, GrantableSame
  <2>2. Grantable(r)' <=> Grantable(r)
    BY <1>1, GrantableSame
  <2> QED
    BY <1>1, <2>1, <2>2 DEF LockInv, Locks
<1> QED
  BY <1>1 DEF LockInv

\* A request takes its locks one after the other and decides under all of them.
LEMMA LockStepKeeps ==
  ASSUME MachineInv, LockInv, NEW q \in Requests, LockStep(q)
  PROVE  LockInv'
<1> USE DEF RedeemPhase
<1>types. /\ MachineTypes /\ req \in [Requests -> Request] /\ tx.held \subseteq Rows
          /\ req[q] \in Request
  BY DEF MachineInv, MachineTypes, Mutation
<1>same. /\ UNCHANGED <<db, tx>>
         /\ \A r \in Requests \ {q} : req'[r] = req[r]
         /\ Locks(q) /\ req[q].locks \cap tx.held = {}
  BY <1>types, LockSteps, MoveTypes DEF LockInv
<1> SUFFICES Locks(q)' /\ req'[q].locks \cap tx.held = {}
  BY <1>same, OthersKeepLocks
<1>end. ASSUME Refuse(q)
        PROVE  Locks(q)' /\ req'[q].locks \cap tx.held = {}
  <2>1. req'[q] = NoRequest
    BY <1>end, <1>types DEF Refuse
  <2> QED
    BY <2>1, NoRequestIsOne DEF Locks
<1>go. ASSUME NEW pc, NEW locks, req' = [req EXCEPT ![q].locks = locks, ![q].pc = pc]
       PROVE  /\ req'[q].pc = pc /\ req'[q].locks = locks
              /\ req'[q].kid = req[q].kid /\ req'[q].target = req[q].target
              /\ Internal(q)' <=> Internal(q)
              /\ Grantable(q)' <=> Grantable(q)
  <2>1. /\ req'[q].pc = pc /\ req'[q].locks = locks
        /\ req'[q].kid = req[q].kid /\ req'[q].id = req[q].id
        /\ req'[q].target = req[q].target /\ req'[q].scopes = req[q].scopes
    BY <1>go, <1>types DEF Request
  <2> QED
    BY <1>same, <2>1, GrantableSame
<1>1. CASE LockClient(q)
  <2>1. ASSUME req' = [req EXCEPT ![q].locks = Locked(q, {ClientRow}), ![q].pc = "key"]
        PROVE  Locks(q)' /\ req'[q].locks \cap tx.held = {}
    <3>1. req'[q].pc = "key" /\ req'[q].locks = req[q].locks \cup {ClientRow}
      BY <2>1, <1>go DEF Locked
    <3> QED
      BY <1>1, <1>same, <3>1 DEF LockClient, Free, Locks
  <2> QED
    BY <1>1, <1>end, <2>1 DEF LockClient
<1>2. CASE LockKey(q)
  <2> DEFINE row == <<"key", req[q].kid>>
             next == IF Internal(q) THEN "read" ELSE "resource"
  <2>1. ASSUME req' = [req EXCEPT ![q].locks = Locked(q, {row}), ![q].pc = next]
        PROVE  Locks(q)' /\ req'[q].locks \cap tx.held = {}
    <3>1. /\ req'[q].pc = next /\ req'[q].locks = req[q].locks \cup {row}
          /\ req'[q].kid = req[q].kid /\ (Internal(q)' <=> Internal(q))
      BY <2>1, <1>go DEF Locked
    <3>2. ClientRow \in req[q].locks
      BY <1>2, <1>same DEF LockKey, Locks
    <3>3. row \notin tx.held
      BY <1>2 DEF LockKey, Free
    <3> QED
      BY <1>same, <3>1, <3>2, <3>3 DEF Locks
  <2> QED
    BY <1>2, <1>end, <2>1 DEF LockKey
<1>3. CASE LockResource(q)
  <2> DEFINE row == <<"resource", req[q].target>>
  <2>1. ASSUME req' = [req EXCEPT ![q].locks = Locked(q, {row}), ![q].pc = "access"]
        PROVE  Locks(q)' /\ req'[q].locks \cap tx.held = {}
    <3>1. /\ req'[q].pc = "access" /\ req'[q].locks = req[q].locks \cup {row}
          /\ req'[q].kid = req[q].kid /\ req'[q].target = req[q].target
      BY <2>1, <1>go DEF Locked
    <3>2. ClientRow \in req[q].locks /\ <<"key", req[q].kid>> \in req[q].locks
      BY <1>3, <1>same DEF LockResource, Locks
    <3>3. row \notin tx.held
      BY <1>3 DEF LockResource, Free
    <3> QED
      BY <1>same, <3>1, <3>2, <3>3 DEF Locks
  <2> QED
    BY <1>3, <1>end, <2>1 DEF LockResource
<1>4. CASE LockAccess(q)
  <2> DEFINE row == <<"access", req[q].target>>
  <2>1. ASSUME req' = [req EXCEPT ![q].locks = Locked(q, {row}), ![q].pc = "read"]
        PROVE  Locks(q)' /\ req'[q].locks \cap tx.held = {}
    <3>1. /\ req'[q].pc = "read" /\ req'[q].locks = req[q].locks \cup {row}
          /\ req'[q].kid = req[q].kid /\ req'[q].target = req[q].target
      BY <2>1, <1>go DEF Locked
    <3>2. /\ ClientRow \in req[q].locks /\ <<"key", req[q].kid>> \in req[q].locks
          /\ <<"resource", req[q].target>> \in req[q].locks
      BY <1>4, <1>same DEF LockAccess, Locks
    <3>3. row \notin tx.held
      BY <1>4 DEF LockAccess, Free
    <3> QED
      BY <1>same, <3>1, <3>2, <3>3 DEF Locks
  <2> QED
    BY <1>4, <1>end, <2>1 DEF LockAccess
<1>5. CASE ReadAgain(q)
  <2>1. ASSUME Goto(q, "commit"), Grantable(q)
        PROVE  Locks(q)' /\ req'[q].locks \cap tx.held = {}
    <3>1. [req EXCEPT ![q].pc = "commit"] = [req EXCEPT ![q].locks = req[q].locks, ![q].pc = "commit"]
      BY <1>types DEF Request
    <3>2. /\ req'[q].pc = "commit" /\ req'[q].locks = req[q].locks
          /\ req'[q].kid = req[q].kid /\ req'[q].target = req[q].target
          /\ Internal(q)' <=> Internal(q)
          /\ Grantable(q)' <=> Grantable(q)
      BY <2>1, <1>go, <3>1 DEF Goto
    <3>3. /\ ClientRow \in req[q].locks /\ <<"key", req[q].kid>> \in req[q].locks
          /\ ~Internal(q) => <<"resource", req[q].target>> \in req[q].locks
      BY <1>5, <1>same DEF ReadAgain, Locks
    <3> QED
      BY <1>same, <2>1, <3>2, <3>3 DEF Locks
  <2> QED
    BY <1>5, <1>end, <2>1 DEF ReadAgain
<1>6. CASE RollBack(q)
  BY <1>6, <1>end DEF RollBack
<1> QED
  BY <1>1, <1>2, <1>3, <1>4, <1>5, <1>6 DEF LockStep

\* A committed mutation leaves what a token under issuance depends on.
LEMMA CommitKeepsGrants ==
  ASSUME MachineInv, CoverInv, LockInv, CommitMutation
  PROVE  LockInv'
<1> USE DEF RedeemPhase
<1>types. /\ db \in Tables /\ tx \in Mutation /\ req \in [Requests -> Request]
          /\ \A q \in Requests : req[q].pc # "idle" => Presented(req[q])
  BY DEF MachineInv, MachineTypes
<1>1. /\ tx # NoMutation /\ tx.todo = <<>> /\ db' = tx.result /\ tx' = NoMutation /\ req' = req
  BY DEF CommitMutation
<1>2. Covers(tx.result, tx.held)
  <2>1. RowsOf(tx.todo) = {}
    BY <1>1, RowsOfParts
  <2> QED
    BY <1>1, <2>1 DEF CoverInv
<1>3. tx'.held = {}
  BY <1>1 DEF NoMutation
<1>4. ASSUME NEW q \in Requests
      PROVE  Locks(q)'
  <2>1. Internal(q)' <=> Internal(q)
    BY <1>1 DEF Internal
  <2>2. ASSUME req[q].pc = "commit"
        PROVE  Grantable(q)'
    <3>1. Grantable(q) /\ req[q].locks \cap tx.held = {} /\ req[q].kid \in Kids
      BY <1>types, <2>2 DEF LockInv, Locks, Presented
    <3>2. /\ ClientRow \notin tx.held /\ <<"key", req[q].kid>> \notin tx.held
          /\ ~Internal(q) => <<"resource", req[q].target>> \notin tx.held
      BY <2>2, <3>1 DEF LockInv, Locks
    <3>3. db'.client = db.client
      BY <1>1, <1>2, <3>1, <3>2 DEF Covers, Grantable
    <3>4. db'.key[req[q].kid] = db.key[req[q].kid]
      BY <1>1, <1>2, <3>1, <3>2 DEF Covers, Grantable, KeyIsActive
    <3>5. ~Internal(q) => db'.resource[req[q].target] = db.resource[req[q].target]
      <4>1. SUFFICES ASSUME ~Internal(q)
                     PROVE  db'.resource[req[q].target] = db.resource[req[q].target]
        OBVIOUS
      <4>2. db.client.resources \subseteq Resources
        BY <1>types DEF Tables, Clients
      <4>3. req[q].target \in Resources /\ db.resource[req[q].target].status = "enabled"
        BY <3>1, <4>1, <4>2 DEF Grantable
      <4> QED
        BY <1>1, <1>2, <3>1, <3>2, <4>1, <4>3 DEF Covers, Grantable
    <3>6. Supported(q)' = Supported(q)
      BY <1>1, <2>1, <3>3, <3>5 DEF Supported
    <3> QED
      BY <1>1, <2>1, <3>1, <3>3, <3>4, <3>5, <3>6 DEF Grantable
  <2> QED
    BY <1>1, <2>1, <2>2 DEF LockInv, Locks
<1> QED
  BY <1>3, <1>4 DEF LockInv

LEMMA AccessStep ==
  ASSUME MachineInv, CoverInv, LockInv, [MachineNext]_allVars
  PROVE  CoverInv' /\ LockInv'
<1>types. /\ MachineTypes /\ tx \in Mutation /\ req \in [Requests -> Request]
  BY DEF MachineInv, MachineTypes
<1>none. NoMutation.held = {}
  BY DEF NoMutation
<1>cover. UNCHANGED <<db, tx>> => CoverInv'
  BY DEF CoverInv, Covers, KeyIsActive
<1>still. ASSUME UNCHANGED <<db, req>>, tx'.held \subseteq tx.held
          PROVE  LockInv'
  <2>1. \A q \in Requests : Internal(q)' <=> Internal(q)
    BY <1>still, GrantableSame
  <2>2. \A q \in Requests : Grantable(q)' <=> Grantable(q)
    BY <1>still, GrantableSame
  <2> QED
    BY <1>still, <2>1, <2>2 DEF LockInv, Locks
<1>end. ASSUME NEW q \in Requests, UNCHANGED <<db, tx>>, req' = [req EXCEPT ![q] = NoRequest]
        PROVE  LockInv'
  <2>1. req'[q] = NoRequest /\ \A r \in Requests \ {q} : req'[r] = req[r]
    BY <1>end, <1>types
  <2>2. Locks(q)' /\ req'[q].locks \cap tx.held = {}
    BY <2>1, NoRequestIsOne DEF Locks, RedeemPhase
  <2> QED
    BY <1>end, <2>1, <2>2, OthersKeepLocks
<1>go. ASSUME NEW q \in Requests, NEW pc \in {"consume", "client"}, UNCHANGED <<db, tx>>,
              req' = [req EXCEPT ![q].pc = pc]
       PROVE  LockInv'
  <2>1. /\ req'[q].pc = pc /\ req'[q].locks = req[q].locks
        /\ \A r \in Requests \ {q} : req'[r] = req[r]
    BY <1>go, <1>types DEF Request
  <2>2. Locks(q)' /\ req'[q].locks \cap tx.held = {}
    BY <1>go, <2>1 DEF Locks, RedeemPhase, LockInv
  <2> QED
    BY <1>go, <2>1, <2>2, OthersKeepLocks
<1>1. CASE UNCHANGED allVars \/ (Tick /\ UNCHANGED machineVars)
  <2>1. UNCHANGED <<db, tx, req>>
    BY <1>1 DEF allVars, machineVars
  <2> QED
    BY <1>cover, <1>still, <2>1
<1>2. ASSUME NEW q \in Requests, Authenticate(q)
      PROVE  CoverInv' /\ LockInv'
  <2>1. UNCHANGED <<db, tx>>
    BY <1>2 DEF Authenticate
  <2>2. /\ req'[q].pc = "authenticated" /\ req'[q].locks = {}
        /\ \A r \in Requests \ {q} : req'[r] = req[r]
    BY <1>2, <1>types, AuthenticateTypes
  <2>3. Locks(q)' /\ req'[q].locks \cap tx.held = {}
    BY <2>2 DEF Locks, RedeemPhase
  <2> QED
    BY <1>cover, <2>1, <2>2, <2>3, OthersKeepLocks
<1>3. ASSUME NEW q \in Requests, LockStep(q)
      PROVE  CoverInv' /\ LockInv'
  <2>1. UNCHANGED <<db, tx>>
    BY <1>3, <1>types, LockSteps
  <2> QED
    BY <1>3, <1>cover, <2>1, LockStepKeeps
<1>4. ASSUME NEW q \in Requests, ConsumeAssertion(q)
      PROVE  CoverInv' /\ LockInv'
  BY <1>4, <1>cover, <1>end, <1>go DEF ConsumeAssertion, Goto, Refuse
<1>5. ASSUME NEW q \in Requests, Cleanup(q)
      PROVE  CoverInv' /\ LockInv'
  <2>1. UNCHANGED <<db, tx, req>>
    BY <1>5 DEF Cleanup, machineVars
  <2> QED
    BY <1>cover, <1>still, <2>1
<1>6. ASSUME NEW q \in Requests, Consumed(q)
      PROVE  CoverInv' /\ LockInv'
  BY <1>6, <1>cover, <1>end, <1>go DEF Consumed, Goto, Refuse
<1>7. ASSUME NEW q \in Requests, StoreFails(q) \/ Issue(q)
      PROVE  CoverInv' /\ LockInv'
  BY <1>7, <1>cover, <1>end DEF StoreFails, Issue, Refuse
<1>8. CASE Mutate
  <2>1. PICK result \in Tables, todo \in Seq(SUBSET Rows) :
          Begin(result, todo) /\ Covers(result, RowsOf(todo))
    BY <1>8, <1>types, MutationsCover
  <2>2. /\ UNCHANGED <<db, req>> /\ tx'.held = {} /\ tx'.todo = todo /\ tx'.result = result
    BY <2>1 DEF Begin
  <2>3. Covers(result, RowsOf(todo))'
    BY <2>1, <2>2 DEF Covers, KeyIsActive, RowsOf
  <2>4. CoverInv'
    BY <2>2, <2>3 DEF CoverInv
  <2> QED
    BY <1>still, <2>2, <2>4
<1>9. CASE WriteRows
  <2> DEFINE head == Head(tx.todo)
             tail == Tail(tx.todo)
  <2>1. /\ UNCHANGED <<db, req>> /\ tx # NoMutation
        /\ tx'.held = tx.held \cup head /\ tx'.todo = tail /\ tx'.result = tx.result
        /\ \A row \in head : ~Shared(row)
    BY <1>9, <1>types DEF WriteRows, Mutation
  <2>2. RowsOf(tx.todo) \subseteq head \cup RowsOf(tail)
    <3>1. tx.todo \in Seq(SUBSET Rows) /\ tx.todo # <<>>
      BY <1>9, <1>types DEF WriteRows, Mutation
    <3>2. /\ DOMAIN tx.todo = 1 .. Len(tx.todo) /\ Len(tx.todo) \in Nat
          /\ DOMAIN tail = 1 .. Len(tx.todo) - 1
          /\ head = tx.todo[1] /\ \A i \in 1 .. Len(tx.todo) - 1 : tail[i] = tx.todo[i + 1]
      BY <3>1
    <3>3. ASSUME NEW i \in DOMAIN tx.todo
          PROVE  tx.todo[i] \subseteq head \cup RowsOf(tail)
      <4>1. CASE i = 1
        BY <3>2, <4>1
      <4>2. CASE i # 1
        <5>1. i - 1 \in DOMAIN tail /\ tail[i - 1] = tx.todo[i]
          BY <3>2, <4>2
        <5> QED
          BY <5>1 DEF RowsOf
      <4> QED
        BY <4>1, <4>2
    <3> HIDE DEF head, tail
    <3> QED
      BY <3>3 DEF RowsOf
  <2> HIDE DEF head, tail
  <2>3. Covers(tx.result, tx.held \cup RowsOf(tx.todo))
    BY <2>1 DEF CoverInv
  <2>4. CoverInv'
    <3>1. tx.held \cup RowsOf(tx.todo) \subseteq tx'.held \cup RowsOf(tx'.todo)
      BY <2>1, <2>2
    <3> HIDE <2>2
    <3>2. ASSUME NEW R, NEW S, NEW result, R \subseteq S, Covers(result, R)
          PROVE  Covers(result, S)
      BY <3>2 DEF Covers
    <3>3. Covers(tx'.result, tx'.held \cup RowsOf(tx'.todo))
      BY <2>1, <2>3, <3>1, <3>2
    <3> QED
      BY <2>1, <3>3 DEF CoverInv, Covers, KeyIsActive, RowsOf
  <2>5. ASSUME NEW q \in Requests
        PROVE  Locks(q)' /\ req'[q].locks \cap tx'.held = {}
    <3>1. (Internal(q)' <=> Internal(q)) /\ (Grantable(q)' <=> Grantable(q))
      BY <2>1, GrantableSame
    <3>2. req[q].locks \cap head = {}
      BY <2>1 DEF Shared
    <3> QED
      BY <2>1, <3>1, <3>2 DEF LockInv, Locks
  <2> QED
    BY <2>4, <2>5 DEF LockInv
<1>10. CASE CommitMutation
  <2>1. CoverInv'
    BY <1>10 DEF CommitMutation, CoverInv
  <2> QED
    BY <1>10, <2>1, CommitKeepsGrants
<1>11. CASE MutationFails
  <2>1. CoverInv' /\ UNCHANGED <<db, req>> /\ tx'.held = {}
    BY <1>11, <1>none DEF MutationFails, CoverInv
  <2> QED
    BY <1>still, <2>1
<1> QED
  BY <1>1, <1>2, <1>3, <1>4, <1>5, <1>6, <1>7, <1>8, <1>9, <1>10, <1>11
     DEF MachineNext, LockStep, Mutate

LEMMA IssuedGrantable ==
  ASSUME MachineInv, LockInv, [MachineNext]_allVars, NEW q \in Requests,
         req[q].pc = "commit"
  PROVE  Grantable(q)
BY DEF LockInv, Locks

\* A token commits only for a client, key, resource and scopes that are in force when it
\* commits: a mutation waits for the rows under which it was decided.
THEOREM IssuedUnderAccess == MachineSpec => IssuedUnderCurrentAccess
<1>1. MachineInit => MachineInv /\ CoverInv /\ LockInv
  <2>1. MachineInit => MachineInv
    BY MachineStart
  <2>2. MachineInit => CoverInv
    BY DEF MachineInit, CoverInv
  <2>3. MachineInit => LockInv
    BY NoRequestIsOne DEF MachineInit, LockInv, Locks, RedeemPhase
  <2> QED
    BY <2>1, <2>2, <2>3
<1>2. MachineInv /\ CoverInv /\ LockInv /\ [MachineNext]_allVars
        => (MachineInv /\ CoverInv /\ LockInv)'
  <2>1. MachineInv /\ [MachineNext]_allVars => MachineInv'
    BY MachineTypeStep, CallStep DEF MachineInv
  <2> QED
    BY <2>1, AccessStep
<1>3. MachineInv /\ CoverInv /\ LockInv /\ [MachineNext]_allVars
        => [\A q \in Requests :
              req[q].pc = "commit" /\ req'[q].pc = "idle" /\ tokens' # tokens => Grantable(q)]_allVars
  BY IssuedGrantable
<1> QED
  BY <1>1, <1>2, <1>3, PTL DEF MachineSpec, IssuedUnderCurrentAccess

--------------------------------------------------------------------------------
(* The resource server *)

\* Beside a server the machine tokens are issued as without one.
LEMMA ServedIssues == ServedSpec => MachineSpec
<1>1. ServedInit => MachineInit
  BY DEF ServedInit
<1>2. [ServedNext]_ServedVars => [MachineNext]_allVars
  BY DEF ServedNext, ServedVars
<1> QED
  BY <1>1, <1>2, PTL DEF ServedSpec, MachineSpec

LEMMA ServedTypes == ServedSpec => []MachineTypes
<1>1. MachineInit => MachineInv
  BY MachineStart
<1>2. MachineInv /\ [MachineNext]_allVars => MachineInv'
  BY MachineTypeStep, CallStep DEF MachineInv
<1>3. MachineInv => MachineTypes
  BY DEF MachineInv
<1> QED
  BY <1>1, <1>2, <1>3, ServedIssues, PTL DEF MachineSpec

\* A mark that was accepted is remembered until it is no longer acceptable.
Remembered(m) ==
  /\ used[m] <= 1
  /\ used[m] > 0 => gone[m] # Never /\ (seen[m] = gone[m] \/ gone[m] <= clock)

ServerTypes ==
  /\ clock \in Instants
  /\ seen \in [Marks -> Nat] /\ gone \in [Marks -> Nat] /\ used \in [Marks -> Nat]

MarksInv == ServerTypes /\ \A m \in Marks : Remembered(m)

LEMMA PurgedType ==
  ASSUME ServerTypes
  PROVE  /\ Purged \in [Marks -> Nat]
         /\ \A m \in Marks : Purged[m] = IF seen[m] <= clock THEN Never ELSE seen[m]
BY DEF ServerTypes, Purged, Never, Instants

\* The store takes a mark in at most once while it is acceptable.
LEMMA ConsumeRemembers ==
  ASSUME MarksInv, NEW v \in Visits, NEW m, NEW next, ConsumeMark(v, m, next), clock' = clock
  PROVE  MarksInv'
<1>types. /\ clock \in Instants /\ seen \in [Marks -> Nat] /\ gone \in [Marks -> Nat]
          /\ used \in [Marks -> Nat]
  BY DEF MarksInv, ServerTypes
<1>purged. /\ Purged \in [Marks -> Nat]
           /\ \A n \in Marks : Purged[n] = IF seen[n] <= clock THEN Never ELSE seen[n]
  BY PurgedType DEF MarksInv
<1>gone. gone' = gone
  BY DEF ConsumeMark
<1>1. CASE ~IsFirst(m)
  <2>1. seen' = Purged /\ used' = used
    BY <1>1 DEF ConsumeMark
  <2>2. ASSUME NEW n \in Marks
        PROVE  Remembered(n)'
    <3>1. Remembered(n)
      BY DEF MarksInv
    <3> QED
      BY <1>types, <1>purged, <1>gone, <2>1, <3>1 DEF Remembered, Instants
  <2> QED
    BY <1>types, <1>purged, <1>gone, <2>1, <2>2 DEF MarksInv, ServerTypes
<1>2. CASE IsFirst(m)
  <2>1. /\ gone[m] > clock /\ Purged[m] = Never
        /\ seen' = [Purged EXCEPT ![m] = gone[m]]
        /\ used' = [used EXCEPT ![m] = @ + 1]
    BY <1>2 DEF IsFirst, ConsumeMark
  <2>2. CASE m \notin Marks
    <3>1. seen' = Purged /\ used' = used
      BY <1>purged, <1>types, <2>1, <2>2
    <3>2. ASSUME NEW n \in Marks
          PROVE  Remembered(n)'
      <4>1. Remembered(n)
        BY DEF MarksInv
      <4> QED
        BY <1>types, <1>purged, <1>gone, <3>1, <4>1 DEF Remembered, Instants
    <3> QED
      BY <1>types, <1>purged, <1>gone, <3>1, <3>2 DEF MarksInv, ServerTypes
  <2>3. CASE m \in Marks
    <3>1. gone[m] \in Nat /\ gone[m] # Never
      BY <1>types, <2>1, <2>3 DEF Never, Instants
    <3>2. used[m] = 0
      <4>1. Remembered(m) /\ used[m] \in Nat
        BY <1>types, <2>3 DEF MarksInv
      <4> QED
        BY <1>types, <1>purged, <2>1, <2>3, <3>1, <4>1 DEF Remembered, Instants
    <3>3. seen' \in [Marks -> Nat] /\ used' \in [Marks -> Nat]
      <4>1. seen' \in [Marks -> Nat]
        BY <1>purged, <2>1, <3>1
      <4>2. used' \in [Marks -> Nat]
        BY <1>types, <2>1, <2>3
      <4> QED
        BY <4>1, <4>2
    <3>4. ASSUME NEW n \in Marks
          PROVE  Remembered(n)'
      <4>1. Remembered(n)
        BY DEF MarksInv
      <4>2. CASE n = m
        BY <1>types, <1>purged, <1>gone, <2>1, <2>3, <3>1, <3>2, <4>2 DEF Remembered
      <4>3. CASE n # m
        BY <1>types, <1>purged, <1>gone, <2>1, <4>1, <4>3 DEF Remembered, Instants
      <4> QED
        BY <4>2, <4>3
    <3> QED
      BY <1>types, <1>gone, <3>3, <3>4 DEF MarksInv, ServerTypes
  <2> QED
    BY <2>2, <2>3
<1> QED
  BY <1>1, <1>2

\* What a request presents for the first time gets its life.
LEMMA PresentRemembers ==
  ASSUME MarksInv, NEW v \in Visits, Present(v), clock' = clock
  PROVE  MarksInv'
<1>types. /\ clock \in Instants /\ seen \in [Marks -> Nat] /\ gone \in [Marks -> Nat]
          /\ used \in [Marks -> Nat]
  BY DEF MarksInv, ServerTypes
<1> DEFINE marks(kind, proof, assertion) ==
             IF kind = "grant" THEN {proof, assertion}
             ELSE IF kind = "machine" THEN {proof} ELSE {assertion}
           given(S) == [m \in Marks |->
             IF m \in S /\ gone[m] = Never
             THEN clock + (IF m \in Proofs THEN ProofLife ELSE AssertionLife) ELSE gone[m]]
<1>0. \E kind \in {"grant", "machine", "skills"}, kid \in SigningKeys,
         proof \in Proofs, assertion \in Assertions :
        gone' = given(marks(kind, proof, assertion))
  BY ZenonT(60) DEF Present
<1> HIDE DEF given, marks
<1>1. PICK S : gone' = given(S)
  BY <1>0
<1> USE DEF given
<1>2. /\ gone' \in [Marks -> Nat]
      /\ \A m \in Marks : gone[m] # Never => gone'[m] = gone[m]
  BY <1>types, <1>1, DurationsAreNat DEF Instants
<1>3. UNCHANGED <<seen, used>>
  BY DEF Present, storeVars
<1>4. ASSUME NEW m \in Marks
      PROVE  Remembered(m)'
  <2>1. Remembered(m)
    BY DEF MarksInv
  <2> QED
    BY <1>2, <1>3, <2>1 DEF Remembered
<1> QED
  BY <1>types, <1>2, <1>3, <1>4 DEF MarksInv, ServerTypes

ServerMove(v) == \/ Validate(v) \/ Continue(v) \/ LookUpAgain(v) \/ VerifyToken(v) \/ CheckProof(v)
FetchMove == Rotate \/ FetchMetadata \/ ServeKeys \/ KeysArrive \/ FetchFails

LEMMA MarksStep ==
  ASSUME MarksInv, MachineTypes, [ServedNext]_ServedVars
  PROVE  MarksInv'
<1>clock. clock \in Instants /\ clock' \in Instants /\ clock <= clock'
  <2>1. [MachineNext]_allVars
    BY DEF ServedNext, ServedVars
  <2> QED
    BY <2>1, ClockGrows
<1>still. ASSUME UNCHANGED <<seen, gone, used>> PROVE MarksInv'
  <2>1. ASSUME NEW m \in Marks PROVE Remembered(m)'
    <3>1. Remembered(m) /\ gone[m] \in Nat
      BY DEF MarksInv, ServerTypes
    <3> QED
      BY <1>clock, <1>still, <3>1 DEF Remembered, Instants
  <2> QED
    BY <1>clock, <1>still, <2>1 DEF MarksInv, ServerTypes
<1>1. CASE UNCHANGED serverVars
  BY <1>1, <1>still DEF serverVars, storeVars
<1>2. CASE ServerStep /\ UNCHANGED allVars
  <2>1. clock' = clock
    BY <1>2 DEF allVars, vars
  <2>2. CASE FetchMove \/ \E v \in Visits : ServerMove(v)
    <3>1. UNCHANGED <<seen, gone, used>>
      BY <2>2 DEF FetchMove, ServerMove, Rotate, FetchMetadata, ServeKeys, KeysArrive, FetchFails,
                  Validate, Continue, LookUpAgain, VerifyToken, CheckProof, storeVars
    <3> QED
      BY <3>1, <1>still
  <2>3. ASSUME NEW v \in Visits, Present(v)
        PROVE  MarksInv'
    BY <2>1, <2>3, PresentRemembers
  <2>4. ASSUME NEW v \in Visits, ConsumeProof(v) \/ RedeemAssertion(v)
        PROVE  MarksInv'
    BY <2>1, <2>4, ConsumeRemembers DEF ConsumeProof, RedeemAssertion
  <2> QED
    BY <1>2, <2>2, <2>3, <2>4 DEF ServerStep, FetchMove, ServerMove
<1> QED
  BY <1>1, <1>2 DEF ServedNext, ServedVars

\* A proof or an assertion is accepted once, however long a request waits between its
\* checks and the store: while it is acceptable the store remembers it.
THEOREM MarksUsedOnce == ServedSpec => []UsedOnce
<1>1. ServedInit => MarksInv
  <2>1. ServedInit => clock \in Instants
    BY MachineStart DEF ServedInit, MachineInv, MachineTypes, TypeOK
  <2> QED
    BY <2>1 DEF ServedInit, ServerInit, MarksInv, ServerTypes, Remembered, Never
<1>2. ServedSpec => []MachineTypes
  BY ServedTypes
<1>3. MarksInv /\ MachineTypes /\ [ServedNext]_ServedVars => MarksInv'
  BY MarksStep
<1>4. MarksInv => UsedOnce
  BY DEF MarksInv, Remembered, UsedOnce
<1> QED
  BY <1>1, <1>2, <1>3, <1>4, PTL DEF ServedSpec

--------------------------------------------------------------------------------
(* The server follows the key *)

VisitPhase == {"idle", "validate", "first", "known", "second", "refreshed", "verify", "proof",
               "consumeProof", "consumeAssertion"}
Visit == [pc : VisitPhase, kind : {"grant", "machine", "skills", None},
          kid : SigningKeys \cup {None}, retried : BOOLEAN, proof : Proofs \cup {None},
          assertion : Assertions \cup {None}]
Fetch == [pc : {"none", "metadata", "keys", "served"}, asked : Instants \cup {Never},
          key : SigningKeys \cup {None}]

KeyTypes ==
  /\ clock \in Instants /\ current \in SigningKeys /\ rotated \in Instants
  /\ served \in [SigningKeys -> Instants \cup {Never}]
  /\ cached \in SigningKeys \cup {None}
  /\ jwksExpiresAt \in Nat /\ unknownRefreshAt \in Nat
  /\ fetch \in Fetch

\* Weldall publishes no key again that it has changed.
Published ==
  /\ rotated <= clock /\ served[current] = Never
  /\ \A k \in SigningKeys : served[k] <= rotated

\* A refresh is answered in time, with the key of a moment since it was asked for.
Fetching ==
  /\ fetch.pc # "none" =>
       fetch.asked \in Instants /\ fetch.asked <= clock /\ clock <= fetch.asked + Timeout
  /\ fetch.pc = "served" =>
       fetch.key \in SigningKeys /\ (fetch.key # current => fetch.asked <= served[fetch.key])

\* A cached key was published one time-out before it arrived, and one that has changed
\* is cached no longer than the TTL after that.
Cached ==
  cached # None =>
    /\ jwksExpiresAt <= clock + Ttl
    /\ cached # current => /\ served[cached] # Never
                           /\ jwksExpiresAt <= served[cached] + Timeout + Ttl

\* The throttle starts with a refresh that has arrived since, unless the last one failed.
Throttled ==
  /\ unknownRefreshAt <= clock + Throttle
  /\ fetch.pc = "none" /\ ~fetchFailed /\ cached # None =>
       unknownRefreshAt + Ttl <= jwksExpiresAt + Throttle

\* Whoever waited for a refresh goes on the moment it arrives.
Prompt(v) ==
  visit[v].pc \in {"known", "refreshed"} => cached # None /\ jwksExpiresAt = clock + Ttl

KeysInv ==
  /\ KeyTypes /\ visit \in [Visits -> Visit]
  /\ Published /\ Fetching /\ Cached /\ Throttled
  /\ \A v \in Visits : Prompt(v)

LEMMA ServerNumbers ==
  /\ Ttl \in Nat \ {0} /\ Throttle \in Nat \ {0} /\ Timeout \in Nat \ {0}
  /\ \A n \in Instants : n \in Nat /\ n # 0
  /\ Never = 0
BY DurationsAreNat DEF Instants, Never

LEMMA LaterStill ==
  \A a, now, then, length \in Nat : a <= now + length /\ now <= then => a <= then + length
OBVIOUS

LEMMA NoVisitIsOne == NoVisit \in Visit /\ NoVisit.pc = "idle"
BY DEF NoVisit, Visit, VisitPhase

\* A visit goes on, ends, or validates once more.
VisitMove(v) ==
  \/ \E pc \in VisitPhase \ {"known", "refreshed"} : Step(v, pc)
  \/ Done(v)
  \/ visit' = [visit EXCEPT ![v].pc = "validate", ![v].retried = TRUE]

LEMMA VisitMoves ==
  ASSUME visit \in [Visits -> Visit], NEW v \in Visits, VisitMove(v)
  PROVE  /\ visit' \in [Visits -> Visit]
         /\ \A w \in Visits \ {v} : visit'[w] = visit[w]
         /\ visit'[v].pc \notin {"known", "refreshed"}
<1>1. ASSUME NEW pc \in VisitPhase \ {"known", "refreshed"}, Step(v, pc)
      PROVE  /\ visit' \in [Visits -> Visit] /\ visit'[v].pc = pc
             /\ \A w \in Visits \ {v} : visit'[w] = visit[w]
  BY <1>1 DEF Step, Visit
<1>2. CASE Done(v)
  BY <1>2, NoVisitIsOne DEF Done
<1>3. CASE visit' = [visit EXCEPT ![v].pc = "validate", ![v].retried = TRUE]
  <2>1. "validate" \in VisitPhase
    BY DEF VisitPhase
  <2>2. /\ visit' \in [Visits -> Visit] /\ visit'[v].pc = "validate"
        /\ \A w \in Visits \ {v} : visit'[w] = visit[w]
    BY <1>3, <2>1 DEF Visit
  <2> QED
    BY <2>2
<1> QED
  BY <1>1, <1>2, <1>3 DEF VisitMove

\* A refresh under way goes on, or one begins.
LEMMA JoinedOrFetched ==
  ASSUME KeysInv, NEW v, NEW pc, JoinOrFetch(v, pc)
  PROVE  /\ fetch' \in Fetch /\ fetch'.pc # "none"
         /\ fetch'.asked \in Instants /\ fetch'.asked <= clock /\ clock <= fetch'.asked + Timeout
         /\ fetch'.pc = "served" => fetch' = fetch
<1>types. clock \in Instants /\ fetch \in Fetch
  BY DEF KeysInv, KeyTypes
<1>1. CASE fetch.pc # "none"
  <2>1. fetch' = fetch
    BY <1>1 DEF JoinOrFetch
  <2> QED
    BY <1>1, <1>types, <2>1 DEF KeysInv, Fetching
<1>2. CASE fetch.pc = "none"
  <2>1. \E phase \in {"keys", "metadata"} : fetch' = [NoFetch EXCEPT !.pc = phase, !.asked = clock]
    BY <1>2 DEF JoinOrFetch
  <2>2. /\ fetch' \in Fetch /\ fetch'.pc \in {"keys", "metadata"} /\ fetch'.asked = clock
    BY <1>types, <2>1 DEF NoFetch, Fetch
  <2>3. clock <= clock /\ clock <= clock + Timeout
    BY <1>types, ServerNumbers
  <2> QED
    BY <1>types, <2>2, <2>3
<1> QED
  BY <1>1, <1>2

\* The three ends of a look-up.
Refreshes(v) == unknownRefreshAt' = clock + Throttle /\ JoinOrFetch(v, "second")
Finds(v) == cached = visit[v].kid /\ Step(v, "verify") /\ UNCHANGED <<unknownRefreshAt, fetch>>
Misses(v) ==
  /\ cached # visit[v].kid /\ clock < unknownRefreshAt
  /\ Unknown(v) /\ UNCHANGED <<unknownRefreshAt, fetch>>

LEMMA LookUpEnds ==
  ASSUME KeysInv, NEW v, LookUp(v)
  PROVE  Refreshes(v) \/ Finds(v) \/ Misses(v)
<1>1. clock \in Nat /\ unknownRefreshAt \in Nat
  BY ServerNumbers DEF KeysInv, KeyTypes
<1> QED
  BY <1>1 DEF LookUp, NeedsKey, Refreshes, Finds, Misses

LEMMA MovesAre ==
  ASSUME NEW v \in Visits
  PROVE  /\ Unknown(v) => VisitMove(v)
         /\ \A pc \in VisitPhase \ {"known", "refreshed"} : Step(v, pc) => VisitMove(v)
         /\ Done(v) => VisitMove(v)
         /\ \A pc : JoinOrFetch(v, pc) => Step(v, pc)
BY DEF Unknown, VisitMove, JoinOrFetch

\* Moves of visits that leave the keys as they are, or begin a refresh.
LEMMA MoveKeepsKeys ==
  ASSUME KeysInv, NEW v \in Visits, VisitMove(v), clock' = clock,
         UNCHANGED <<publishedVars, cached, jwksExpiresAt, fetchFailed>>,
         \/ UNCHANGED <<fetch, unknownRefreshAt>>
         \/ /\ \E pc : JoinOrFetch(v, pc)
            /\ unknownRefreshAt' \in {unknownRefreshAt, clock + Throttle}
  PROVE  KeysInv'
<1>types. KeyTypes /\ visit \in [Visits -> Visit]
  BY DEF KeysInv
<1>same. UNCHANGED <<clock, current, served, rotated, cached, jwksExpiresAt, fetchFailed>>
  BY DEF publishedVars
<1>visits. visit' \in [Visits -> Visit] /\ \A w \in Visits : Prompt(w)'
  BY <1>types, <1>same, VisitMoves DEF KeysInv, Prompt
<1>kept. Published' /\ Cached'
  BY <1>same DEF KeysInv, Published, Cached
<1>1. CASE UNCHANGED <<fetch, unknownRefreshAt>>
  BY <1>same, <1>types, <1>visits, <1>kept, <1>1 DEF KeysInv, KeyTypes, Fetching, Throttled
<1>2. ASSUME NEW pc, JoinOrFetch(v, pc), unknownRefreshAt' \in {unknownRefreshAt, clock + Throttle}
      PROVE  KeysInv'
  <2>1. /\ fetch' \in Fetch /\ fetch'.pc # "none"
        /\ fetch'.asked \in Instants /\ fetch'.asked <= clock /\ clock <= fetch'.asked + Timeout
        /\ fetch'.pc = "served" => fetch' = fetch
    BY <1>2, JoinedOrFetched
  <2>2. Fetching'
    BY <1>same, <2>1 DEF KeysInv, Fetching
  <2>3. unknownRefreshAt' \in Nat /\ Throttled'
    <3>1. clock \in Nat /\ unknownRefreshAt \in Nat /\ unknownRefreshAt <= clock + Throttle
      BY <1>types, ServerNumbers DEF KeyTypes, KeysInv, Throttled
    <3>2. unknownRefreshAt' \in Nat /\ unknownRefreshAt' <= clock + Throttle
      BY <1>2, <3>1, ServerNumbers
    <3> QED
      BY <1>same, <2>1, <3>2 DEF Throttled
  <2> QED
    BY <1>same, <1>types, <1>visits, <1>kept, <2>1, <2>2, <2>3 DEF KeysInv, KeyTypes
<1> QED
  BY <1>1, <1>2

LEMMA KeysMove ==
  ASSUME KeysInv, NEW v \in Visits, ServerMove(v) \/ ConsumeProof(v) \/ RedeemAssertion(v),
         clock' = clock
  PROVE  KeysInv'
<1> USE DEF VisitPhase
<1>look. ASSUME LookUp(v), UNCHANGED <<publishedVars, cached, jwksExpiresAt, fetchFailed>>
         PROVE  KeysInv'
  <2>1. CASE Refreshes(v)
    <3>1. JoinOrFetch(v, "second") /\ unknownRefreshAt' = clock + Throttle
      BY <2>1 DEF Refreshes
    <3> QED
      BY <1>look, <3>1, MovesAre, MoveKeepsKeys
  <2>2. CASE Finds(v)
    BY <1>look, <2>2, MovesAre, MoveKeepsKeys DEF Finds
  <2>3. CASE Misses(v)
    BY <1>look, <2>3, MovesAre, MoveKeepsKeys DEF Misses
  <2> QED
    BY <1>look, <2>1, <2>2, <2>3, LookUpEnds
<1>1. CASE Validate(v)
  <2>1. UNCHANGED <<publishedVars, cached, jwksExpiresAt, fetchFailed>>
    BY <1>1 DEF Validate
  <2>2. CASE LookUp(v)
    BY <1>look, <2>1, <2>2
  <2>3. CASE JoinOrFetch(v, "first") /\ UNCHANGED unknownRefreshAt
    <3>1. VisitMove(v)
      BY <2>3, MovesAre
    <3> QED
      BY <2>1, <2>3, <3>1, MoveKeepsKeys
  <2> QED
    BY <1>1, <2>2, <2>3 DEF Validate
<1>2. CASE Continue(v)
  BY <1>2, <1>look DEF Continue
<1>3. CASE LookUpAgain(v)
  <2>1. VisitMove(v)
    BY <1>3, MovesAre DEF LookUpAgain
  <2> QED
    BY <1>3, <2>1, MoveKeepsKeys DEF LookUpAgain, discoveryVars
<1>4. CASE VerifyToken(v)
  <2>1. VisitMove(v)
    <3>1. CASE Accepted(v)
      <4>1. \E pc \in {"consumeAssertion", "proof"} : Step(v, pc)
        BY <3>1 DEF Accepted
      <4> QED
        BY <4>1, MovesAre
    <3>2. CASE Rejected(v)
      BY <3>2 DEF Rejected, VisitMove
    <3> QED
      BY <1>4, <3>1, <3>2 DEF VerifyToken
  <2> QED
    BY <1>4, <2>1, MoveKeepsKeys DEF VerifyToken, discoveryVars
<1>5. CASE CheckProof(v)
  <2>1. VisitMove(v)
    BY <1>5, MovesAre DEF CheckProof
  <2> QED
    BY <1>5, <2>1, MoveKeepsKeys DEF CheckProof, discoveryVars
<1>6. ASSUME NEW m, NEW next \in {"idle", "consumeAssertion"}, ConsumeMark(v, m, next)
      PROVE  KeysInv'
  <2>1. VisitMove(v)
    BY <1>6, MovesAre DEF ConsumeMark
  <2> QED
    BY <1>6, <2>1, MoveKeepsKeys DEF ConsumeMark, discoveryVars
<1>7. CASE ConsumeProof(v) \/ RedeemAssertion(v)
  BY <1>6, <1>7 DEF ConsumeProof, RedeemAssertion
<1> QED
  BY <1>1, <1>2, <1>3, <1>4, <1>5, <1>7 DEF ServerMove

LEMMA KeysPresent ==
  ASSUME KeysInv, NEW v \in Visits, Present(v), clock' = clock
  PROVE  KeysInv'
<1>1. \E kind \in {"grant", "machine", "skills"}, kid \in SigningKeys,
         proof \in Proofs, assertion \in Assertions :
        visit' = [visit EXCEPT ![v] = [NoVisit EXCEPT !.pc = "validate", !.kind = kind,
                    !.kid = kid, !.proof = proof, !.assertion = assertion]]
  BY Zenon DEF Present
<1>2. PICK kind \in {"grant", "machine", "skills"}, kid \in SigningKeys,
           proof \in Proofs, assertion \in Assertions :
        visit' = [visit EXCEPT ![v] = [NoVisit EXCEPT !.pc = "validate", !.kind = kind,
                    !.kid = kid, !.proof = proof, !.assertion = assertion]]
  BY <1>1
<1> DEFINE new == [NoVisit EXCEPT !.pc = "validate", !.kind = kind, !.kid = kid,
                     !.proof = proof, !.assertion = assertion]
<1>3. new \in Visit /\ new.pc = "validate"
  BY DEF NoVisit, Visit, VisitPhase
<1>4. visit' = [visit EXCEPT ![v] = new]
  BY <1>2
<1> HIDE DEF new
<1>5. /\ visit' \in [Visits -> Visit]
      /\ \A w \in Visits : visit'[w].pc \in {"known", "refreshed"} => visit'[w] = visit[w]
  BY <1>3, <1>4 DEF KeysInv
<1>6. UNCHANGED <<publishedVars, discoveryVars>>
  BY DEF Present
<1> QED
  BY <1>5, <1>6 DEF KeysInv, KeyTypes, Published, Fetching, Cached, Throttled, Prompt,
                    publishedVars, discoveryVars

LEMMA KeysFetch ==
  ASSUME KeysInv, FetchMove, clock' = clock
  PROVE  KeysInv'
<1>types. /\ KeyTypes /\ visit \in [Visits -> Visit] /\ fetch \in Fetch
          /\ clock \in Nat /\ jwksExpiresAt \in Nat /\ unknownRefreshAt \in Nat
  BY ServerNumbers DEF KeysInv, KeyTypes
<1>1. CASE Rotate
  <2>1. PICK k \in SigningKeys \ {current} : served[k] = Never /\ current' = k
    BY <1>1 DEF Rotate
  <2>2. /\ served' = [served EXCEPT ![current] = clock] /\ rotated' = clock
        /\ UNCHANGED <<cached, jwksExpiresAt, unknownRefreshAt, fetch, fetchFailed, visit>>
    BY <1>1 DEF Rotate, discoveryVars
  <2>3. /\ clock \in Instants /\ current \in SigningKeys
        /\ served \in [SigningKeys -> Instants \cup {Never}]
    BY <1>types DEF KeyTypes
  <2>4. /\ served' \in [SigningKeys -> Instants \cup {Never}]
        /\ served'[current] = clock
        /\ \A x \in SigningKeys \ {current} : served'[x] = served[x]
    BY <2>2, <2>3
  <2>5. KeyTypes'
    BY <1>types, <2>1, <2>2, <2>3, <2>4 DEF KeyTypes
  <2>6. Published'
    <3>1. \A x \in SigningKeys : served'[x] <= clock
      <4>1. ASSUME NEW x \in SigningKeys
            PROVE  served'[x] <= clock
        <5>1. served[x] <= rotated /\ rotated <= clock /\ served[x] \in Nat /\ rotated \in Nat
          <6>1. served[x] <= rotated /\ rotated <= clock /\ rotated \in Nat
            BY <1>types, ServerNumbers DEF KeysInv, Published, KeyTypes
          <6>2. served[x] \in Instants \cup {Never}
            BY <2>3
          <6> QED
            BY <6>1, <6>2, ServerNumbers
        <5> QED
          BY <1>types, <2>4, <5>1
      <4> QED
        BY <4>1
    <3> QED
      BY <1>types, <2>1, <2>2, <2>4, <3>1 DEF Published
  <2>7. Fetching'
    <3>1. SUFFICES ASSUME fetch.pc = "served"
                   PROVE  fetch.key # k => fetch.asked <= served'[fetch.key]
      BY <2>1, <2>2 DEF KeysInv, Fetching
    <3>2. /\ fetch.key \in SigningKeys /\ fetch.asked <= clock /\ fetch.asked \in Nat
          /\ fetch.key # current => fetch.asked <= served[fetch.key]
      BY <3>1, ServerNumbers DEF KeysInv, Fetching
    <3> QED
      BY <2>4, <3>2
  <2>8. Cached'
    <3>1. SUFFICES ASSUME cached # None, cached # k
                   PROVE  /\ served'[cached] # Never
                          /\ jwksExpiresAt <= served'[cached] + Timeout + Ttl
      BY <2>1, <2>2 DEF KeysInv, Cached
    <3>2. cached \in SigningKeys
      BY <1>types, <3>1 DEF KeyTypes
    <3>3. CASE cached = current
      <4>1. jwksExpiresAt <= clock + Ttl
        BY <3>1 DEF KeysInv, Cached
      <4> QED
        BY <1>types, <2>3, <2>4, <3>3, <4>1, ServerNumbers
    <3>4. CASE cached # current
      BY <2>4, <3>1, <3>2, <3>4 DEF KeysInv, Cached
    <3> QED
      BY <3>3, <3>4
  <2>9. Throttled' /\ \A v \in Visits : Prompt(v)'
    BY <2>2 DEF KeysInv, Throttled, Prompt
  <2> QED
    BY <1>types, <2>2, <2>5, <2>6, <2>7, <2>8, <2>9 DEF KeysInv
<1>2. CASE FetchMetadata \/ ServeKeys
  <2>1. UNCHANGED <<current, served, rotated, cached, jwksExpiresAt, unknownRefreshAt, fetchFailed, visit>>
    BY <1>2 DEF FetchMetadata, ServeKeys, publishedVars
  <2>2. /\ fetch' \in Fetch /\ fetch'.pc # "none"
        /\ fetch'.asked \in Instants /\ fetch'.asked <= clock /\ clock <= fetch'.asked + Timeout
        /\ fetch'.pc = "served" => fetch'.key = current
    <3>1. CASE FetchMetadata
      <4>1. fetch' = [fetch EXCEPT !.pc = "keys", !.asked = clock] /\ clock \in Instants
        BY <1>types, <3>1 DEF FetchMetadata, KeyTypes
      <4>2. fetch' \in Fetch /\ fetch'.pc = "keys" /\ fetch'.asked = clock
        BY <1>types, <4>1 DEF Fetch
      <4> QED
        BY <1>types, <4>1, <4>2, ServerNumbers
    <3>2. CASE ServeKeys
      <4>1. /\ fetch' = [fetch EXCEPT !.pc = "served", !.key = current] /\ current \in SigningKeys
            /\ fetch.pc # "none"
        BY <1>types, <3>2 DEF ServeKeys, KeyTypes
      <4>2. fetch' \in Fetch /\ fetch'.pc = "served" /\ fetch'.key = current /\ fetch'.asked = fetch.asked
        BY <1>types, <4>1 DEF Fetch
      <4> QED
        BY <4>1, <4>2 DEF KeysInv, Fetching
    <3> QED
      BY <1>2, <3>1, <3>2
  <2>3. Fetching'
    BY <1>types, <2>1, <2>2 DEF Fetching, KeyTypes
  <2>4. Throttled'
    BY <2>1, <2>2 DEF KeysInv, Throttled
  <2> QED
    BY <1>types, <2>1, <2>2, <2>3, <2>4 DEF KeysInv, KeyTypes, Published, Cached, Prompt
<1>3. CASE KeysArrive
  <2>1. /\ fetch.pc = "served" /\ cached' = fetch.key /\ jwksExpiresAt' = clock + Ttl
        /\ fetch' = NoFetch /\ UNCHANGED <<current, served, rotated, unknownRefreshAt>>
    BY <1>3 DEF KeysArrive, publishedVars
  <2>2. /\ fetch.key \in SigningKeys /\ fetch.asked \in Instants
        /\ clock <= fetch.asked + Timeout
        /\ fetch.key # current => fetch.asked <= served[fetch.key]
    BY <2>1 DEF KeysInv, Fetching
  <2>3. NoFetch \in Fetch /\ NoFetch.pc = "none"
    BY DEF NoFetch, Fetch
  <2>4. KeyTypes'
    BY <1>types, <2>1, <2>2, <2>3, ServerNumbers DEF KeyTypes
  <2>5. visit' \in [Visits -> Visit]
    <3>1. ASSUME NEW v \in Visits
          PROVE  visit'[v] \in Visit
      <4>1. visit[v] \in Visit
        BY <1>types
      <4>2. [visit[v] EXCEPT !.pc = "known"] \in Visit /\ [visit[v] EXCEPT !.pc = "refreshed"] \in Visit
        BY <4>1 DEF Visit, VisitPhase
      <4> QED
        BY <1>3, <4>1, <4>2 DEF KeysArrive
    <3>2. visit' = [v \in Visits |-> visit'[v]]
      BY <1>3 DEF KeysArrive
    <3> QED
      BY <3>1, <3>2
  <2>6. Published' /\ Fetching'
    BY <2>1, <2>3, ServerNumbers DEF KeysInv, Published, Fetching
  <2>7. Cached'
    <3>1. fetch.key # current =>
            served[fetch.key] # Never /\ clock + Ttl <= served[fetch.key] + Timeout + Ttl
      <4>1. SUFFICES ASSUME fetch.key # current
                     PROVE  served[fetch.key] # Never /\ clock + Ttl <= served[fetch.key] + Timeout + Ttl
        OBVIOUS
      <4>2. served[fetch.key] \in Nat /\ fetch.asked \in Nat /\ fetch.asked # 0
        <5>1. served[fetch.key] \in Instants \cup {Never}
          BY <1>types, <2>2 DEF KeyTypes
        <5> QED
          BY <2>2, <5>1, ServerNumbers
      <4> QED
        BY <1>types, <2>2, <4>1, <4>2, ServerNumbers
    <3>2. clock + Ttl <= clock + Ttl
      BY <1>types, ServerNumbers
    <3> QED
      BY <2>1, <3>1, <3>2 DEF Cached
  <2>8. Throttled'
    <3>1. unknownRefreshAt <= clock + Throttle
      BY DEF KeysInv, Throttled
    <3> QED
      BY <1>types, <2>1, <3>1, ServerNumbers DEF Throttled
  <2>9. \A v \in Visits : Prompt(v)'
    BY <2>1, <2>2, NoneIsNoKey DEF Prompt
  <2> QED
    BY <2>4, <2>5, <2>6, <2>7, <2>8, <2>9 DEF KeysInv
<1>4. CASE FetchFails
  <2>1. /\ fetch' = NoFetch /\ fetchFailed' = TRUE
        /\ UNCHANGED <<current, served, rotated, cached, jwksExpiresAt, unknownRefreshAt>>
    BY <1>4 DEF FetchFails, publishedVars
  <2>2. NoFetch \in Fetch /\ NoFetch.pc = "none"
    BY DEF NoFetch, Fetch
  <2>3. /\ visit' \in [Visits -> Visit]
        /\ \A v \in Visits : visit'[v].pc \in {"known", "refreshed"} => visit'[v] = visit[v]
    BY <1>4, <1>types, NoVisitIsOne DEF FetchFails
  <2> QED
    BY <1>types, <2>1, <2>2, <2>3
       DEF KeysInv, KeyTypes, Published, Fetching, Cached, Throttled, Prompt
<1> QED
  BY <1>1, <1>2, <1>3, <1>4 DEF FetchMove

\* Time passes only when nobody has something to do, and no refresh outlasts its time-out.
LEMMA KeysTime ==
  ASSUME KeysInv, UNCHANGED serverVars, clock' \in Instants, clock <= clock',
         clock' # clock => Settled /\ InTime
  PROVE  KeysInv'
<1>types. KeyTypes /\ visit \in [Visits -> Visit]
  BY DEF KeysInv
<1>same. UNCHANGED <<current, served, rotated, cached, jwksExpiresAt, unknownRefreshAt, fetch,
                     fetchFailed, visit>>
  BY DEF serverVars, publishedVars, discoveryVars
<1>grows. clock <= clock'
  OBVIOUS
<1>lengths. Ttl \in Nat /\ Throttle \in Nat
  BY ServerNumbers
<1>1. CASE clock' = clock
  BY <1>same, <1>1 DEF KeysInv, KeyTypes, Published, Fetching, Cached, Throttled, Prompt
<1>2. CASE clock' # clock
  <2>1. /\ clock \in Nat /\ clock' \in Nat /\ rotated \in Nat /\ jwksExpiresAt \in Nat
        /\ unknownRefreshAt \in Nat
    BY <1>types, ServerNumbers DEF KeyTypes
  <2>2. KeyTypes' /\ Published'
    BY <1>same, <1>types, <2>1 DEF KeyTypes, KeysInv, Published
  <2>3. Fetching'
    <3>1. fetch.pc # "none" => fetch.asked \in Nat /\ clock' <= fetch.asked + Timeout
      BY <1>2, ServerNumbers DEF InTime, KeysInv, Fetching
    <3> QED
      BY <1>same, <2>1, <3>1 DEF KeysInv, Fetching
  <2>4. Cached'
    <3>1. cached # None => jwksExpiresAt <= clock' + Ttl
      <4>1. cached # None => jwksExpiresAt <= clock + Ttl
        BY DEF KeysInv, Cached
      <4> QED
        BY <1>grows, <1>lengths, <2>1, <4>1, LaterStill
    <3> QED
      BY <1>same, <3>1 DEF KeysInv, Cached
  <2>6. Throttled'
    <3>1. unknownRefreshAt <= clock' + Throttle
      <4>1. unknownRefreshAt <= clock + Throttle
        BY DEF KeysInv, Throttled
      <4> QED
        BY <1>grows, <1>lengths, <2>1, <4>1, LaterStill
    <3> QED
      BY <1>same, <3>1 DEF KeysInv, Throttled
  <2>5. \A v \in Visits : Prompt(v)'
    BY <1>2, <1>same DEF Settled, Prompt
  <2> QED
    BY <1>types, <1>same, <2>2, <2>3, <2>4, <2>6, <2>5 DEF KeysInv
<1> QED
  BY <1>1, <1>2

LEMMA KeysStep ==
  ASSUME KeysInv, MachineTypes, [ServedNext]_ServedVars
  PROVE  KeysInv'
<1>clock. clock \in Instants /\ clock' \in Instants /\ clock <= clock'
  <2>1. [MachineNext]_allVars
    BY DEF ServedNext, ServedVars
  <2> QED
    BY <2>1, ClockGrows
<1>1. CASE UNCHANGED ServedVars
  BY <1>1, <1>clock, KeysTime DEF ServedVars, allVars, vars
<1>2. CASE MachineNext /\ UNCHANGED serverVars /\ (clock' # clock => Settled /\ InTime)
  BY <1>2, <1>clock, KeysTime
<1>3. CASE ServerStep /\ UNCHANGED allVars
  <2>1. clock' = clock
    BY <1>3 DEF allVars, vars
  <2> QED
    BY <1>3, <2>1, KeysMove, KeysPresent, KeysFetch DEF ServerStep, FetchMove, ServerMove
<1> QED
  BY <1>1, <1>2, <1>3 DEF ServedNext

LEMMA KeysStart == ServedInit => KeysInv
<1> SUFFICES ASSUME ServedInit PROVE KeysInv
  OBVIOUS
<1>1. clock \in Instants
  BY MachineStart DEF ServedInit, MachineInv, MachineTypes, TypeOK
<1>2. /\ current \in SigningKeys /\ served = [k \in SigningKeys |-> Never] /\ rotated = clock
      /\ cached = None /\ jwksExpiresAt = Never /\ unknownRefreshAt = Never
      /\ fetch = NoFetch /\ visit = [v \in Visits |-> NoVisit]
  BY DEF ServedInit, ServerInit
<1>3. NoFetch \in Fetch /\ NoFetch.pc = "none"
  BY DEF NoFetch, Fetch
<1>4. KeyTypes /\ Fetching /\ Cached
  BY <1>1, <1>2, <1>3, ServerNumbers DEF KeyTypes, Fetching, Cached
<1>5. Published
  <2>1. Never <= clock /\ clock <= clock
    BY <1>1, ServerNumbers
  <2> QED
    BY <1>2, <2>1 DEF Published
<1>6. Throttled
  <2>1. Never <= clock + Throttle
    BY <1>1, ServerNumbers
  <2> QED
    BY <1>2, <2>1 DEF Throttled
<1>7. visit \in [Visits -> Visit] /\ \A v \in Visits : Prompt(v)
  BY <1>2, NoVisitIsOne DEF Prompt
<1> QED
  BY <1>4, <1>5, <1>6, <1>7 DEF KeysInv

\* Only the three ways to look a key up begin to verify a token or find its key unknown.
Asking == {"validate", "known", "refreshed"}
Elsewhere(v) ==
  \/ visit'[v] = visit[v]
  \/ visit[v].pc \notin Asking /\ (visit[v].pc = "verify" \/ visit'[v].pc # "verify")

LEMMA VisitEnds ==
  ASSUME visit \in [Visits -> Visit], NEW v \in Visits
  PROVE  /\ \A pc \in VisitPhase : Step(v, pc) =>
              /\ visit'[v].pc = pc
              /\ \A w \in Visits \ {v} : visit'[w] = visit[w]
         /\ Done(v) => /\ visit'[v].pc = "idle"
                       /\ \A w \in Visits \ {v} : visit'[w] = visit[w]
         /\ visit' = [visit EXCEPT ![v].pc = "validate", ![v].retried = TRUE] =>
              /\ visit'[v].pc = "validate"
              /\ \A w \in Visits \ {v} : visit'[w] = visit[w]
<1>1. ASSUME NEW pc \in VisitPhase, Step(v, pc)
      PROVE  visit'[v].pc = pc /\ \A w \in Visits \ {v} : visit'[w] = visit[w]
  BY <1>1 DEF Step, Visit
<1>2. ASSUME Done(v)
      PROVE  visit'[v].pc = "idle" /\ \A w \in Visits \ {v} : visit'[w] = visit[w]
  BY <1>2, NoVisitIsOne DEF Done
<1>3. ASSUME visit' = [visit EXCEPT ![v].pc = "validate", ![v].retried = TRUE]
      PROVE  visit'[v].pc = "validate" /\ \A w \in Visits \ {v} : visit'[w] = visit[w]
  BY <1>3 DEF Visit
<1> QED
  BY <1>1, <1>2, <1>3

LEMMA LookUpsAsk ==
  ASSUME KeysInv, NEW v \in Visits, ServerStep
  PROVE  Validate(v) \/ Continue(v) \/ LookUpAgain(v) \/ Elsewhere(v)
<1>types. visit \in [Visits -> Visit]
  BY DEF KeysInv
<1> USE DEF VisitPhase
<1>1. CASE Rotate \/ FetchMetadata \/ ServeKeys
  BY <1>1 DEF Rotate, FetchMetadata, ServeKeys, Elsewhere
<1>2. CASE KeysArrive \/ FetchFails
  <2>1. Settled
    BY <1>2 DEF KeysArrive, FetchFails
  <2>2. visit[v].pc \notin Asking
    BY <2>1 DEF Settled, Asking
  <2>3. visit'[v] = visit[v] \/ visit'[v].pc # "verify"
    <3>1. visit[v] \in Visit
      BY <1>types
    <3>2. CASE FetchFails
      BY <3>1, <3>2, NoVisitIsOne DEF FetchFails
    <3>3. CASE KeysArrive
      <4>1. /\ [visit[v] EXCEPT !.pc = "known"].pc = "known"
            /\ [visit[v] EXCEPT !.pc = "refreshed"].pc = "refreshed"
        BY <3>1 DEF Visit
      <4> QED
        BY <3>1, <3>3, <4>1 DEF KeysArrive
    <3> QED
      BY <1>2, <3>2, <3>3
  <2> QED
    BY <2>2, <2>3 DEF Elsewhere
<1>3. ASSUME NEW w \in Visits \ {v},
             \/ Present(w) \/ Validate(w) \/ Continue(w) \/ LookUpAgain(w) \/ VerifyToken(w)
             \/ CheckProof(w) \/ ConsumeProof(w) \/ RedeemAssertion(w)
      PROVE  visit'[v] = visit[v]
  <2>1. CASE Present(w)
    <3>1. \E new : visit' = [visit EXCEPT ![w] = new]
      BY <2>1, Zenon DEF Present
    <3> QED
      BY <1>types, <1>3, <3>1
  <2>2. CASE VisitMove(w) \/ \E pc \in VisitPhase : Step(w, pc)
    BY <1>types, <1>3, <2>2, VisitEnds DEF VisitMove
  <2>3. CASE Validate(w) \/ Continue(w) \/ LookUpAgain(w)
    <3>1. ASSUME LookUp(w)
          PROVE  VisitMove(w)
      BY <3>1, LookUpEnds, MovesAre DEF Refreshes, Finds, Misses
    <3>2. VisitMove(w)
      BY <2>3, <3>1, MovesAre DEF Validate, Continue, LookUpAgain
    <3> QED
      BY <2>2, <3>2
  <2>4. CASE VerifyToken(w) \/ CheckProof(w)
    <3>1. \/ \E pc \in VisitPhase : Step(w, pc)
          \/ Done(w)
          \/ visit' = [visit EXCEPT ![w].pc = "validate", ![w].retried = TRUE]
      BY <2>4 DEF VerifyToken, CheckProof, Accepted, Rejected
    <3> QED
      BY <2>2, <3>1 DEF VisitMove
  <2>5. CASE ConsumeProof(w) \/ RedeemAssertion(w)
    <3>1. (\E pc \in VisitPhase : Step(w, pc)) \/ Done(w)
      BY <2>5 DEF ConsumeProof, RedeemAssertion, ConsumeMark
    <3> QED
      BY <2>2, <3>1 DEF VisitMove
  <2> QED
    BY <1>3, <2>1, <2>3, <2>4, <2>5
<1>4. CASE Present(v)
  <2>1. \E kind \in {"grant", "machine", "skills"}, kid \in SigningKeys,
           proof \in Proofs, assertion \in Assertions :
          visit' = [visit EXCEPT ![v] = [NoVisit EXCEPT !.pc = "validate", !.kind = kind,
                      !.kid = kid, !.proof = proof, !.assertion = assertion]]
    BY <1>4 DEF Present
  <2>2. visit'[v].pc = "validate"
    BY <1>types, <2>1 DEF NoVisit
  <2>3. visit[v].pc = "idle"
    BY <1>4 DEF Present
  <2> QED
    BY <2>2, <2>3 DEF Elsewhere, Asking
<1>5. CASE VerifyToken(v)
  BY <1>5 DEF VerifyToken, Elsewhere, Asking
<1>6. CASE CheckProof(v)
  <2>1. Step(v, "consumeProof") \/ Done(v)
    BY <1>6 DEF CheckProof
  <2>2. visit'[v].pc # "verify"
    BY <1>types, <2>1, VisitEnds
  <2> QED
    BY <1>6, <2>2 DEF CheckProof, Elsewhere, Asking
<1>7. CASE ConsumeProof(v) \/ RedeemAssertion(v)
  <2>1. Step(v, "consumeAssertion") \/ Done(v)
    BY <1>7 DEF ConsumeProof, RedeemAssertion, ConsumeMark
  <2>2. visit'[v].pc # "verify"
    BY <1>types, <2>1, VisitEnds
  <2> QED
    BY <1>7, <2>2 DEF ConsumeProof, RedeemAssertion, Elsewhere, Asking
<1>8. CASE visit'[v] = visit[v]
  BY <1>8 DEF Elsewhere
<1> QED
  BY <1>1, <1>2, <1>3, <1>4, <1>5, <1>6, <1>7, <1>8 DEF ServerStep

\* A look-up finds the cached key or, within the throttle, refuses another.
LEMMA LookUpDecides ==
  ASSUME KeysInv, NEW v \in Visits, Validate(v) \/ Continue(v) \/ LookUpAgain(v)
  PROVE  /\ visit'[v].pc = "verify" =>
              cached = visit[v].kid /\ cached # None /\ clock <= jwksExpiresAt
         /\ visit'[v].pc \in {"idle", "validate"} /\ visit'[v] # visit[v] =>
              /\ cached # visit[v].kid /\ cached # None
              /\ \/ jwksExpiresAt = clock + Ttl
                 \/ fetch.pc = "none" /\ clock < unknownRefreshAt
<1>types. /\ visit \in [Visits -> Visit]
          /\ clock \in Nat /\ jwksExpiresAt \in Nat /\ Ttl \in Nat
  BY ServerNumbers DEF KeysInv, KeyTypes
<1> USE DEF VisitPhase
<1>look. ASSUME LookUp(v)
         PROVE  /\ visit'[v].pc = "verify" => cached = visit[v].kid
                /\ visit'[v].pc \in {"idle", "validate"} =>
                     cached # visit[v].kid /\ clock < unknownRefreshAt
  <2>1. CASE Refreshes(v)
    <3>1. visit'[v].pc = "second"
      BY <1>types, <2>1, VisitEnds DEF Refreshes, JoinOrFetch
    <3> QED
      BY <3>1
  <2>2. CASE Finds(v)
    <3>1. visit'[v].pc = "verify" /\ cached = visit[v].kid
      BY <1>types, <2>2, VisitEnds DEF Finds
    <3> QED
      BY <3>1
  <2>3. CASE Misses(v)
    <3>1. visit'[v].pc # "verify" /\ cached # visit[v].kid /\ clock < unknownRefreshAt
      BY <1>types, <2>3, VisitEnds DEF Misses, Unknown
    <3> QED
      BY <3>1
  <2> QED
    BY <1>look, <2>1, <2>2, <2>3, LookUpEnds
<1>prompt. visit[v].pc \in {"known", "refreshed"} =>
             cached # None /\ jwksExpiresAt = clock + Ttl /\ clock <= jwksExpiresAt
  <2>1. visit[v].pc \in {"known", "refreshed"} => cached # None /\ jwksExpiresAt = clock + Ttl
    BY DEF KeysInv, Prompt
  <2> QED
    BY <1>types, <2>1
<1>1. CASE Validate(v)
  <2>1. CASE fetch.pc = "none" /\ cached # None /\ clock < jwksExpiresAt
    <3>1. LookUp(v)
      BY <1>1, <2>1 DEF Validate
    <3> QED
      BY <1>look, <1>types, <2>1, <3>1
  <2>2. CASE ~(fetch.pc = "none" /\ cached # None /\ clock < jwksExpiresAt)
    <3>1. visit'[v].pc = "first"
      BY <1>1, <1>types, <2>2, VisitEnds DEF Validate, JoinOrFetch
    <3> QED
      BY <3>1
  <2> QED
    BY <2>1, <2>2
<1>2. CASE Continue(v)
  BY <1>2, <1>look, <1>prompt DEF Continue
<1>3. CASE LookUpAgain(v)
  <2>1. CASE cached = visit[v].kid
    <3>1. visit'[v].pc = "verify"
      BY <1>3, <1>types, <2>1, VisitEnds DEF LookUpAgain
    <3> QED
      BY <1>3, <1>prompt, <2>1, <3>1 DEF LookUpAgain
  <2>2. CASE cached # visit[v].kid
    <3>1. visit'[v].pc # "verify"
      BY <1>3, <1>types, <2>2, VisitEnds DEF LookUpAgain, Unknown
    <3> QED
      BY <1>3, <1>prompt, <2>2, <3>1 DEF LookUpAgain
  <2> QED
    BY <2>1, <2>2
<1> QED
  BY <1>1, <1>2, <1>3

\* What follows for the key the visit asks for.
LEMMA KeyFollowed ==
  ASSUME KeysInv, NEW v \in Visits, Validate(v) \/ Continue(v) \/ LookUpAgain(v)
  PROVE  /\ visit'[v].pc = "verify" /\ visit[v].kid # current
              => clock <= served[visit[v].kid] + Ttl + Timeout
         /\ /\ visit'[v].pc \in {"idle", "validate"} /\ visit'[v] # visit[v]
            /\ visit[v].kid = current /\ ~fetchFailed
           => clock < rotated + Throttle + Timeout
<1>types. /\ clock \in Nat /\ jwksExpiresAt \in Nat /\ unknownRefreshAt \in Nat /\ rotated \in Nat
          /\ Ttl \in Nat \ {0} /\ Throttle \in Nat \ {0} /\ Timeout \in Nat \ {0}
          /\ served \in [SigningKeys -> Instants \cup {Never}]
          /\ cached \in SigningKeys \cup {None}
  BY ServerNumbers DEF KeysInv, KeyTypes
<1>cached. ASSUME cached # None
           PROVE  served[cached] \in Nat
  <2>1. served[cached] \in Instants \cup {Never}
    BY <1>cached, <1>types
  <2> QED
    BY <2>1, ServerNumbers
<1>1. ASSUME visit'[v].pc = "verify", visit[v].kid # current
      PROVE  clock <= served[visit[v].kid] + Ttl + Timeout
  <2>1. cached = visit[v].kid /\ cached # None /\ clock <= jwksExpiresAt
    BY <1>1, LookUpDecides
  <2>2. jwksExpiresAt <= served[cached] + Timeout + Ttl
    BY <1>1, <2>1 DEF KeysInv, Cached
  <2>3. clock <= served[cached] + Ttl + Timeout
    BY <1>types, <1>cached, <2>1, <2>2
  <2> QED
    BY <2>1, <2>3
<1>2. ASSUME visit'[v].pc \in {"idle", "validate"}, visit'[v] # visit[v],
             visit[v].kid = current, ~fetchFailed
      PROVE  clock < rotated + Throttle + Timeout
  <2>1. cached # current /\ cached # None
    BY <1>2, LookUpDecides
  <2>2. served[cached] \in Nat
    BY <1>cached, <2>1
  <2>3. served[cached] <= rotated
    BY <1>types, <2>1 DEF KeysInv, Published
  <2>4. jwksExpiresAt <= served[cached] + Timeout + Ttl
    BY <2>1 DEF KeysInv, Cached
  <2>5. CASE jwksExpiresAt = clock + Ttl
    BY <1>types, <2>2, <2>3, <2>4, <2>5
  <2>6. CASE fetch.pc = "none" /\ clock < unknownRefreshAt
    <3>1. unknownRefreshAt + Ttl <= jwksExpiresAt + Throttle
      BY <1>2, <2>1, <2>6 DEF KeysInv, Throttled
    <3> QED
      BY <1>types, <2>2, <2>3, <2>4, <2>6, <3>1
  <2> QED
    BY <1>2, <2>5, <2>6, LookUpDecides
<1>3. visit'[v].pc = "verify" /\ visit[v].kid # current
        => clock <= served[visit[v].kid] + Ttl + Timeout
  BY <1>1
<1>4. /\ visit'[v].pc \in {"idle", "validate"} /\ visit'[v] # visit[v]
      /\ visit[v].kid = current /\ ~fetchFailed
     => clock < rotated + Throttle + Timeout
  BY <1>2
<1> QED
  BY <1>3, <1>4

\* A server follows a change of Weldall's key within the TTL, or the throttle, and one
\* time-out: every cached key is at most one time-out older than its arrival, and an
\* unknown key starts a refresh unless one has just arrived.
THEOREM KeyIsFollowed == ServedSpec => FollowsKey
<1>1. ServedInit => KeysInv
  BY KeysStart
<1>2. ServedSpec => []MachineTypes
  BY ServedTypes
<1>3. KeysInv /\ MachineTypes /\ [ServedNext]_ServedVars => KeysInv'
  BY KeysStep
<1> DEFINE Followed(v) ==
             LET kid == visit[v].kid
             IN /\ visit[v].pc # "verify" /\ visit'[v].pc = "verify" /\ kid # current
                  => clock <= served[kid] + Ttl + Timeout
                /\ /\ visit[v].pc \in {"validate", "known", "refreshed"}
                   /\ visit'[v].pc \in {"idle", "validate"} /\ visit'[v] # visit[v]
                   /\ kid = current /\ ~fetchFailed
                  => clock < rotated + Throttle + Timeout
<1>4. KeysInv /\ [ServedNext]_ServedVars => [\A v \in Visits : Followed(v)]_ServedVars
  <2> SUFFICES ASSUME KeysInv, ServedNext, NEW v \in Visits
               PROVE  Followed(v)
    OBVIOUS
  <2>1. CASE visit' = visit
    BY <2>1
  <2>2. CASE ServerStep
    <3>1. CASE Validate(v) \/ Continue(v) \/ LookUpAgain(v)
      BY <3>1, KeyFollowed
    <3>2. CASE Elsewhere(v)
      BY <3>2 DEF Elsewhere, Asking
    <3> QED
      BY <2>2, <3>1, <3>2, LookUpsAsk
  <2> QED
    BY <2>1, <2>2 DEF ServedNext, serverVars
<1> QED
  BY <1>1, <1>2, <1>3, <1>4, PTL DEF ServedSpec, FollowsKey
================================================================================
