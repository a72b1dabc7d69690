---------------------------- MODULE ResourceServer ----------------------------
(***************************************************************************)
(* A resource server that uses the SDK (packages/sdk): it follows the      *)
(* signing key that Weldall publishes, verifies machine tokens, identity   *)
(* assertions and skill assertions with it, and keeps what must be used    *)
(* once in its in-memory replay store.                                     *)
(*                                                                         *)
(* One Node process.  An action is what runs between two awaits; what      *)
(* waits for nothing but its turn (pc "validate", "known" and "refreshed") *)
(* runs before time passes or anything arrives.  Weldall publishes one     *)
(* key (oauth/jwt.ts), which a new deployment changes.  The forms of       *)
(* requests, claims and scopes are left out: a token verifies or not.      *)
(***************************************************************************)
EXTENDS MachineTokens

CONSTANTS
  SigningKeys, Visits, Proofs, Assertions,
  Ttl,        \* JWKS_TTL_MS
  Throttle,   \* the 5 s between two refreshes for unknown keys
  Timeout,    \* discoveryTimeoutMs
  MaxEntries, \* maxEntries of inMemory()
  ProofLife,  \* DPOP_MAX_AGE_SECONDS
  AssertionLife, \* how long an assertion is valid
  MaxVisits   \* bound: visits begun

ASSUME DurationsAreNat == {Ttl, Throttle, Timeout, ProofLife, AssertionLife, MaxEntries} \subseteq Nat \ {0}
ASSUME VisitsAreNat == MaxVisits \in Nat
ASSUME NoneIsNoKey == None \notin SigningKeys

Marks == Proofs \cup Assertions
NoVisit == [pc |-> "idle", kind |-> None, kid |-> None, retried |-> FALSE, proof |-> None,
            assertion |-> None]
NoFetch == [pc |-> "none", asked |-> Never, key |-> None]

VARIABLES
  current,      \* the key Weldall signs with and publishes
  served,       \* history: when Weldall last published each other key
  rotated,      \* history: when it began to publish this one
  cached,       \* WeldallDiscovery.keys
  jwksExpiresAt, unknownRefreshAt,
  metadata,     \* the authorization server metadata are known
  fetch,        \* jwksPromise
  fetchFailed,  \* history: the last refresh failed
  visit,        \* requests to token, skills and protected endpoints
  visits,
  seen,         \* inMemory(): the expiry of each mark
  gone,         \* of each mark presented, when it stops being acceptable
  used          \* history: how often each mark was accepted

publishedVars == <<current, served, rotated>>
discoveryVars == <<cached, jwksExpiresAt, unknownRefreshAt, metadata, fetch, fetchFailed>>
storeVars == <<seen, used>>
serverVars == <<publishedVars, discoveryVars, storeVars, visit, visits, gone>>

ServerTypeOK ==
  /\ current \in SigningKeys /\ served \in [SigningKeys -> Instants \cup {Never}]
  /\ cached \in SigningKeys \cup {None} /\ jwksExpiresAt \in Nat /\ unknownRefreshAt \in Nat
  /\ fetch.pc \in {"none", "metadata", "keys", "served"} /\ fetch.key \in SigningKeys \cup {None}
  /\ \A v \in Visits :
       visit[v].pc \in {"idle", "validate", "first", "known", "second", "refreshed", "verify",
                        "proof", "consumeProof", "consumeAssertion"}
  /\ seen \in [Marks -> Nat] /\ gone \in [Marks -> Nat] /\ used \in [Marks -> Nat]

ServerInit ==
  /\ current \in SigningKeys
  /\ served = [k \in SigningKeys |-> Never] /\ rotated = clock
  /\ cached = None /\ jwksExpiresAt = Never /\ unknownRefreshAt = Never
  /\ metadata = FALSE /\ fetch = NoFetch /\ fetchFailed = FALSE
  /\ visit = [v \in Visits |-> NoVisit]
  /\ visits \in 0 .. MaxVisits
  /\ seen = [m \in Marks |-> Never] /\ gone = [m \in Marks |-> Never]
  /\ used = [m \in Marks |-> 0]
--------------------------------------------------------------------------------
\* Nothing but awaits: time may pass and answers may arrive.
Settled == \A v \in Visits : visit[v].pc \notin {"validate", "known", "refreshed"}
Step(v, pc) == visit' = [visit EXCEPT ![v].pc = pc]
Done(v) == visit' = [visit EXCEPT ![v] = NoVisit]

Rotate ==
  /\ Settled
  /\ \E k \in SigningKeys \ {current} : served[k] = Never /\ current' = k
  /\ served' = [served EXCEPT ![current] = clock]
  /\ rotated' = clock
  /\ UNCHANGED <<discoveryVars, storeVars, visit, visits, gone>>

\* A request arrives, with a token signed by some key of Weldall.
Present(v) ==
  /\ visit[v].pc = "idle" /\ Settled
  /\ visits < MaxVisits /\ visits' = visits + 1
  /\ \E kind \in {"grant", "machine", "skills"}, kid \in SigningKeys,
        proof \in Proofs, assertion \in Assertions :
       LET marks == IF kind = "grant" THEN {proof, assertion}
                    ELSE IF kind = "machine" THEN {proof} ELSE {assertion}
       IN /\ visit' = [visit EXCEPT ![v] = [NoVisit EXCEPT !.pc = "validate", !.kind = kind,
                         !.kid = kid, !.proof = proof, !.assertion = assertion]]
          /\ gone' = [m \in Marks |->
               IF m \in marks /\ gone[m] = Never
               THEN clock + (IF m \in Proofs THEN ProofLife ELSE AssertionLife) ELSE gone[m]]
  /\ UNCHANGED <<publishedVars, discoveryVars, storeVars>>
--------------------------------------------------------------------------------
\* refreshJwks: a refresh under way is joined, whatever it was begun for.
JoinOrFetch(v, pc) ==
  /\ Step(v, pc)
  /\ fetch' = IF fetch.pc # "none" THEN fetch
              ELSE [NoFetch EXCEPT !.pc = IF metadata THEN "keys" ELSE "metadata", !.asked = clock]

\* The key is not known: an assertion is refused; the others validate once more, now
\* with a refresh.
Unknown(v) ==
  IF visit[v].kind = "grant" \/ visit[v].retried THEN Done(v)
  ELSE visit' = [visit EXCEPT ![v].pc = "validate", ![v].retried = TRUE]

\* getSigningKey after its first refresh.
\* Faulty variant: only a failed validation refreshes.
NeedsKeyAfterFailure(v) == visit[v].retried
NeedsKey(v) == visit[v].retried \/ cached # visit[v].kid
LookUp(v) ==
  IF NeedsKey(v) /\ clock >= unknownRefreshAt
  THEN /\ unknownRefreshAt' = clock + Throttle
       /\ JoinOrFetch(v, "second")
  ELSE /\ IF cached = visit[v].kid THEN Step(v, "verify") ELSE Unknown(v)
       /\ UNCHANGED <<unknownRefreshAt, fetch>>

Validate(v) ==
  /\ visit[v].pc = "validate"
  /\ IF fetch.pc = "none" /\ cached # None /\ clock < jwksExpiresAt
     THEN LookUp(v)
     ELSE JoinOrFetch(v, "first") /\ UNCHANGED unknownRefreshAt
  /\ UNCHANGED <<publishedVars, storeVars, cached, jwksExpiresAt, metadata, fetchFailed, visits, gone>>

Continue(v) ==
  /\ visit[v].pc = "known"
  /\ LookUp(v)
  /\ UNCHANGED <<publishedVars, storeVars, cached, jwksExpiresAt, metadata, fetchFailed, visits, gone>>

LookUpAgain(v) ==
  /\ visit[v].pc = "refreshed"
  /\ IF cached = visit[v].kid THEN Step(v, "verify") ELSE Unknown(v)
  /\ UNCHANGED <<publishedVars, discoveryVars, storeVars, visits, gone>>
--------------------------------------------------------------------------------
FetchMetadata ==
  /\ fetch.pc = "metadata" /\ Settled
  /\ metadata' = TRUE
  /\ fetch' = [fetch EXCEPT !.pc = "keys", !.asked = clock]
  /\ UNCHANGED <<publishedVars, storeVars, cached, jwksExpiresAt, unknownRefreshAt, fetchFailed,
                 visit, visits, gone>>

\* Weldall answers with the key it then has.
ServeKeys ==
  /\ fetch.pc = "keys" /\ Settled
  /\ fetch' = [fetch EXCEPT !.pc = "served", !.key = current]
  /\ UNCHANGED <<publishedVars, storeVars, cached, jwksExpiresAt, unknownRefreshAt, metadata,
                 fetchFailed, visit, visits, gone>>

KeysArrive ==
  /\ fetch.pc = "served" /\ Settled
  /\ cached' = fetch.key
  /\ jwksExpiresAt' = clock + Ttl
  /\ fetch' = NoFetch /\ fetchFailed' = FALSE
  /\ visit' = [v \in Visits |->
       CASE visit[v].pc = "first" -> [visit[v] EXCEPT !.pc = "known"]
         [] visit[v].pc = "second" -> [visit[v] EXCEPT !.pc = "refreshed"]
         [] OTHER -> visit[v]]
  /\ UNCHANGED <<publishedVars, storeVars, unknownRefreshAt, metadata, visits, gone>>

\* A refresh that fails refuses everybody who waits for it.
FetchFails ==
  /\ fetch.pc # "none" /\ Settled
  /\ fetch' = NoFetch /\ fetchFailed' = TRUE
  /\ visit' = [v \in Visits |-> IF visit[v].pc \in {"first", "second"} THEN NoVisit ELSE visit[v]]
  /\ UNCHANGED <<publishedVars, storeVars, cached, jwksExpiresAt, unknownRefreshAt, metadata, visits,
                 gone>>
--------------------------------------------------------------------------------
\* jwtVerify; a token that does not verify is tried once more with a refreshed key.
Accepted(v) ==
  /\ visit[v].kind # "machine" => clock < gone[visit[v].assertion]
  /\ Step(v, IF visit[v].kind = "skills" THEN "consumeAssertion" ELSE "proof")
Rejected(v) ==
  IF visit[v].retried THEN Done(v)
  ELSE visit' = [visit EXCEPT ![v].pc = "validate", ![v].retried = TRUE]
VerifyToken(v) ==
  /\ visit[v].pc = "verify" /\ Settled
  /\ Accepted(v) \/ Rejected(v)
  /\ UNCHANGED <<publishedVars, discoveryVars, storeVars, visits, gone>>

\* verifyStrictDpop up to its replay check.
CheckProof(v) ==
  /\ visit[v].pc = "proof" /\ Settled
  /\ IF clock < gone[visit[v].proof] THEN Step(v, "consumeProof") ELSE Done(v)
  /\ UNCHANGED <<publishedVars, discoveryVars, storeVars, visits, gone>>

\* consume: a value that expired meanwhile is refused, as is one the store holds, and
\* one it has no room for.
Purged == [m \in Marks |-> IF seen[m] <= clock THEN Never ELSE seen[m]]
HasRoomFor(m) == Cardinality({n \in Marks : Purged[n] # Never}) < MaxEntries
\* Faulty variant: the expiry is left to whoever calls.
Unseen(m) == Purged[m] = Never /\ HasRoomFor(m)
IsFirst(m) == gone[m] > clock /\ Purged[m] = Never /\ HasRoomFor(m)
ConsumeMark(v, m, next) ==
  /\ Settled
  /\ IF IsFirst(m)
     THEN /\ seen' = [Purged EXCEPT ![m] = gone[m]]
          /\ used' = [used EXCEPT ![m] = @ + 1]
          /\ IF next = "idle" THEN Done(v) ELSE Step(v, next)
     ELSE seen' = Purged /\ Done(v) /\ UNCHANGED used
  /\ UNCHANGED <<publishedVars, discoveryVars, visits, gone>>

ConsumeProof(v) ==
  /\ visit[v].pc = "consumeProof"
  /\ ConsumeMark(v, visit[v].proof, IF visit[v].kind = "grant" THEN "consumeAssertion" ELSE "idle")
\* A token is issued, or the catalog is served.
RedeemAssertion(v) ==
  /\ visit[v].pc = "consumeAssertion"
  /\ ConsumeMark(v, visit[v].assertion, "idle")

ServerStep ==
  \/ Rotate \/ FetchMetadata \/ ServeKeys \/ KeysArrive \/ FetchFails
  \/ \E v \in Visits : \/ Present(v) \/ Validate(v) \/ Continue(v) \/ LookUpAgain(v)
                       \/ VerifyToken(v) \/ CheckProof(v) \/ ConsumeProof(v) \/ RedeemAssertion(v)

\* A request to Weldall is cut off after Timeout.
InTime == fetch.pc = "none" \/ clock' <= fetch.asked + Timeout

ServedVars == <<allVars, serverVars>>
ServedInit == MachineInit /\ ServerInit
ServedNext == \/ MachineNext /\ UNCHANGED serverVars /\ (clock' # clock => Settled /\ InTime)
              \/ ServerStep /\ UNCHANGED allVars
ServedSpec == ServedInit /\ [][ServedNext]_ServedVars
--------------------------------------------------------------------------------
\* A proof or an assertion is accepted once in the life of a process, however long a
\* request waits between its checks and the store, which forgets what has expired.
UsedOnce == \A m \in Marks : used[m] <= 1

\* The server follows a change of Weldall's key in bounded time, whatever refreshes are
\* joined, throttled or fail: a token is verified with no key that Weldall stopped
\* publishing more than the TTL and one time-out ago; and unless the last refresh
\* failed, a key is unknown no longer than the throttle and one time-out.
FollowsKey ==
  [][\A v \in Visits :
       LET kid == visit[v].kid
       IN /\ visit[v].pc # "verify" /\ visit'[v].pc = "verify" /\ kid # current
            => clock <= served[kid] + Ttl + Timeout
          /\ /\ visit[v].pc \in {"validate", "known", "refreshed"}
             /\ visit'[v].pc \in {"idle", "validate"} /\ visit'[v] # visit[v]
             /\ kid = current /\ ~fetchFailed
            => clock < rotated + Throttle + Timeout]_ServedVars
================================================================================
