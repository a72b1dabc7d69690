------------------------------ MODULE ReplayStore ------------------------------
(***************************************************************************)
(* The replay store of oauth/replay.ts: PostgreSQL rows shared by every    *)
(* Weldall process.  One consume(key, expiresAt) is up to three statements,*)
(* each a transaction of its own, so the calls of all processes interleave *)
(* and the clock moves between any two statements.                         *)
(***************************************************************************)
EXTENDS Naturals, FiniteSets

CONSTANTS
  Calls,         \* slots for concurrently running consume calls
  Processes,     \* Weldall processes, each with its own lastCleanup
  Keys,          \* keys of proofs and assertions
  CleanupBatch,  \* CLEANUP_BATCH
  CleanupGap,    \* the 60 s between two cleanups of a process
  Horizon        \* bound: the last instant of the clock

ASSUME NumbersAreNat == CleanupBatch \in Nat /\ CleanupGap \in Nat /\ Horizon \in Nat \ {0}

Instants == 1 .. Horizon
Never == 0             \* expiry of a marker that does not exist

Call == [pc : {"idle", "cleanup", "delete", "insert"}, key : Keys \cup {Never},
         expiresAt : Instants \cup {Never}, now : Instants \cup {Never},
         expired : SUBSET Keys]
NoCall == [pc |-> "idle", key |-> Never, expiresAt |-> Never, now |-> Never, expired |-> {}]

VARIABLES
  clock,
  markers,      \* ReplayMarker: the expiry stored for each key
  lastCleanup,  \* of each process, Never before its first cleanup
  calls,        \* the running calls
  uses          \* history: how often consume returned true for a key and an expiry

vars == <<clock, markers, lastCleanup, calls, uses>>

TypeOK ==
  /\ clock \in Instants
  /\ markers \in [Keys -> Instants \cup {Never}]
  /\ lastCleanup \in [Processes -> Instants \cup {Never}]
  /\ calls \in [Calls -> Call]
  /\ uses \in [Keys -> [Instants -> Nat]]

Init ==
  /\ clock \in Instants
  /\ markers = [k \in Keys |-> Never]
  /\ lastCleanup = [p \in Processes |-> Never]
  /\ calls = [c \in Calls |-> NoCall]
  /\ uses = [k \in Keys |-> [e \in Instants |-> 0]]

Tick ==
  /\ clock < Horizon
  /\ clock' = clock + 1
  /\ UNCHANGED <<markers, lastCleanup, calls, uses>>

--------------------------------------------------------------------------------
\* consume: a value that has expired is refused; the cleanup is due once per gap
\* and process.  Two proofs may carry the same key and different expiries.
ConsumeKey(c, p, k, e) ==
  LET due == clock - lastCleanup[p] > CleanupGap \/ lastCleanup[p] = Never
  IN /\ calls[c].pc = "idle"
     /\ e > clock
     /\ calls' = [calls EXCEPT ![c] = [NoCall EXCEPT !.key = k, !.expiresAt = e,
                    !.now = clock, !.pc = IF due THEN "cleanup" ELSE "insert"]]
     /\ lastCleanup' = IF due THEN [lastCleanup EXCEPT ![p] = clock] ELSE lastCleanup
     /\ UNCHANGED <<clock, markers, uses>>
Consume(c) == \E p \in Processes, k \in Keys, e \in Instants : ConsumeKey(c, p, k, e)

Expired(k, now) == markers[k] # Never /\ markers[k] <= now

\* findMany: the batch with the earliest expiries.
SelectExpired(c) ==
  /\ calls[c].pc = "cleanup"
  /\ \E batch \in SUBSET {k \in Keys : Expired(k, calls[c].now)} :
       LET left == {k \in Keys : Expired(k, calls[c].now)} \ batch
       IN /\ Cardinality(batch) <= CleanupBatch
          /\ left # {} => Cardinality(batch) = CleanupBatch
          /\ \A k \in batch, l \in left : markers[k] <= markers[l]
          /\ calls' = [calls EXCEPT ![c].expired = batch,
                                    ![c].pc = IF batch = {} THEN "insert" ELSE "delete"]
  /\ UNCHANGED <<clock, markers, lastCleanup, uses>>

\* Faulty variant: the batch is deleted by key alone.
DeletedByKey(c) == calls[c].expired
Deleted(c) == {k \in calls[c].expired : Expired(k, calls[c].now)}

\* deleteMany.
DeleteExpired(c) ==
  /\ calls[c].pc = "delete"
  /\ markers' = [k \in Keys |-> IF k \in Deleted(c) THEN Never ELSE markers[k]]
  /\ calls' = [calls EXCEPT ![c].expired = {}, ![c].pc = "insert"]
  /\ UNCHANGED <<clock, lastCleanup, uses>>

\* createMany with skipDuplicates: true is returned if the row is new.
Insert(c) ==
  LET k == calls[c].key
      e == calls[c].expiresAt
  IN /\ calls[c].pc = "insert"
     /\ IF markers[k] = Never
        THEN /\ markers' = [markers EXCEPT ![k] = e]
             /\ uses' = [uses EXCEPT ![k][e] = @ + 1]
        ELSE UNCHANGED <<markers, uses>>
     /\ calls' = [calls EXCEPT ![c] = NoCall]
     /\ UNCHANGED <<clock, lastCleanup>>

\* Storage errors and dying processes: the caller gets an error, never true.
Fail(c) ==
  /\ calls[c].pc # "idle"
  /\ calls' = [calls EXCEPT ![c] = NoCall]
  /\ UNCHANGED <<clock, markers, lastCleanup, uses>>

Next == \/ Tick
        \/ \E c \in Calls : \/ Consume(c) \/ SelectExpired(c) \/ DeleteExpired(c)
                            \/ Insert(c) \/ Fail(c)

Spec == Init /\ [][Next]_vars
--------------------------------------------------------------------------------
\* While a proof is valid nothing with its key is accepted again, whatever
\* cleanups and calls run in between ("a conflicting cleanup must not delete a
\* marker whose expiry was refreshed", replay.ts:30).
OncePerWindow ==
  [][\A k \in Keys, e \in Instants : uses'[k][e] > uses[k][e] =>
       \A d \in Instants : uses[k][d] > 0 => d <= clock]_vars
================================================================================
