----------------------------- MODULE McpToolCache -----------------------------
(***************************************************************************)
(* The in-memory tool cache of mcp/tool-cache.ts: createMemoryMcpToolCache *)
(* and getOrLoad.  It keeps catalogs by key, oldest use first, within an   *)
(* entry and a byte bound; callers of a key that is being loaded share the *)
(* load, and the last of them to leave cancels it.                         *)
(*                                                                         *)
(* JavaScript runs one callback at a time, so an action is what runs       *)
(* between two awaits: the body of getOrLoad, the callback that stores a   *)
(* catalog, the finally of a load, and the finally of a caller.            *)
(***************************************************************************)
EXTENDS Naturals, FiniteSetsExt, SequencesExt

CONSTANTS
  Keys,
  Callers,      \* calls of getOrLoad, each in use for one call at a time
  Loads,        \* loads, in use from the miss until settled and left
  None,
  Sizes,        \* sizes of catalogs
  MaxEntries, MaxBytes, MaxInFlight

ASSUME NoneIsNew == None \notin Loads \cup Keys
ASSUME BoundsArePositive == {MaxEntries, MaxBytes, MaxInFlight} \subseteq Nat \ {0}
ASSUME SizesArePositive == Sizes \subseteq Nat \ {0}

VARIABLES
  order,     \* the keys of entries, in the order of the Map
  entry,     \* size of each entry and whether its time has run out
  bytes,     \* the counter of stored bytes
  inFlight,  \* the counter of loads
  flights,   \* the load callers of a key join
  load,      \* the loads; abandoned is set by its controller, timedOut by its timeout
  caller     \* the callers

cacheVars == <<order, entry, bytes, inFlight, flights, load, caller>>

Entry == [bytes : Sizes \cup {0}, expired : BOOLEAN]
NoEntry == [bytes |-> 0, expired |-> FALSE]
Load == [pc : {"none", "loading", "settling", "settled"}, key : Keys \cup {None},
         waiters : Nat, abandoned : BOOLEAN, timedOut : BOOLEAN]
NoLoad == [pc |-> "none", key |-> None, waiters |-> 0, abandoned |-> FALSE, timedOut |-> FALSE]
Caller == [pc : {"idle", "waiting", "leaving"}, load : Loads \cup {None}]
NoCaller == [pc |-> "idle", load |-> None]

CacheTypeOK ==
  /\ order \in Seq(Keys) /\ entry \in [Keys -> Entry]
  /\ bytes \in Nat /\ inFlight \in Nat
  /\ flights \in [Keys -> Loads \cup {None}]
  /\ load \in [Loads -> Load] /\ caller \in [Callers -> Caller]

CacheInit ==
  /\ order = <<>> /\ entry = [k \in Keys |-> NoEntry]
  /\ bytes = 0 /\ inFlight = 0
  /\ flights = [k \in Keys |-> None]
  /\ load = [l \in Loads |-> NoLoad]
  /\ caller = [c \in Callers |-> NoCaller]
--------------------------------------------------------------------------------
Stored == ToSet(order)
SizeOf(ks) == MapThenSumSet(LAMBDA k : entry[k].bytes, ks)

\* remove() of every key of a set: the others keep their order.
Removed(ks) == FoldLeft(LAMBDA kept, k : IF k \in ks THEN kept ELSE Append(kept, k), <<>>, order)
Gone(ks) == [k \in Keys |-> IF k \in ks THEN NoEntry ELSE entry[k]]

\* A load nobody refers to any more.
Free(l) == load[l].pc \in {"none", "settled"} /\ load[l].waiters = 0

\* A call of getOrLoad with a signal that is not aborted yet: what has expired goes,
\* then the entry is used, the running load joined, or a load begun.
Call(c, k) ==
  LET expired == {j \in Stored : entry[j].expired}
      kept == Removed(expired)
      joined == flights[k]
  IN /\ caller[c].pc = "idle"
     /\ entry' = Gone(expired)
     /\ bytes' = bytes - SizeOf(expired)
     /\ \/ /\ k \in Stored \ expired
           /\ order' = Append(Removed(expired \cup {k}), k)
           /\ UNCHANGED <<inFlight, flights, load, caller>>
        \/ /\ k \notin Stored \ expired
           /\ joined # None
           /\ load' = [load EXCEPT ![joined].waiters = @ + 1]
           /\ caller' = [caller EXCEPT ![c] = [pc |-> "waiting", load |-> joined]]
           /\ order' = kept
           /\ UNCHANGED <<inFlight, flights>>
        \/ /\ k \notin Stored \ expired
           /\ joined = None
           /\ inFlight < MaxInFlight
           /\ \E l \in {l \in Loads : Free(l)} :
                /\ load' = [load EXCEPT ![l] = [NoLoad EXCEPT !.pc = "loading", !.key = k,
                                                              !.waiters = 1]]
                /\ flights' = [flights EXCEPT ![k] = l]
                /\ caller' = [caller EXCEPT ![c] = [pc |-> "waiting", load |-> l]]
           /\ inFlight' = inFlight + 1
           /\ order' = kept
        \/ /\ k \notin Stored \ expired      \* "Too many concurrent MCP discoveries."
           /\ joined = None
           /\ inFlight >= MaxInFlight
           /\ order' = kept
           /\ UNCHANGED <<inFlight, flights, load, caller>>

\* Faulty variant: a cancelled load may still store its catalog.
CancelledNever(l) == FALSE
Cancelled(l) == load[l].abandoned \/ load[l].timedOut

\* How many of the oldest entries go before one of a size is stored.
Evicted(size) ==
  LET fits(n) == /\ Len(order) - n < MaxEntries
                 /\ bytes - SizeOf(ToSet(SubSeq(order, 1, n))) + size <= MaxBytes
  IN Min({n \in 0..Len(order) : fits(n)})

\* The load returns a catalog: it is stored unless it is cancelled or too large.
LoadReturns(l, size) ==
  LET k == load[l].key
      out == ToSet(SubSeq(order, 1, Evicted(size)))
  IN /\ load[l].pc = "loading"
     /\ IF Cancelled(l) \/ size > MaxBytes
        THEN UNCHANGED <<order, entry, bytes>>
        ELSE /\ order' = IF k \in Stored \ out THEN Removed(out) ELSE Append(Removed(out), k)
             /\ entry' = [Gone(out) EXCEPT ![k] = [bytes |-> size, expired |-> FALSE]]
             /\ bytes' = bytes - SizeOf(out) + size
     /\ load' = [load EXCEPT ![l].pc = "settling"]
     /\ UNCHANGED <<inFlight, flights, caller>>

\* It fails, by itself or because its signal is aborted.
LoadFails(l) ==
  /\ load[l].pc = "loading"
  /\ load' = [load EXCEPT ![l].pc = "settling"]
  /\ UNCHANGED <<order, entry, bytes, inFlight, flights, caller>>

\* Faulty variant: the finally of a load removes whatever load there is of its key.
AnyFlight(l) == TRUE
OwnFlight(l) == flights[load[l].key] = l
CountedDown(l) == inFlight - 1

LoadFinally(l) ==
  /\ load[l].pc = "settling"
  /\ load' = [load EXCEPT ![l].pc = "settled"]
  /\ inFlight' = CountedDown(l)
  /\ flights' = IF OwnFlight(l) THEN [flights EXCEPT ![load[l].key] = None] ELSE flights
  /\ UNCHANGED <<order, entry, bytes, caller>>

\* The signal of a caller aborts, or the load it waits for is settled.
Reject(c) ==
  /\ caller[c].pc = "waiting"
  /\ caller' = [caller EXCEPT ![c].pc = "leaving"]
  /\ UNCHANGED <<order, entry, bytes, inFlight, flights, load>>

Settle(c) ==
  /\ caller[c].pc = "waiting"
  /\ load[caller[c].load].pc = "settled"
  /\ caller' = [caller EXCEPT ![c].pc = "leaving"]
  /\ UNCHANGED <<order, entry, bytes, inFlight, flights, load>>

\* Faulty variant: the load a caller cancels can still be joined.
FlightsKept(l) == flights
FlightsWithout(l) == [flights EXCEPT ![load[l].key] = None]

\* The finally of a caller: the last one to leave cancels the load.
Leave(c) ==
  LET l == caller[c].load
      last == load[l].waiters = 1 /\ OwnFlight(l)
  IN /\ caller[c].pc = "leaving"
     /\ caller' = [caller EXCEPT ![c] = NoCaller]
     /\ load' = [load EXCEPT ![l].waiters = @ - 1, ![l].abandoned = @ \/ last]
     /\ flights' = IF last THEN FlightsWithout(l) ELSE flights
     /\ UNCHANGED <<order, entry, bytes, inFlight>>

\* MCP_LIMITS.operationMs after the load began.
Timeout(l) ==
  /\ load[l].pc = "loading" /\ ~load[l].timedOut
  /\ load' = [load EXCEPT ![l].timedOut = TRUE]
  /\ UNCHANGED <<order, entry, bytes, inFlight, flights, caller>>

\* ttlMs after an entry was stored.
Expire(k) ==
  /\ k \in Stored /\ ~entry[k].expired
  /\ entry' = [entry EXCEPT ![k].expired = TRUE]
  /\ UNCHANGED <<order, bytes, inFlight, flights, load, caller>>
--------------------------------------------------------------------------------
Running(l) == load[l].pc \in {"loading", "settling"}

\* The two counters are what they count, within their bounds: the bytes and entries
\* stored, so a catalog is never stored over one that is counted, and the loads still
\* running, the ones whose callers are all gone included.
CountersAgree ==
  /\ bytes = SizeOf(Stored) /\ bytes <= MaxBytes
  /\ Len(order) = Cardinality(Stored) /\ Len(order) <= MaxEntries
  /\ inFlight = Cardinality({l \in Loads : Running(l)}) /\ inFlight <= MaxInFlight

\* A caller that waits is never cancelled because others left: the load it waits for
\* is not one whose last caller has gone.
NoOneAbandoned ==
  \A c \in Callers : caller[c].pc = "waiting" => ~load[caller[c].load].abandoned

\* A key has at most one load that was not abandoned: an abandoned load that ends
\* late does not open the door to a second one.
SingleFlight ==
  \A l, m \in Loads :
    /\ load[l].pc = "loading" /\ ~load[l].abandoned
    /\ load[m].pc = "loading" /\ ~load[m].abandoned
    /\ load[l].key = load[m].key
    => l = m
================================================================================
