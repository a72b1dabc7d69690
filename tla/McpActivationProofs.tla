-------------------------- MODULE McpActivationProofs --------------------------
(***************************************************************************)
(* Theorems about McpActivation and the runner under it, for any number of *)
(* requests, users, sources and accounts, and whatever the limits are: the *)
(* slots of the runner, the accounts of the connectors, and the order of   *)
(* the host's requests.                                                    *)
(***************************************************************************)
EXTENDS McpActivation, FiniteSetTheorems, SequenceTheorems, TLAPS

\* The runner: who has a slot, and who waits for one.
Holds(record) == record.pc \in {"granted", "child"}
Holding == {r \in Runs : Holds(run[r])}

LineInv ==
  /\ \A r \in Runs : run[r].pc = "waiting" <=> \E i \in DOMAIN waiting : waiting[i] = r
  /\ \A i, j \in DOMAIN waiting : waiting[i] = waiting[j] => i = j

RunnerInv == RunnerTypeOK /\ IsFiniteSet(Holding) /\ SlotsAreHeld /\ LineInv

\* The session: a run is under way exactly for a tool call and for the head of the queue
\* that asks.
RunsInv ==
  /\ \A p \in Callers : caller[p].pc = "calling" <=> run[p].pc # "idle"
  /\ stage = "asked" <=> run[Queue].pc # "idle"
  /\ stage # "queued" => queue # <<>>
  /\ stage = "asked" => queue[1].what \in Requests \cup {{}}

\* A request waits in one task of the queue, and a discovery that can be joined has no
\* removal and no choice behind it.
QueueInv ==
  /\ \A i \in DOMAIN queue : \A p \in queue[i].by : caller[p].pc = "queued"
  /\ \A i, j \in DOMAIN queue : queue[i].by \cap queue[j].by # {} => i = j
  /\ \A i, j \in DOMAIN queue : i < j /\ queue[i].open => queue[j].kind \notin {"remove", "select"}
  /\ \A i \in DOMAIN queue : queue[i].kind = "discover" => queue[i].what \in Requests

\* A published account is the one some selector is bound to.
RoutesInv ==
  /\ OneAccountPerConnector
  /\ \A c \in published : \E s \in ConnectorSelectors : bound[s] = c
  /\ \A s \in Sources : routes[s] # NoRoute => routes[s].user \in Users

Inv == RunnerInv /\ TypeOK /\ RunsInv /\ QueueInv /\ RoutesInv
--------------------------------------------------------------------------------
(* Sequences and slots. *)

\* What RemoveAt leaves of a sequence.
LEMMA RemoveAtProperties ==
  ASSUME NEW S, NEW s \in Seq(S), NEW k \in 1 .. Len(s)
  PROVE  /\ RemoveAt(s, k) \in Seq(S)
         /\ Len(RemoveAt(s, k)) = Len(s) - 1
         /\ \A i \in 1 .. Len(s) - 1 : RemoveAt(s, k)[i] = IF i < k THEN s[i] ELSE s[i + 1]
<1>1. \A i \in 1 .. Len(s) : s[i] \in S
  BY ElementOfSeq
<1> DEFINE a == SubSeq(s, 1, k - 1)
           b == SubSeq(s, k + 1, Len(s))
<1>2. a \in Seq(S) /\ Len(a) = k - 1 /\ \A i \in 1 .. k - 1 : a[i] = s[i]
  <2>1. \A i \in 1 .. k - 1 : s[i] \in S
    BY <1>1
  <2>2. /\ a \in Seq(S) /\ Len(a) = IF 1 <= k - 1 THEN k - 1 - 1 + 1 ELSE 0
        /\ \A i \in 1 .. k - 1 - 1 + 1 : a[i] = s[1 + i - 1]
    BY <2>1, SubSeqProperties, LenProperties
  <2> QED
    BY <2>2
<1>3. b \in Seq(S) /\ Len(b) = Len(s) - k /\ \A i \in 1 .. Len(s) - k : b[i] = s[k + i]
  <2>1. \A i \in k + 1 .. Len(s) : s[i] \in S
    BY <1>1
  <2>2. /\ b \in Seq(S) /\ Len(b) = IF k + 1 <= Len(s) THEN Len(s) - (k + 1) + 1 ELSE 0
        /\ \A i \in 1 .. Len(s) - (k + 1) + 1 : b[i] = s[(k + 1) + i - 1]
    BY <2>1, SubSeqProperties, LenProperties
  <2> QED
    BY <2>2
<1> HIDE DEF a, b
<1>4. /\ a \o b \in Seq(S) /\ Len(a \o b) = Len(a) + Len(b)
      /\ \A i \in 1 .. Len(a) + Len(b) : (a \o b)[i] = IF i <= Len(a) THEN a[i] ELSE b[i - Len(a)]
  BY <1>2, <1>3, ConcatProperties
<1>5. RemoveAt(s, k) = a \o b
  BY DEF RemoveAt, a, b
<1>6. \A i \in 1 .. Len(s) - 1 : (a \o b)[i] = IF i < k THEN s[i] ELSE s[i + 1]
  BY <1>2, <1>3, <1>4
<1>7. Len(s) \in Nat
  BY LenProperties
<1>8. Len(a \o b) = Len(s) - 1
  BY <1>2, <1>3, <1>4, <1>7
<1> QED
  BY <1>4, <1>5, <1>6, <1>8

\* A set keeps its size when one member hands its place to another.
LEMMA HandOver ==
  ASSUME NEW S, IsFiniteSet(S), NEW x \in S, NEW y, y \notin S
  PROVE  /\ IsFiniteSet((S \ {x}) \cup {y})
         /\ Cardinality((S \ {x}) \cup {y}) = Cardinality(S)
<1>1. IsFiniteSet(S \ {x}) /\ Cardinality(S \ {x}) = Cardinality(S) - 1
  BY FS_RemoveElement
<1>2. Cardinality(S) \in Nat
  BY FS_CardinalityType
<1> DEFINE rest == S \ {x}
<1>3. IsFiniteSet(rest \cup {y}) /\ Cardinality(rest \cup {y}) = Cardinality(rest) + 1
  BY <1>1, FS_AddElement
<1> QED
  BY <1>1, <1>2, <1>3

\* A slot is taken or given back by one run; Holding changes with it.
LEMMA OneRun ==
  ASSUME RunnerTypeOK, NEW r \in Runs, NEW x \in Run, run' = [run EXCEPT ![r] = x]
  PROVE  /\ run' \in [Runs -> Run] /\ run'[r] = x
         /\ \A o \in Runs \ {r} : run'[o] = run[o]
         /\ Holding' = IF Holds(x) THEN Holding \cup {r} ELSE Holding \ {r}
<1>1. /\ run' \in [Runs -> Run] /\ run'[r] = x
      /\ \A o \in Runs \ {r} : run'[o] = run[o]
  BY DEF RunnerTypeOK
<1> QED
  BY <1>1 DEF Holding, Holds

\* The records of the runs that the steps write are well typed.
LEMMA RunFacts ==
  /\ NoRun \in Run /\ NoRun.pc = "idle" /\ NoRun.stopped = FALSE /\ ~Holds(NoRun)
  /\ \A x \in Run : \A pc \in {"idle", "waiting", "granted", "child", "paused", "failed"} :
       [x EXCEPT !.pc = pc] \in Run /\ [x EXCEPT !.pc = pc].pc = pc
<1>1. FALSE \in BOOLEAN /\ 0 \in 0 .. MaxRetries
  BY RunnerBounds
<1>2. NoRun \in Run
  BY <1>1 DEF NoRun, Run
<1> QED
  BY <1>2 DEF NoRun, Run, Holds
--------------------------------------------------------------------------------
(* The steps of the runner. *)

\* The line of waiters is in order as long as the same runs wait in it.
LEMMA SameLine ==
  ASSUME LineInv, waiting' = waiting,
         \A o \in Runs : run'[o].pc = "waiting" <=> run[o].pc = "waiting"
  PROVE  LineInv'
BY DEF LineInv

\* A run that has no slot and is not in line goes on without either.
LEMMA Elsewhere ==
  ASSUME RunnerInv, NEW r \in Runs, ~Holds(run[r]), run[r].pc # "waiting",
         NEW x \in Run, ~Holds(x), x.pc # "waiting",
         run' = [run EXCEPT ![r] = x], UNCHANGED <<running, waiting>>, closed' \in BOOLEAN
  PROVE  RunnerInv'
<1>1. /\ run' \in [Runs -> Run] /\ run'[r] = x /\ \A o \in Runs \ {r} : run'[o] = run[o]
      /\ Holding' = Holding \ {r}
  BY OneRun DEF RunnerInv
<1>2. Holding' = Holding
  BY <1>1 DEF Holding
<1>3. LineInv'
  BY <1>1, SameLine DEF RunnerInv
<1>4. RunnerTypeOK'
  BY <1>1 DEF RunnerInv, RunnerTypeOK
<1>5. SlotsAreHeld'
  BY <1>2 DEF RunnerInv, SlotsAreHeld, Holding, Holds
<1> QED
  BY <1>2, <1>3, <1>4, <1>5 DEF RunnerInv

\* A run that is launched takes a slot, joins the line or is refused.
LEMMA LaunchKeeps ==
  ASSUME RunnerInv, NEW r \in Runs, run[r].pc \in {"idle", "paused"}, NEW now \in Run,
         Launch(r, now), closed' = closed
  PROVE  RunnerInv' /\ run'[r].pc # "idle" /\ \A o \in Runs \ {r} : run'[o] = run[o]
<1> DEFINE to(pc) == [now EXCEPT !.pc = pc]
<1>1. /\ to("failed") \in Run /\ to("failed").pc = "failed"
      /\ to("child") \in Run /\ to("child").pc = "child"
      /\ to("waiting") \in Run /\ to("waiting").pc = "waiting"
  BY RunFacts
<1>2. /\ RunnerTypeOK /\ LineInv /\ IsFiniteSet(Holding) /\ SlotsAreHeld
      /\ r \notin Holding /\ run[r].pc # "waiting" /\ ~Holds(run[r]) /\ closed' \in BOOLEAN
      /\ running \in Nat /\ running <= MaxRunning /\ waiting \in Seq(Runs) /\ MaxRunning \in Nat
  BY RunnerBounds DEF RunnerInv, Holding, Holds, RunnerTypeOK
<1>3. CASE run' = [run EXCEPT ![r] = to("failed")] /\ UNCHANGED <<running, waiting>>
  <2>1. ~Holds(to("failed")) /\ to("failed").pc # "waiting" /\ to("failed").pc # "idle"
    BY <1>1 DEF Holds
  <2>2. run'[r] = to("failed") /\ \A o \in Runs \ {r} : run'[o] = run[o]
    BY <1>1, <1>2, <1>3, OneRun
  <2> QED
    BY <1>1, <1>2, <1>3, <2>1, <2>2, Elsewhere
<1>4. CASE /\ run' = [run EXCEPT ![r] = to("child")] /\ running < MaxRunning
           /\ running' = running + 1 /\ waiting' = waiting
  <2>1. Holds(to("child")) /\ to("child") \in Run /\ to("child").pc = "child"
    BY <1>1 DEF Holds
  <2>2. /\ run' \in [Runs -> Run] /\ run'[r] = to("child")
        /\ \A o \in Runs \ {r} : run'[o] = run[o]
        /\ Holding' = Holding \cup {r}
    BY <1>2, <1>4, <2>1, OneRun
  <2>3. IsFiniteSet(Holding') /\ Cardinality(Holding') = Cardinality(Holding) + 1
    BY <1>2, <2>2, FS_AddElement
  <2>4. waiting = <<>>
    BY <1>2, <1>4 DEF SlotsAreHeld
  <2>5. running = Cardinality(Holding)
    BY <1>2 DEF SlotsAreHeld, Holding, Holds
  <2>6. SlotsAreHeld'
    BY <1>2, <1>4, <2>3, <2>4, <2>5 DEF SlotsAreHeld, Holding, Holds
  <2>7. LineInv'
    BY <1>2, <1>4, <2>1, <2>2, SameLine
  <2>8. RunnerTypeOK'
    BY <1>2, <1>4, <2>2 DEF RunnerTypeOK
  <2> QED
    BY <2>1, <2>2, <2>3, <2>6, <2>7, <2>8 DEF RunnerInv
<1>5. CASE /\ run' = [run EXCEPT ![r] = to("waiting")] /\ running >= MaxRunning
           /\ waiting' = Append(waiting, r) /\ running' = running
  <2>1. ~Holds(to("waiting")) /\ to("waiting") \in Run /\ to("waiting").pc = "waiting"
    BY <1>1 DEF Holds
  <2>2. /\ run' \in [Runs -> Run] /\ run'[r] = to("waiting")
        /\ \A o \in Runs \ {r} : run'[o] = run[o]
        /\ Holding' = Holding \ {r}
    BY <1>2, <1>5, <2>1, OneRun
  <2>3. Holding' = Holding
    BY <1>2, <2>2
  <2>4. /\ waiting' \in Seq(Runs) /\ Len(waiting') = Len(waiting) + 1
        /\ \A i \in 1 .. Len(waiting) : waiting'[i] = waiting[i]
        /\ waiting'[Len(waiting) + 1] = r /\ Len(waiting) \in Nat
        /\ DOMAIN waiting = 1 .. Len(waiting) /\ DOMAIN waiting' = 1 .. Len(waiting) + 1
    BY <1>2, <1>5, AppendProperties, LenProperties
  <2>5. \A i \in DOMAIN waiting : waiting[i] # r /\ waiting[i] \in Runs
    BY <1>2, ElementOfSeq, <2>4 DEF LineInv
  <2>6. LineInv'
    <3>1. ASSUME NEW o \in Runs
          PROVE  run'[o].pc = "waiting" <=> \E i \in DOMAIN waiting' : waiting'[i] = o
      <4>1. CASE o = r
        BY <4>1, <2>1, <2>2, <2>4
      <4>2. CASE o # r
        <5>1. run[o].pc = "waiting" <=> \E i \in DOMAIN waiting : waiting[i] = o
          BY <1>2 DEF LineInv
        <5>2. (\E i \in DOMAIN waiting : waiting[i] = o) <=> \E i \in DOMAIN waiting' : waiting'[i] = o
          BY <2>4, <4>2
        <5> QED
          BY <2>2, <4>2, <5>1, <5>2
      <4> QED
        BY <4>1, <4>2
    <3>2. ASSUME NEW i \in DOMAIN waiting', NEW j \in DOMAIN waiting', waiting'[i] = waiting'[j]
          PROVE  i = j
      <4>1. \A a, b \in DOMAIN waiting : waiting[a] = waiting[b] => a = b
        BY <1>2 DEF LineInv
      <4>2. i \in DOMAIN waiting /\ j \in DOMAIN waiting => i = j
        BY <3>2, <4>1, <2>4
      <4>3. i \notin DOMAIN waiting => i = Len(waiting) + 1 /\ waiting'[i] = r
        BY <2>4
      <4>4. j \notin DOMAIN waiting => j = Len(waiting) + 1 /\ waiting'[j] = r
        BY <2>4
      <4>5. /\ i \in DOMAIN waiting => waiting'[i] # r
            /\ j \in DOMAIN waiting => waiting'[j] # r
        BY <2>4, <2>5
      <4> QED
        BY <3>2, <4>2, <4>3, <4>4, <4>5
    <3> QED
      BY <3>1, <3>2 DEF LineInv
  <2>7. running = MaxRunning
    BY <1>2, <1>5
  <2>8. SlotsAreHeld'
    BY <1>2, <1>5, <2>3, <2>7 DEF SlotsAreHeld, Holding, Holds
  <2>9. RunnerTypeOK'
    BY <1>2, <1>5, <2>2, <2>4 DEF RunnerTypeOK
  <2> QED
    BY <1>2, <2>1, <2>2, <2>3, <2>6, <2>8, <2>9 DEF RunnerInv
<1> QED
  BY <1>3, <1>4, <1>5 DEF Launch

\* A slot given back goes to the oldest run in line, or is free.
LEMMA ReleaseKeeps ==
  ASSUME RunnerInv, NEW r \in Runs, Holds(run[r]), NEW next \in Run, ~Holds(next),
         next.pc # "waiting", Release(r, next), closed' = closed
  PROVE  /\ RunnerInv' /\ run'[r] = next
         /\ \A o \in Runs \ {r} : run'[o].pc = "idle" <=> run[o].pc = "idle"
<1>1. /\ RunnerTypeOK /\ LineInv /\ IsFiniteSet(Holding) /\ SlotsAreHeld
      /\ r \in Holding /\ run[r].pc # "waiting" /\ closed' \in BOOLEAN
      /\ running = Cardinality(Holding)
      /\ running \in Nat /\ running <= MaxRunning /\ waiting \in Seq(Runs) /\ MaxRunning \in Nat
  BY RunnerBounds DEF RunnerInv, Holding, Holds, RunnerTypeOK, SlotsAreHeld
<1>2. CASE waiting = <<>>
  <2>1. running' = running - 1 /\ run' = [run EXCEPT ![r] = next] /\ waiting' = waiting
    BY <1>2 DEF Release
  <2>2. /\ run' \in [Runs -> Run] /\ run'[r] = next
        /\ \A o \in Runs \ {r} : run'[o] = run[o]
        /\ Holding' = Holding \ {r}
    BY <1>1, <2>1, OneRun
  <2>3. IsFiniteSet(Holding') /\ Cardinality(Holding') = Cardinality(Holding) - 1
    BY <1>1, <2>2, FS_RemoveElement
  <2>4. Cardinality(Holding') \in Nat
    BY <2>3, FS_CardinalityType
  <2>5. SlotsAreHeld'
    BY <1>1, <1>2, <2>1, <2>3 DEF SlotsAreHeld, Holding, Holds
  <2>6. LineInv'
    BY <1>1, <2>1, <2>2, SameLine
  <2>7. RunnerTypeOK'
    BY <1>1, <2>1, <2>2, <2>3, <2>4 DEF RunnerTypeOK
  <2> QED
    BY <2>2, <2>3, <2>5, <2>6, <2>7 DEF RunnerInv
<1>3. CASE waiting # <<>>
  <2> DEFINE h == Head(waiting)
             x == [run[h] EXCEPT !.pc = "granted"]
  <2>1. /\ waiting' = Tail(waiting) /\ running' = running
        /\ run' = [run EXCEPT ![r] = next, ![h].pc = "granted"]
    BY <1>3 DEF Release
  <2>2. /\ Len(waiting) \in Nat \ {0} /\ DOMAIN waiting = 1 .. Len(waiting) /\ h = waiting[1]
        /\ h \in Runs /\ waiting' \in Seq(Runs) /\ Len(waiting') = Len(waiting) - 1
        /\ DOMAIN waiting' = 1 .. Len(waiting) - 1
        /\ \A i \in 1 .. Len(waiting) - 1 : waiting'[i] = waiting[i + 1]
    BY <1>1, <1>3, <2>1, EmptySeq, LenProperties, HeadTailProperties
  <2>3. run[h].pc = "waiting" /\ h # r /\ ~Holds(run[h])
    BY <1>1, <2>2 DEF LineInv, Holds
  <2>4. x \in Run /\ x.pc = "granted"
    BY <1>1, <2>2, RunFacts DEF RunnerTypeOK
  <2>5. run' = [[run EXCEPT ![r] = next] EXCEPT ![h] = x]
    BY <1>1, <2>1, <2>2, <2>3 DEF RunnerTypeOK
  <2> HIDE DEF x, h
  <2>6. /\ run' \in [Runs -> Run] /\ run'[r] = next /\ run'[h] = x
        /\ \A o \in Runs \ {r, h} : run'[o] = run[o]
    BY <1>1, <2>2, <2>3, <2>4, <2>5 DEF RunnerTypeOK
  <2>7. Holding' = (Holding \ {r}) \cup {h} /\ h \notin Holding
    BY <2>2, <2>3, <2>4, <2>6 DEF Holding, Holds
  <2>8. IsFiniteSet(Holding') /\ Cardinality(Holding') = Cardinality(Holding)
    BY <1>1, <2>7, HandOver
  <2>9. SlotsAreHeld'
    BY <1>1, <1>3, <2>1, <2>8 DEF SlotsAreHeld, Holding, Holds
  <2>10. LineInv'
    <3>1. \A i, j \in DOMAIN waiting : waiting[i] = waiting[j] => i = j
      BY <1>1 DEF LineInv
    <3>2. \A i, j \in DOMAIN waiting' : waiting'[i] = waiting'[j] => i = j
      <4>1. \A i \in DOMAIN waiting' : i + 1 \in DOMAIN waiting /\ i \in Nat
        BY <2>2
      <4> QED
        BY <2>2, <3>1, <4>1
    <3>3. ASSUME NEW o \in Runs
          PROVE  run'[o].pc = "waiting" <=> \E i \in DOMAIN waiting' : waiting'[i] = o
      <4>1. run[o].pc = "waiting" <=> \E i \in DOMAIN waiting : waiting[i] = o
        BY <1>1 DEF LineInv
      <4>2. CASE o \in {r, h}
        <5>1. run'[o].pc # "waiting"
          BY <4>2, <2>4, <2>6
        <5>2. \A i \in DOMAIN waiting' : waiting'[i] # o
          <6>1. ASSUME NEW i \in DOMAIN waiting', waiting'[i] = o
                PROVE  FALSE
            <7>1. i + 1 \in DOMAIN waiting /\ waiting[i + 1] = o /\ i + 1 # 1 /\ 1 \in DOMAIN waiting
              BY <2>2, <6>1
            <7>2. o # r
              BY <1>1, <4>1, <7>1
            <7> QED
              BY <2>2, <3>1, <4>2, <7>1, <7>2
          <6> QED
            BY <6>1
        <5> QED
          BY <5>1, <5>2
      <4>3. CASE o \notin {r, h}
        <5>1. (\E i \in DOMAIN waiting : waiting[i] = o) => \E i \in DOMAIN waiting' : waiting'[i] = o
          <6>1. ASSUME NEW i \in DOMAIN waiting, waiting[i] = o
                PROVE  \E k \in DOMAIN waiting' : waiting'[k] = o
            <7>1. i # 1
              BY <2>2, <4>3, <6>1
            <7>2. i - 1 \in DOMAIN waiting' /\ waiting'[i - 1] = waiting[(i - 1) + 1] /\ (i - 1) + 1 = i
              BY <2>2, <6>1, <7>1
            <7> QED
              BY <6>1, <7>2
          <6> QED
            BY <6>1
        <5>2. (\E i \in DOMAIN waiting' : waiting'[i] = o) => \E i \in DOMAIN waiting : waiting[i] = o
          BY <2>2
        <5> QED
          BY <2>6, <4>1, <4>3, <5>1, <5>2
      <4> QED
        BY <4>2, <4>3
    <3> QED
      BY <3>2, <3>3 DEF LineInv
  <2>11. RunnerTypeOK'
    BY <1>1, <2>1, <2>2, <2>6 DEF RunnerTypeOK
  <2>12. RunnerInv'
    BY <2>8, <2>9, <2>10, <2>11 DEF RunnerInv
  <2> QED
    BY <2>3, <2>4, <2>6, <2>12
<1> QED
  BY <1>2, <1>3
\* A run that starts keeps the slots accounted for.
LEMMA StartKeeps ==
  ASSUME RunnerInv, NEW r \in Runs, run[r].pc = "idle", StartRun(r)
  PROVE  RunnerInv' /\ run'[r].pc # "idle" /\ \A o \in Runs \ {r} : run'[o] = run[o]
BY LaunchKeeps, RunFacts DEF StartRun

\* A run that failed holds no slot.
LEMMA FailedFacts ==
  ASSUME RunnerTypeOK, NEW r \in Runs
  PROVE  /\ Failed(r) \in Run /\ Failed(r).pc = "failed" /\ ~Holds(Failed(r))
         /\ run[r] \in Run
<1>1. run[r] \in Run
  BY DEF RunnerTypeOK
<1>2. Failed(r) \in Run /\ Failed(r).pc = "failed"
  BY <1>1, RunFacts DEF Failed
<1> QED
  BY <1>1, <1>2 DEF Holds

\* A run that was in line, stopped, has left it.
LEMMA StopKeeps ==
  ASSUME RunnerInv, NEW r \in Runs, StopRun(r)
  PROVE  RunnerInv' /\ \A o \in Runs : run'[o].pc = "idle" <=> run[o].pc = "idle"
<1> DEFINE x == [run[r] EXCEPT !.stopped = TRUE,
                   !.pc = IF run[r].pc \in {"waiting", "paused"} THEN "failed" ELSE run[r].pc]
<1>1. /\ RunnerTypeOK /\ LineInv /\ IsFiniteSet(Holding) /\ SlotsAreHeld
      /\ running = Cardinality(Holding) /\ run[r] \in Run
      /\ running \in Nat /\ running <= MaxRunning /\ waiting \in Seq(Runs) /\ MaxRunning \in Nat
  BY RunnerBounds DEF RunnerInv, Holding, Holds, RunnerTypeOK, SlotsAreHeld
<1>2. /\ run[r].pc \in {"waiting", "granted", "child", "paused"}
      /\ running' = running /\ closed' = closed
      /\ waiting' = IF run[r].pc = "waiting" THEN RemoveAt(waiting, Place(r)) ELSE waiting
  BY DEF StopRun, Stoppable
<1>3. run' = [run EXCEPT ![r] = x]
  BY <1>1 DEF StopRun, RunnerTypeOK, Run
<1>4. /\ x \in Run /\ x.pc # "waiting" /\ x.pc # "idle"
      /\ Holds(x) <=> Holds(run[r])
  BY <1>1, <1>2 DEF Run, Holds
<1> HIDE DEF x
<1>5. /\ run' \in [Runs -> Run] /\ run'[r] = x
      /\ \A o \in Runs \ {r} : run'[o] = run[o]
      /\ Holding' = IF Holds(x) THEN Holding \cup {r} ELSE Holding \ {r}
  BY <1>1, <1>3, <1>4, OneRun
<1>6. Holding' = Holding
  BY <1>4, <1>5 DEF Holding
<1>7. \A o \in Runs : run'[o].pc = "idle" <=> run[o].pc = "idle"
  BY <1>2, <1>4, <1>5
<1>8. CASE run[r].pc # "waiting"
  <2>1. LineInv'
    BY <1>1, <1>2, <1>4, <1>5, <1>8, SameLine
  <2>2. SlotsAreHeld'
    BY <1>1, <1>2, <1>6, <1>8 DEF SlotsAreHeld, Holding, Holds
  <2>3. RunnerTypeOK'
    BY <1>1, <1>2, <1>5, <1>8 DEF RunnerTypeOK
  <2> QED
    BY <1>1, <1>6, <1>7, <2>1, <2>2, <2>3 DEF RunnerInv
<1>9. CASE run[r].pc = "waiting"
  <2> DEFINE k == Place(r)
  <2>1. \E i \in DOMAIN waiting : waiting[i] = r
    BY <1>1, <1>9 DEF LineInv
  <2>2. k \in DOMAIN waiting /\ waiting[k] = r
    BY <2>1 DEF Place
  <2>3. /\ Len(waiting) \in Nat /\ DOMAIN waiting = 1 .. Len(waiting)
    BY <1>1, LenProperties
  <2> HIDE DEF k
  <2>4. waiting' = RemoveAt(waiting, k)
    BY <1>2, <1>9 DEF k
  <2>5. /\ waiting' \in Seq(Runs) /\ Len(waiting') = Len(waiting) - 1
        /\ \A i \in 1 .. Len(waiting) - 1 : waiting'[i] = IF i < k THEN waiting[i] ELSE waiting[i + 1]
    BY <1>1, <2>2, <2>3, <2>4, RemoveAtProperties
  <2>6. DOMAIN waiting' = 1 .. Len(waiting) - 1
    BY <2>5, LenProperties
  <2>7. \A i, j \in DOMAIN waiting : waiting[i] = waiting[j] => i = j
    BY <1>1 DEF LineInv
  <2> DEFINE old(i) == IF i < k THEN i ELSE i + 1
  <2>8. \A i \in DOMAIN waiting' : old(i) \in DOMAIN waiting /\ waiting'[i] = waiting[old(i)] /\ old(i) # k
    BY <2>2, <2>3, <2>5, <2>6
  <2>9. \A i, j \in DOMAIN waiting' : old(i) = old(j) => i = j
    BY <2>2, <2>3, <2>6
  <2>10. \A i \in (DOMAIN waiting) \ {k} : \E j \in DOMAIN waiting' : waiting'[j] = waiting[i]
    <3>1. ASSUME NEW i \in DOMAIN waiting, i # k
          PROVE  \E j \in DOMAIN waiting' : waiting'[j] = waiting[i]
      <4>1. CASE i < k
        <5>1. i \in DOMAIN waiting' /\ old(i) = i
          BY <2>2, <2>3, <2>6, <4>1
        <5> QED
          BY <2>8, <5>1
      <4>2. CASE i > k
        <5>1. i - 1 \in DOMAIN waiting' /\ old(i - 1) = i
          BY <2>2, <2>3, <2>6, <4>2
        <5> QED
          BY <2>8, <5>1
      <4> QED
        BY <3>1, <4>1, <4>2, <2>2, <2>3
    <3> QED
      BY <3>1
  <2> HIDE DEF old
  <2>11. LineInv'
    <3>1. \A i, j \in DOMAIN waiting' : waiting'[i] = waiting'[j] => i = j
      BY <2>7, <2>8, <2>9
    <3>2. ASSUME NEW o \in Runs
          PROVE  run'[o].pc = "waiting" <=> \E i \in DOMAIN waiting' : waiting'[i] = o
      <4>1. CASE o = r
        <5>1. \A i \in DOMAIN waiting' : waiting'[i] # r
          BY <2>2, <2>7, <2>8
        <5> QED
          BY <1>4, <1>5, <4>1, <5>1
      <4>2. CASE o # r
        <5>1. run[o].pc = "waiting" <=> \E i \in DOMAIN waiting : waiting[i] = o
          BY <1>1 DEF LineInv
        <5>2. (\E i \in DOMAIN waiting : waiting[i] = o) <=> \E i \in DOMAIN waiting' : waiting'[i] = o
          BY <2>2, <2>8, <2>10, <4>2
        <5> QED
          BY <1>5, <4>2, <5>1, <5>2
      <4> QED
        BY <4>1, <4>2
    <3> QED
      BY <3>1, <3>2 DEF LineInv
  <2>12. waiting # <<>>
    BY <2>1
  <2>13. SlotsAreHeld'
    BY <1>1, <1>2, <1>6, <2>12 DEF SlotsAreHeld, Holding, Holds
  <2>14. RunnerTypeOK'
    BY <1>1, <1>2, <1>5, <2>5 DEF RunnerTypeOK
  <2> QED
    BY <1>1, <1>6, <1>7, <2>11, <2>13, <2>14 DEF RunnerInv
<1> QED
  BY <1>8, <1>9

\* Closing the extension stops every run and loses no slot.
LEMMA CloseKeeps ==
  ASSUME RunnerInv, Close
  PROVE  RunnerInv' /\ \A o \in Runs : run'[o].pc = "idle" <=> run[o].pc = "idle"
<1>1. /\ RunnerTypeOK /\ LineInv /\ IsFiniteSet(Holding) /\ SlotsAreHeld
      /\ running' = running /\ waiting' = <<>> /\ closed' = TRUE
  BY DEF RunnerInv, Close
<1>2. ASSUME NEW o \in Runs
      PROVE  /\ run'[o] \in Run /\ (Holds(run'[o]) <=> Holds(run[o]))
             /\ run'[o].pc = "idle" <=> run[o].pc = "idle"
             /\ run'[o].pc # "waiting"
  <2>1. Failed(o) \in Run /\ Failed(o).pc = "failed" /\ run[o] \in Run
    BY <1>1, FailedFacts
  <2>2. run'[o] = CASE run[o].pc = "waiting" -> Failed(o)
                    [] run[o].pc = "child" -> [run[o] EXCEPT !.stopped = TRUE]
                    [] OTHER -> run[o]
    BY DEF Close
  <2>3. CASE run[o].pc = "waiting"
    BY <2>1, <2>2, <2>3 DEF Holds
  <2>4. CASE run[o].pc = "child"
    <3>1. run'[o] = [run[o] EXCEPT !.stopped = TRUE]
      BY <2>2, <2>4
    <3>2. run'[o].pc = "child" /\ run'[o] \in Run
      BY <2>1, <2>4, <3>1 DEF Run
    <3> QED
      BY <2>4, <3>2 DEF Holds
  <2>5. CASE run[o].pc \notin {"waiting", "child"}
    BY <2>1, <2>2, <2>5
  <2> QED
    BY <2>3, <2>4, <2>5
<1>3. DOMAIN run' = Runs
  BY DEF Close
<1>4. run' = [o \in Runs |-> run'[o]]
  BY DEF Close
<1>5. run' \in [Runs -> Run]
  BY <1>2, <1>4
<1>6. Holding' = Holding
  BY <1>2 DEF Holding
<1>7. <<>> \in Seq(Runs) /\ DOMAIN <<>> = {}
  BY EmptySeq
<1>8. LineInv'
  BY <1>1, <1>2, <1>7 DEF LineInv
<1>9. SlotsAreHeld'
  BY <1>1, <1>6 DEF SlotsAreHeld, Holding, Holds
<1>10. RunnerTypeOK'
  BY <1>1, <1>5, <1>7 DEF RunnerTypeOK
<1> QED
  BY <1>1, <1>2, <1>6, <1>8, <1>9, <1>10 DEF RunnerInv

\* Every step of a run keeps the slots accounted for.
LEMMA RunStepKeeps ==
  ASSUME RunnerInv, NEW r \in Runs, RunStep(r)
  PROVE  RunnerInv' /\ \A o \in Runs : run'[o].pc = "idle" <=> run[o].pc = "idle"
<1>1. /\ RunnerTypeOK /\ LineInv /\ IsFiniteSet(Holding) /\ SlotsAreHeld /\ closed' = closed
      /\ Failed(r) \in Run /\ Failed(r).pc = "failed" /\ ~Holds(Failed(r)) /\ run[r] \in Run
  BY FailedFacts DEF RunnerInv, RunStep, Granted, ChildFails, Retry
<1>released. ASSUME NEW next \in Run, ~Holds(next), next.pc \notin {"waiting", "idle"},
                    Holds(run[r]), Release(r, next)
             PROVE  RunnerInv' /\ \A o \in Runs : run'[o].pc = "idle" <=> run[o].pc = "idle"
  BY <1>1, <1>released, ReleaseKeeps DEF Holds
<1>2. CASE Granted(r)
  <2>1. Holds(run[r]) /\ run[r].pc = "granted"
    BY <1>2 DEF Granted, Holds
  <2>2. CASE closed \/ run[r].stopped
    BY <1>1, <1>2, <1>released, <2>1, <2>2 DEF Granted, SlotUnused
  <2>3. CASE ~(closed \/ run[r].stopped)
    <3> DEFINE x == [run[r] EXCEPT !.pc = "child"]
    <3>1. x \in Run /\ x.pc = "child"
      BY <1>1, RunFacts
    <3>2. run' = [run EXCEPT ![r] = x] /\ running' = running /\ waiting' = waiting
      BY <1>1, <1>2, <2>3 DEF Granted, RunnerTypeOK
    <3> HIDE DEF x
    <3>3. /\ run' \in [Runs -> Run] /\ run'[r] = x
          /\ \A o \in Runs \ {r} : run'[o] = run[o]
          /\ Holding' = Holding \cup {r}
      BY <1>1, <3>1, <3>2, OneRun DEF Holds
    <3>4. Holding' = Holding
      BY <2>1, <3>3 DEF Holding
    <3>5. LineInv'
      BY <1>1, <2>1, <3>1, <3>2, <3>3, SameLine
    <3>6. SlotsAreHeld'
      BY <1>1, <3>2, <3>4 DEF SlotsAreHeld, Holding, Holds
    <3>7. RunnerTypeOK'
      BY <1>1, <3>2, <3>3 DEF RunnerTypeOK
    <3> QED
      BY <1>1, <2>1, <3>1, <3>3, <3>4, <3>5, <3>6, <3>7 DEF RunnerInv
  <2> QED
    BY <2>2, <2>3
<1>3. CASE ChildFails(r)
  <2>1. Holds(run[r])
    BY <1>3 DEF ChildFails, Holds
  <2>2. CASE Release(r, Failed(r))
    BY <1>1, <1>released, <2>1, <2>2
  <2>3. CASE /\ run[r].retries < MaxRetries
             /\ Release(r, [run[r] EXCEPT !.pc = "paused", !.retries = run[r].retries + 1])
    <3> DEFINE x == [run[r] EXCEPT !.pc = "paused", !.retries = run[r].retries + 1]
    <3>1. x \in Run /\ x.pc = "paused"
      <4>1. run[r].retries + 1 \in 0 .. MaxRetries
        BY <1>1, <2>3, RunnerBounds DEF Run
      <4> QED
        BY <1>1, <4>1 DEF Run
    <3> HIDE DEF x
    <3>2. Release(r, x)
      BY <2>3 DEF x
    <3> QED
      BY <1>released, <2>1, <3>1, <3>2 DEF Holds
  <2> QED
    BY <1>3, <2>2, <2>3 DEF ChildFails
<1>4. CASE Retry(r)
  BY <1>1, <1>4, LaunchKeeps DEF Retry
<1> QED
  BY <1>2, <1>3, <1>4 DEF RunStep

\* The two ways a caller of run has its answer.
LEMMA AnsweredKeeps ==
  ASSUME RunnerInv, NEW r \in Runs, ChildAnswers(r)
  PROVE  /\ RunnerInv' /\ run'[r].pc = "idle" /\ run[r].pc # "idle"
         /\ \A o \in Runs \ {r} : run'[o].pc = "idle" <=> run[o].pc = "idle"
BY ReleaseKeeps, RunFacts DEF ChildAnswers, Holds

\* A failure that has been reported leaves the run idle.
LEMMA FailureKeeps ==
  ASSUME RunnerInv, NEW r \in Runs, run[r].pc = "failed", run' = [run EXCEPT ![r] = NoRun],
         UNCHANGED <<running, waiting, closed>>
  PROVE  /\ RunnerInv' /\ run'[r].pc = "idle"
         /\ \A o \in Runs \ {r} : run'[o].pc = "idle" <=> run[o].pc = "idle"
<1>1. /\ ~Holds(run[r]) /\ NoRun \in Run /\ ~Holds(NoRun) /\ NoRun.pc = "idle"
      /\ closed' \in BOOLEAN /\ RunnerTypeOK
  BY RunFacts DEF Holds, RunnerInv, RunnerTypeOK
<1>2. RunnerInv'
  BY <1>1, Elsewhere
<1> QED
  BY <1>1, <1>2, OneRun
--------------------------------------------------------------------------------
(* The queue. *)

\* A function on 1 .. n is a sequence of length n.
LEMMA SeqOfFunction ==
  ASSUME NEW S, NEW n \in Nat, NEW f \in [1 .. n -> S]
  PROVE  f \in Seq(S) /\ Len(f) = n
<1>1. f \in Seq(S)
  BY SeqDef
<1>2. DOMAIN f = 1 .. Len(f) /\ Len(f) \in Nat /\ DOMAIN f = 1 .. n
  BY <1>1, LenProperties
<1> QED
  BY <1>1, <1>2

\* The indices and the members of the queue.
LEMMA QueueFacts ==
  ASSUME queue \in Seq(Task)
  PROVE  /\ Len(queue) \in Nat /\ DOMAIN queue = 1 .. Len(queue)
         /\ \A i \in DOMAIN queue : queue[i] \in Task /\ queue[i].by \subseteq Callers
<1>1. /\ Len(queue) \in Nat /\ DOMAIN queue = 1 .. Len(queue)
      /\ \A i \in DOMAIN queue : queue[i] \in Task
  BY LenProperties
<1> QED
  BY <1>1 DEF Task

\* Unshared closes every task of the queue to callers that would join, and changes nothing else.
LEMMA UnsharedFacts ==
  ASSUME queue \in Seq(Task)
  PROVE  /\ Unshared \in Seq(Task) /\ Len(Unshared) = Len(queue) /\ DOMAIN Unshared = DOMAIN queue
         /\ \A i \in DOMAIN queue : /\ Unshared[i].by = queue[i].by /\ Unshared[i].open = FALSE
                                    /\ Unshared[i].kind = queue[i].kind
                                    /\ Unshared[i].what = queue[i].what
<1>1. /\ Len(queue) \in Nat /\ DOMAIN queue = 1 .. Len(queue)
      /\ \A i \in DOMAIN queue : queue[i] \in Task
  BY QueueFacts
<1>3. /\ DOMAIN Unshared = DOMAIN queue
      /\ \A i \in DOMAIN queue : Unshared[i] = [queue[i] EXCEPT !.open = FALSE]
  BY DEF Unshared
<1>4. \A i \in DOMAIN queue : /\ Unshared[i] \in Task
                              /\ Unshared[i].by = queue[i].by /\ Unshared[i].open = FALSE
                              /\ Unshared[i].kind = queue[i].kind
                              /\ Unshared[i].what = queue[i].what
  <2>1. ASSUME NEW i \in DOMAIN queue
        PROVE  /\ Unshared[i] \in Task
               /\ Unshared[i].by = queue[i].by /\ Unshared[i].open = FALSE
               /\ Unshared[i].kind = queue[i].kind
               /\ Unshared[i].what = queue[i].what
    <3>1. queue[i] \in Task /\ Unshared[i] = [queue[i] EXCEPT !.open = FALSE]
      BY <1>1, <1>3
    <3> QED
      BY <3>1 DEF Task
  <2> QED
    BY <2>1
<1>5. Unshared \in [1 .. Len(queue) -> Task]
  <2>1. Unshared = [i \in 1 .. Len(queue) |-> Unshared[i]]
    BY <1>1, <1>3 DEF Unshared
  <2> QED
    BY <1>1, <1>4, <2>1
<1> QED
  BY <1>1, <1>3, <1>4, <1>5, SeqOfFunction

\* Tasks stay where they are, and nobody new waits in them.
LEMMA TasksKept ==
  ASSUME QueueInv, DOMAIN queue' = DOMAIN queue,
         \A i \in DOMAIN queue : /\ queue'[i].by \subseteq queue[i].by
                                 /\ queue'[i].kind = queue[i].kind
                                 /\ queue'[i].open => queue[i].open
                                 /\ \A p \in queue'[i].by : caller'[p].pc = "queued"
                                 /\ queue'[i].kind = "discover" => queue'[i].what \in Requests
  PROVE  QueueInv'
<1>1. \A i, j \in DOMAIN queue : queue'[i].by \cap queue'[j].by # {} => i = j
  BY DEF QueueInv
<1>2. \A i, j \in DOMAIN queue : i < j /\ queue'[i].open => queue'[j].kind \notin {"remove", "select"}
  BY DEF QueueInv
<1> QED
  BY <1>1, <1>2 DEF QueueInv

\* A request that waits in no task yet is put at the tail.
LEMMA TaskAppended ==
  ASSUME QueueInv, queue \in Seq(Task), caller \in [Callers -> Caller],
         NEW q \in Seq(Task), Len(q) = Len(queue),
         \A i \in DOMAIN queue : /\ q[i].by = queue[i].by /\ q[i].kind = queue[i].kind
                                 /\ q[i].what = queue[i].what
                                 /\ q[i].open => queue[i].open,
         NEW task \in Task, NEW p \in Callers, task.by = {p}, caller[p].pc # "queued",
         task.kind \in {"remove", "select"} => \A i \in DOMAIN queue : ~q[i].open,
         task.kind = "discover" => task.what \in Requests,
         queue' = Append(q, task), caller'[p].pc = "queued",
         \A o \in Callers \ {p} : caller'[o] = caller[o]
  PROVE  /\ QueueInv' /\ queue' \in Seq(Task) /\ Len(queue') = Len(queue) + 1
         /\ \A i \in DOMAIN queue : queue'[i].what = queue[i].what
<1> DEFINE n == Len(queue)
<1>1. /\ n \in Nat /\ DOMAIN queue = 1 .. n
      /\ \A i \in DOMAIN queue : queue[i].by \subseteq Callers
  BY QueueFacts
<1>2. /\ queue' \in Seq(Task) /\ Len(queue') = n + 1
      /\ \A i \in 1 .. n : queue'[i] = q[i]
      /\ queue'[n + 1] = task
  BY AppendProperties
<1>3. DOMAIN queue' = 1 .. n + 1
  BY <1>2, LenProperties
<1>4. \A i \in 1 .. n : p \notin queue'[i].by /\ queue'[i].by = queue[i].by
  BY <1>1, <1>2 DEF QueueInv
<1>5. ASSUME NEW i \in DOMAIN queue', NEW o \in queue'[i].by
      PROVE  caller'[o].pc = "queued"
  <2>1. CASE i = n + 1
    BY <1>2, <1>5, <2>1
  <2>2. CASE i \in 1 .. n
    BY <1>1, <1>4, <1>5, <2>2 DEF QueueInv
  <2> QED
    BY <1>1, <1>3, <2>1, <2>2
<1>6. ASSUME NEW i \in DOMAIN queue', NEW j \in DOMAIN queue', queue'[i].by \cap queue'[j].by # {}
      PROVE  i = j
  <2>1. CASE i \in 1 .. n /\ j \in 1 .. n
    BY <1>1, <1>4, <1>6, <2>1 DEF QueueInv
  <2>2. CASE i \in 1 .. n /\ j = n + 1
    BY <1>2, <1>4, <1>6, <2>2
  <2>3. CASE i = n + 1 /\ j \in 1 .. n
    BY <1>2, <1>4, <1>6, <2>3
  <2> QED
    BY <1>1, <1>3, <2>1, <2>2, <2>3
<1>7. ASSUME NEW i \in DOMAIN queue', NEW j \in DOMAIN queue', i < j, queue'[i].open
      PROVE  queue'[j].kind \notin {"remove", "select"}
  <2>1. i \in 1 .. n
    BY <1>1, <1>3, <1>7
  <2>2. CASE j \in 1 .. n
    BY <1>1, <1>2, <1>7, <2>1, <2>2 DEF QueueInv
  <2>3. CASE j = n + 1
    BY <1>1, <1>2, <1>7, <2>1, <2>3
  <2> QED
    BY <1>1, <1>3, <2>2, <2>3
<1>8. ASSUME NEW i \in DOMAIN queue', queue'[i].kind = "discover"
      PROVE  queue'[i].what \in Requests
  <2>1. CASE i \in 1 .. n
    BY <1>1, <1>2, <1>8, <2>1 DEF QueueInv
  <2>2. CASE i = n + 1
    BY <1>2, <1>8, <2>2
  <2> QED
    BY <1>1, <1>3, <2>1, <2>2
<1>9. \A i \in DOMAIN queue : queue'[i].what = queue[i].what
  BY <1>1, <1>2
<1> QED
  BY <1>2, <1>5, <1>6, <1>7, <1>8, <1>9 DEF QueueInv

\* Its head leaves the queue; whoever waits in the other tasks still does.
LEMMA Finished ==
  ASSUME QueueInv, queue \in Seq(Task), caller \in [Callers -> Caller], queue # <<>>, Finish
  PROVE  /\ QueueInv' /\ queue' \in Seq(Task) /\ Len(queue') = Len(queue) - 1
         /\ caller' \in [Callers -> Caller] /\ stage' = "queued"
         /\ \A p \in Callers : caller'[p].pc = "calling" <=> caller[p].pc = "calling"
<1> DEFINE n == Len(queue)
<1>1. /\ n \in Nat /\ DOMAIN queue = 1 .. n
      /\ \A i \in DOMAIN queue : queue[i].by \subseteq Callers
  BY QueueFacts
<1>2. /\ queue' \in Seq(Task) /\ Len(queue') = n - 1
      /\ \A i \in 1 .. n - 1 : queue'[i] = queue[i + 1]
      /\ Head(queue) = queue[1] /\ n > 0
  BY <1>1, EmptySeq, HeadTailProperties DEF Finish
<1>3. DOMAIN queue' = 1 .. n - 1
  BY <1>2, LenProperties
<1>4. \A i \in DOMAIN queue' : i + 1 \in DOMAIN queue /\ i + 1 # 1 /\ queue'[i] = queue[i + 1]
  BY <1>1, <1>2, <1>3
<1>5. NoCall \in Caller /\ NoCall.pc = "idle"
  BY DEF NoCall, Caller, NoRoute, Route
<1>6. /\ caller' \in [Callers -> Caller] /\ stage' = "queued"
      /\ \A p \in Callers : caller'[p] = IF p \in Head(queue).by THEN NoCall ELSE caller[p]
  BY <1>5 DEF Finish
<1>7. 1 \in DOMAIN queue
  BY <1>1, <1>2
<1>8. \A p \in Callers : caller'[p].pc = "calling" <=> caller[p].pc = "calling"
  BY <1>2, <1>5, <1>6, <1>7 DEF QueueInv
<1>9. ASSUME NEW i \in DOMAIN queue', NEW p \in queue'[i].by
      PROVE  caller'[p].pc = "queued"
  <2>1. p \in Callers /\ caller[p].pc = "queued"
    BY <1>1, <1>4, <1>9 DEF QueueInv
  <2>2. p \notin queue[1].by
    BY <1>4, <1>7, <1>9 DEF QueueInv
  <2> QED
    BY <1>2, <1>6, <2>1, <2>2
<1>10. \A i, j \in DOMAIN queue' : queue'[i].by \cap queue'[j].by # {} => i = j
  <2>1. ASSUME NEW i \in DOMAIN queue', NEW j \in DOMAIN queue', queue'[i].by \cap queue'[j].by # {}
        PROVE  i = j
    <3>1. i + 1 = j + 1
      BY <1>4, <2>1 DEF QueueInv
    <3> QED
      BY <1>1, <1>3, <3>1
  <2> QED
    BY <2>1
<1>11. \A i, j \in DOMAIN queue' : i < j /\ queue'[i].open => queue'[j].kind \notin {"remove", "select"}
  <2>1. ASSUME NEW i \in DOMAIN queue', NEW j \in DOMAIN queue', i < j, queue'[i].open
        PROVE  queue'[j].kind \notin {"remove", "select"}
    <3>1. i + 1 < j + 1
      BY <1>1, <1>3, <2>1
    <3> QED
      BY <1>4, <2>1, <3>1 DEF QueueInv
  <2> QED
    BY <2>1
<1>12. \A i \in DOMAIN queue' : queue'[i].kind = "discover" => queue'[i].what \in Requests
  BY <1>4 DEF QueueInv
<1> QED
  BY <1>2, <1>6, <1>8, <1>9, <1>10, <1>11, <1>12 DEF QueueInv
--------------------------------------------------------------------------------
(* The steps of the session. *)

\* What a step of the host or the queue leaves alone.
LEMMA SessionKept ==
  ASSUME Inv, UNCHANGED <<session, environment>>, RunnerInv', queue' \in Seq(Task),
         Len(queue') <= MaxQueued, stage' \in {"queued", "asked", "notifying"},
         caller' \in [Callers -> Caller], requests' \in 0 .. MaxRequests, RunsInv', QueueInv'
  PROVE  Inv'
<1>1. UNCHANGED <<identity, bound, pending, routes, published, user, ready, changes>>
  BY DEF session, environment
<1>2. RoutesInv'
  BY <1>1 DEF Inv, RoutesInv, OneAccountPerConnector
<1>3. TypeOK'
  BY <1>1 DEF Inv, TypeOK, RunnerInv
<1> QED
  BY <1>2, <1>3 DEF Inv

\* The records of the callers that the steps write are well typed.
LEMMA CallerFacts ==
  /\ NoCall \in Caller /\ NoCall.pc = "idle"
  /\ \A x \in Caller : [x EXCEPT !.pc = "queued"] \in Caller /\ [x EXCEPT !.pc = "queued"].pc = "queued"
  /\ \A x \in Route : /\ [pc |-> "calling", route |-> x] \in Caller
                      /\ [pc |-> "calling", route |-> x].pc = "calling"
BY DEF NoCall, Caller, NoRoute, Route

\* A new task is well typed and is awaited by the caller that made it.
LEMMA TaskFacts ==
  ASSUME NEW kind \in {"discover", "remove", "select", "deliver"}, NEW p \in Callers
  PROVE  NewTask(kind, p) \in Task /\ NewTask(kind, p).by = {p} /\ NewTask(kind, p).kind = kind
BY DEF NewTask, Task

\* The facts of the invariant that the steps below keep using.
LEMMA InvFacts ==
  ASSUME Inv
  PROVE  /\ RunnerInv /\ RunsInv /\ QueueInv /\ RoutesInv
         /\ queue \in Seq(Task) /\ Len(queue) <= MaxQueued /\ Len(queue) \in Nat
         /\ stage \in {"queued", "asked", "notifying"}
         /\ caller \in [Callers -> Caller]
         /\ requests \in 0 .. MaxRequests /\ MaxQueued \in Nat \ {0} /\ MaxRequests \in Nat
         /\ Callers \subseteq Runs /\ Queue \in Runs /\ Queue \notin Callers
         /\ \A p \in Callers : caller[p] \in Caller
         /\ \A s \in Sources : routes[s] \in Route
         /\ waiting \in Seq(Runs) /\ queue = <<>> <=> Len(queue) = 0
         /\ stage # "queued" => 1 \in DOMAIN queue
BY LenProperties, EmptySeq, RunsAreOfTheSession, SessionBounds DEF Inv, TypeOK, RunnerInv, RunnerTypeOK,
   RunsInv

\* A caller that queues a task waits for it, and nobody else is affected.
LEMMA QueuedFacts ==
  ASSUME Inv, NEW p \in Callers, Queued(p)
  PROVE  /\ caller' \in [Callers -> Caller] /\ caller'[p].pc = "queued"
         /\ \A o \in Callers \ {p} : caller'[o] = caller[o]
<1> DEFINE x == [caller[p] EXCEPT !.pc = "queued"]
<1>1. x \in Caller /\ x.pc = "queued"
  BY InvFacts, CallerFacts
<1>2. caller' = [caller EXCEPT ![p] = x]
  BY InvFacts DEF Queued
<1> QED
  BY <1>1, <1>2, InvFacts

\* Putting a task of one's own at the end of the queue keeps the invariant.
LEMMA EnqueueKeeps ==
  ASSUME Inv, NEW p \in Callers, Request(p), NEW task \in Task, task.by = {p},
         task.kind = "discover" => task.what \in Requests, Enqueue(p, task),
         UNCHANGED <<runnerVars, session, stage, environment>>
  PROVE  Inv'
<1>1. /\ caller[p].pc = "idle" /\ requests' \in 0 .. MaxRequests
      /\ UNCHANGED <<running, waiting, run, closed, stage>>
  BY InvFacts DEF Request, runnerVars
<1>2. RunnerInv'
  BY <1>1, InvFacts DEF RunnerInv, RunnerTypeOK, Holding, SlotsAreHeld, LineInv
<1>3. CASE Len(queue) < MaxQueued /\ queue' = Append(Unshared, task) /\ Queued(p)
  <2>1. /\ caller' \in [Callers -> Caller] /\ caller'[p].pc = "queued"
        /\ \A o \in Callers \ {p} : caller'[o] = caller[o]
    BY <1>3, QueuedFacts
  <2>2. /\ QueueInv' /\ queue' \in Seq(Task) /\ Len(queue') = Len(queue) + 1
        /\ \A i \in DOMAIN queue : queue'[i].what = queue[i].what
    BY <1>1, <1>3, <2>1, InvFacts, UnsharedFacts, TaskAppended
  <2>3. RunsInv'
    <3>1. \A o \in Callers : caller'[o].pc = "calling" <=> caller[o].pc = "calling"
      BY <1>1, <2>1
    <3>2. queue' # <<>>
      BY <2>2, InvFacts, EmptySeq
    <3>3. stage = "asked" => queue'[1].what = queue[1].what
      BY <2>2, InvFacts, EmptySeq DEF RunsInv
    <3> QED
      BY <1>1, <3>1, <3>2, <3>3, InvFacts DEF RunsInv
  <2> QED
    BY <1>1, <1>2, <1>3, <2>1, <2>2, <2>3, InvFacts, SessionKept
<1>4. CASE queue' = Unshared /\ UNCHANGED caller
  <2>1. queue' \in Seq(Task) /\ Len(queue') = Len(queue) /\ DOMAIN queue' = DOMAIN queue
    BY <1>4, InvFacts, UnsharedFacts
  <2>2. QueueInv'
    <3>1. \A i \in DOMAIN queue : /\ \A o \in queue[i].by : caller[o].pc = "queued"
                                  /\ queue[i].kind = "discover" => queue[i].what \in Requests
      BY InvFacts DEF QueueInv
    <3>2. \A i \in DOMAIN queue :
            /\ queue'[i].by = queue[i].by /\ queue'[i].kind = queue[i].kind
            /\ ~queue'[i].open /\ queue'[i].what = queue[i].what
      BY <1>4, InvFacts, UnsharedFacts
    <3>3. ASSUME NEW i \in DOMAIN queue
          PROVE  /\ queue'[i].by \subseteq queue[i].by /\ queue'[i].kind = queue[i].kind
                 /\ queue'[i].open => queue[i].open
                 /\ \A o \in queue'[i].by : caller'[o].pc = "queued"
                 /\ queue'[i].kind = "discover" => queue'[i].what \in Requests
      BY <1>4, <3>1, <3>2
    <3> QED
      BY <2>1, <3>3, InvFacts, TasksKept
  <2>3. RunsInv'
    BY <1>1, <1>4, <2>1, InvFacts, UnsharedFacts, EmptySeq DEF RunsInv
  <2> QED
    BY <1>1, <1>2, <1>4, <2>1, <2>2, <2>3, InvFacts, SessionKept
<1> QED
  BY <1>3, <1>4 DEF Enqueue

\* Somebody joins a discovery that is open.
LEMMA DiscoverKeeps ==
  ASSUME Inv, NEW p \in Callers, NEW what \in Requests, Discover(p, what)
  PROVE  Inv'
<1>1. /\ Request(p) /\ caller[p].pc = "idle" /\ requests' \in 0 .. MaxRequests
      /\ UNCHANGED <<running, waiting, run, closed, stage>>
      /\ UNCHANGED <<runnerVars, session, stage, environment>>
  BY InvFacts DEF Discover, Request, runnerVars
<1>2. RunnerInv'
  BY <1>1, InvFacts DEF RunnerInv, RunnerTypeOK, Holding, SlotsAreHeld, LineInv
<1>3. ASSUME NEW i \in DOMAIN queue, queue' = [queue EXCEPT ![i].by = @ \cup {p}], Queued(p)
      PROVE  Inv'
  <2> DEFINE x == [queue[i] EXCEPT !.by = queue[i].by \cup {p}]
  <2>1. /\ DOMAIN queue = 1 .. Len(queue)
        /\ \A j \in DOMAIN queue : queue[j] \in Task /\ queue[j].by \subseteq Callers
    BY InvFacts, QueueFacts
  <2>2. /\ x \in Task /\ x.by = queue[i].by \cup {p} /\ x.kind = queue[i].kind
        /\ x.open = queue[i].open /\ x.what = queue[i].what
    BY <2>1 DEF Task
  <2>3. queue' = [queue EXCEPT ![i] = x]
    BY <1>3, <2>1
  <2> HIDE DEF x
  <2>4. /\ queue' \in Seq(Task) /\ Len(queue') = Len(queue) /\ queue'[i] = x
        /\ \A j \in 1 .. Len(queue) : j # i => queue'[j] = queue[j]
    BY <2>1, <2>2, <2>3, InvFacts, ExceptSeq
  <2>5. DOMAIN queue' = DOMAIN queue
    BY <2>1, <2>4, LenProperties
  <2>6. /\ caller' \in [Callers -> Caller] /\ caller'[p].pc = "queued"
        /\ \A o \in Callers \ {p} : caller'[o] = caller[o]
    BY <1>3, QueuedFacts
  <2>7. \A j \in DOMAIN queue : p \notin queue[j].by
    BY <1>1, InvFacts DEF QueueInv
  <2>8. \A j \in DOMAIN queue : /\ queue'[j].kind = queue[j].kind /\ queue'[j].open = queue[j].open
                                /\ queue'[j].what = queue[j].what
                                /\ queue'[j].by = IF j = i THEN queue[j].by \cup {p} ELSE queue[j].by
    BY <2>1, <2>2, <2>4
  <2>9. QueueInv'
    <3>1. ASSUME NEW j \in DOMAIN queue, NEW o \in queue'[j].by
          PROVE  caller'[o].pc = "queued"
      <4>1. CASE o = p
        BY <2>6, <4>1
      <4>2. CASE o # p
        <5>1. o \in queue[j].by /\ o \in Callers
          BY <2>1, <2>8, <3>1, <4>2
        <5>2. caller[o].pc = "queued"
          BY <5>1, InvFacts DEF QueueInv
        <5> QED
          BY <2>6, <4>2, <5>1, <5>2
      <4> QED
        BY <4>1, <4>2
    <3>2. ASSUME NEW j \in DOMAIN queue, NEW k \in DOMAIN queue, queue'[j].by \cap queue'[k].by # {}
          PROVE  j = k
      <4>1. queue[j].by \cap queue[k].by # {} => j = k
        BY InvFacts DEF QueueInv
      <4>2. p \notin queue[j].by /\ p \notin queue[k].by
        BY <2>7
      <4>3. /\ queue'[j].by = IF j = i THEN queue[j].by \cup {p} ELSE queue[j].by
            /\ queue'[k].by = IF k = i THEN queue[k].by \cup {p} ELSE queue[k].by
        BY <2>8
      <4> QED
        BY <3>2, <4>1, <4>2, <4>3
    <3>3. \A j, k \in DOMAIN queue' :
            j < k /\ queue'[j].open => queue'[k].kind \notin {"remove", "select"}
      BY <2>5, <2>8, InvFacts DEF QueueInv
    <3>4. \A j \in DOMAIN queue' : queue'[j].kind = "discover" => queue'[j].what \in Requests
      BY <2>5, <2>8, InvFacts DEF QueueInv
    <3> QED
      BY <2>5, <3>1, <3>2, <3>3, <3>4 DEF QueueInv
  <2>10. RunsInv'
    BY <1>1, <2>4, <2>6, <2>8, InvFacts, EmptySeq DEF RunsInv
  <2> QED
    BY <1>1, <1>2, <2>4, <2>6, <2>9, <2>10, InvFacts, SessionKept
<1>4. CASE UNCHANGED <<queue, caller>>
  <2>1. QueueInv' /\ RunsInv'
    BY <1>1, <1>4, InvFacts DEF QueueInv, RunsInv
  <2> QED
    BY <1>1, <1>2, <1>4, <2>1, InvFacts, SessionKept
<1>5. CASE Enqueue(p, [NewTask("discover", p) EXCEPT !.what = what, !.open = TRUE])
  <2> DEFINE task == [NewTask("discover", p) EXCEPT !.what = what, !.open = TRUE]
  <2>1. what \in SUBSET (Selectors \cup Sources)
    BY SelectorsResolve
  <2>2. task \in Task /\ task.by = {p} /\ task.what = what
    BY <2>1 DEF NewTask, Task
  <2> HIDE DEF task
  <2>3. Enqueue(p, task)
    BY <1>5 DEF task
  <2> QED
    BY <1>1, <2>2, <2>3, EnqueueKeeps
<1> QED
  BY <1>3, <1>4, <1>5 DEF Discover, Joinable

\* Removing a source and selecting a connection keep the invariant.
LEMMA RequestsKeep ==
  ASSUME Inv, NEW p \in Callers,
         \/ \E s \in Sources : DiscoverRemove(p, {s})
         \/ \E c \in Connections : Select(p, c)
  PROVE  Inv'
<1>1. CASE \E s \in Sources : DiscoverRemove(p, {s})
  <2>1. PICK s \in Sources : DiscoverRemove(p, {s})
    BY <1>1
  <2> DEFINE task == [NewTask("remove", p) EXCEPT !.what = {s}]
  <2>2. task \in Task /\ task.by = {p} /\ task.kind # "discover"
    BY DEF NewTask, Task
  <2> HIDE DEF task
  <2>3. Enqueue(p, task)
    BY <2>1 DEF DiscoverRemove, EnqueueRemoval, task
  <2> QED
    BY <2>1, <2>2, <2>3, EnqueueKeeps DEF DiscoverRemove
<1>2. CASE \E c \in Connections : Select(p, c)
  <2>1. PICK c \in Connections : Select(p, c)
    BY <1>2
  <2> DEFINE task == [NewTask("select", p) EXCEPT !.choice = c]
  <2>2. task \in Task /\ task.by = {p} /\ task.kind # "discover"
    BY DEF NewTask, Task
  <2> HIDE DEF task
  <2>3. Enqueue(p, task)
    BY <2>1 DEF Select, task
  <2> QED
    BY <2>1, <2>2, <2>3, EnqueueKeeps DEF Select
<1> QED
  BY <1>1, <1>2

\* A tool call has its run from its beginning to its end.
LEMMA CallToolKeeps ==
  ASSUME Inv, NEW p \in Callers, NEW s \in Sources, CallTool(p, s)
  PROVE  Inv'
<1>1. /\ caller[p].pc = "idle" /\ requests' \in 0 .. MaxRequests /\ UNCHANGED <<queue, stage>>
      /\ UNCHANGED <<session, environment>> /\ StartRun(p)
      /\ caller' = [caller EXCEPT ![p] = [pc |-> "calling", route |-> routes[s]]]
  BY InvFacts DEF CallTool, Request
<1>2. p \in Runs /\ run[p].pc = "idle"
  BY <1>1, InvFacts DEF RunsInv
<1>3. RunnerInv' /\ run'[p].pc # "idle" /\ \A o \in Runs \ {p} : run'[o] = run[o]
  BY <1>1, <1>2, InvFacts, StartKeeps
<1>4. /\ caller' \in [Callers -> Caller] /\ caller'[p].pc = "calling"
      /\ \A o \in Callers \ {p} : caller'[o] = caller[o]
  BY <1>1, InvFacts, CallerFacts
<1>5. RunsInv'
  BY <1>1, <1>2, <1>3, <1>4, InvFacts DEF RunsInv
<1>6. QueueInv'
  <2>1. \A i \in DOMAIN queue : \A o \in queue[i].by : o \in Callers /\ caller[o].pc = "queued"
    BY InvFacts, QueueFacts DEF QueueInv
  <2>2. \A i \in DOMAIN queue : \A o \in queue[i].by : caller'[o].pc = "queued"
    BY <1>1, <1>4, <2>1
  <2> QED
    BY <1>1, <2>2, InvFacts DEF QueueInv
<1> QED
  BY <1>1, <1>3, <1>4, <1>5, <1>6, InvFacts, SessionKept
\* A request is given up; its run, or the run that asks for it, is stopped.
LEMMA CancelKeeps ==
  ASSUME Inv, NEW p \in Callers, Cancel(p)
  PROVE  Inv'
<1>1. /\ UNCHANGED <<session, environment>> /\ stage' = stage /\ requests' = requests
  BY DEF Cancel
<1>runs. ASSUME \/ UNCHANGED runnerVars
                \/ \E r \in Runs : StopRun(r)
         PROVE  RunnerInv' /\ \A o \in Runs : run'[o].pc = "idle" <=> run[o].pc = "idle"
  <2>1. CASE UNCHANGED runnerVars
    <3>1. UNCHANGED <<running, waiting, run, closed>>
      BY <2>1 DEF runnerVars
    <3> QED
      BY <3>1, InvFacts DEF RunnerInv, RunnerTypeOK, Holding, SlotsAreHeld, LineInv
  <2>2. CASE \E r \in Runs : StopRun(r)
    BY <2>2, InvFacts, StopKeeps
  <2> QED
    BY <1>runs, <2>1, <2>2
<1>2. ASSUME NEW i \in DOMAIN queue, p \in queue[i].by,
             LET by == IF queue[i].kind = "discover" THEN queue[i].by \ {p} ELSE queue[i].by
                 given == queue[i].kind # "discover" \/ by = {}
             IN queue' = [queue EXCEPT ![i].by = by, ![i].aborted = given],
             caller' = IF queue[i].kind = "discover" THEN [caller EXCEPT ![p] = NoCall] ELSE caller,
             UNCHANGED runnerVars \/ \E r \in Runs : StopRun(r)
      PROVE  Inv'
  <2> DEFINE by == IF queue[i].kind = "discover" THEN queue[i].by \ {p} ELSE queue[i].by
             given == queue[i].kind # "discover" \/ by = {}
             x == [queue[i] EXCEPT !.by = by, !.aborted = given]
  <2>1. /\ DOMAIN queue = 1 .. Len(queue)
        /\ \A j \in DOMAIN queue : queue[j] \in Task /\ queue[j].by \subseteq Callers
    BY InvFacts, QueueFacts
  <2>2. by \in SUBSET Callers /\ by \subseteq queue[i].by
    BY <2>1
  <2>3. given \in BOOLEAN
    OBVIOUS
  <2>4. queue' = [queue EXCEPT ![i] = x]
    <3>1. queue' = [queue EXCEPT ![i].by = by, ![i].aborted = given]
      BY <1>2
    <3> HIDE DEF by, given
    <3>2. queue' = [queue EXCEPT ![i] = [queue[i] EXCEPT !.by = by, !.aborted = given]]
      BY <2>1, <3>1, Zenon DEF Task
    <3> QED
      BY <3>2
  <2>5. /\ x \in Task /\ x.by = by /\ x.kind = queue[i].kind /\ x.open = queue[i].open
        /\ x.what = queue[i].what
    <3> HIDE DEF by, given
    <3>1. queue[i] \in Task
      BY <2>1
    <3> QED
      BY <2>2, <2>3, <3>1 DEF Task
  <2> HIDE DEF x
  <2>6. /\ queue' \in Seq(Task) /\ Len(queue') = Len(queue) /\ queue'[i] = x
        /\ \A j \in 1 .. Len(queue) : j # i => queue'[j] = queue[j]
    BY <2>1, <2>4, <2>5, InvFacts, ExceptSeq
  <2>7. DOMAIN queue' = DOMAIN queue
    BY <2>1, <2>6, LenProperties
  <2>8. /\ caller' \in [Callers -> Caller]
        /\ \A o \in Callers \ {p} : caller'[o] = caller[o]
        /\ caller'[p] = IF queue[i].kind = "discover" THEN NoCall ELSE caller[p]
    BY <1>2, InvFacts, CallerFacts
  <2>9. caller[p].pc = "queued"
    BY <1>2, InvFacts DEF QueueInv
  <2>10. ASSUME NEW j \in DOMAIN queue
         PROVE  /\ queue'[j].by \subseteq queue[j].by /\ queue'[j].kind = queue[j].kind
                /\ queue'[j].open => queue[j].open
                /\ queue'[j].what = queue[j].what
                /\ queue[j].kind = "discover" => queue[j].what \in Requests
                /\ \A o \in queue'[j].by : caller'[o].pc = "queued"
    <3>1. /\ queue'[j].by \subseteq queue[j].by /\ queue'[j].kind = queue[j].kind
          /\ queue'[j].open => queue[j].open
          /\ queue'[j].what = queue[j].what
      BY <2>1, <2>2, <2>5, <2>6
    <3>2. ASSUME NEW o \in queue'[j].by
          PROVE  caller'[o].pc = "queued"
      <4>1. o \in Callers /\ caller[o].pc = "queued"
        BY <2>1, <3>1, <3>2, InvFacts DEF QueueInv
      <4>2. CASE o # p
        BY <2>8, <4>1, <4>2
      <4>3. CASE o = p
        <5>1. j = i
          BY <1>2, <3>1, <3>2, <4>3, InvFacts DEF QueueInv
        <5>2. queue[i].kind # "discover"
          BY <2>1, <2>5, <2>6, <3>2, <4>3, <5>1
        <5> QED
          BY <2>8, <4>1, <4>3, <5>2
      <4> QED
        BY <4>2, <4>3
    <3>3. queue[j].kind = "discover" => queue[j].what \in Requests
      BY InvFacts DEF QueueInv
    <3> QED
      BY <3>1, <3>2, <3>3
  <2>11. QueueInv'
    <3>1. \A j \in DOMAIN queue : queue'[j].kind = "discover" => queue'[j].what \in Requests
      BY <2>10
    <3> QED
      BY <2>7, <2>10, <3>1, InvFacts, TasksKept
  <2>12. RunnerInv' /\ \A o \in Runs : run'[o].pc = "idle" <=> run[o].pc = "idle"
    BY <1>2, <1>runs
  <2>13. \A o \in Callers : caller'[o].pc = "calling" <=> caller[o].pc = "calling"
    BY <2>8, <2>9, CallerFacts
  <2>14. RunsInv'
    <3>1. stage = "asked" => queue'[1].what = queue[1].what
      BY <2>10, InvFacts
    <3> QED
      BY <1>1, <2>6, <2>12, <2>13, <3>1, InvFacts, EmptySeq DEF RunsInv
  <2> QED
    BY <1>1, <2>6, <2>8, <2>11, <2>12, <2>14, InvFacts, SessionKept
<1>3. ASSUME StopRun(p), UNCHANGED <<queue, caller>>
      PROVE  Inv'
  <2>1. RunnerInv' /\ \A o \in Runs : run'[o].pc = "idle" <=> run[o].pc = "idle"
    BY <1>3, <1>runs, InvFacts
  <2>2. QueueInv' /\ RunsInv'
    BY <1>1, <1>3, <2>1, InvFacts DEF QueueInv, RunsInv
  <2> QED
    BY <1>1, <1>3, <2>1, <2>2, InvFacts, SessionKept
<1>4. CASE caller[p].pc = "calling" /\ StopRun(p) /\ UNCHANGED <<queue, caller>>
  BY <1>3, <1>4
<1>5. CASE \E i \in DOMAIN queue :
             /\ p \in queue[i].by /\ ~queue[i].aborted /\ queue[i].kind # "deliver"
             /\ LET by == IF queue[i].kind = "discover" THEN queue[i].by \ {p} ELSE queue[i].by
                    given == queue[i].kind # "discover" \/ by = {}
                IN /\ queue' = [queue EXCEPT ![i].by = by, ![i].aborted = given]
                   /\ IF given /\ i = 1 /\ stage = "asked" /\ Stoppable(Queue)
                      THEN StopRun(Queue)
                      ELSE UNCHANGED runnerVars
                   /\ caller' = IF queue[i].kind = "discover" THEN [caller EXCEPT ![p] = NoCall]
                                ELSE caller
  BY <1>2, <1>5, InvFacts
<1> QED
  BY <1>4, <1>5 DEF Cancel

\* The head of the queue ends without a run.
LEMMA FinishKeeps ==
  ASSUME Inv, queue # <<>>, stage # "asked", Finish,
         UNCHANGED <<runnerVars, session, environment, requests>>
  PROVE  Inv'
<1>1. UNCHANGED <<running, waiting, run, closed, requests>>
  BY DEF runnerVars
<1>2. RunnerInv'
  BY <1>1, InvFacts DEF RunnerInv, RunnerTypeOK, Holding, SlotsAreHeld, LineInv
<1>3. /\ QueueInv' /\ queue' \in Seq(Task) /\ Len(queue') = Len(queue) - 1
      /\ caller' \in [Callers -> Caller] /\ stage' = "queued"
      /\ \A p \in Callers : caller'[p].pc = "calling" <=> caller[p].pc = "calling"
  BY InvFacts, Finished
<1>4. RunsInv'
  BY <1>1, <1>3, InvFacts DEF RunsInv
<1>5. Len(queue') <= MaxQueued
  BY <1>3, InvFacts
<1> QED
  BY <1>1, <1>2, <1>3, <1>4, <1>5, InvFacts, SessionKept

\* The queue asking the CLI for the source descriptors keeps the invariant.
LEMMA AskKeeps ==
  ASSUME Inv, Ask
  PROVE  Inv'
<1>1. /\ queue # <<>> /\ stage = "queued" /\ stage' = "asked" /\ StartRun(Queue)
      /\ UNCHANGED <<session, caller, environment, requests>>
  BY DEF Ask, AtHead
<1>2. run[Queue].pc = "idle"
  BY <1>1, InvFacts DEF RunsInv
<1>3. RunnerInv' /\ run'[Queue].pc # "idle" /\ \A o \in Runs \ {Queue} : run'[o] = run[o]
  BY <1>1, <1>2, InvFacts, StartKeeps
<1>4. /\ queue' \in Seq(Task) /\ Len(queue') = Len(queue) /\ DOMAIN queue' = DOMAIN queue
      /\ \A i \in DOMAIN queue : /\ queue'[i].by = queue[i].by /\ queue'[i].kind = queue[i].kind
                                 /\ queue'[i].open = queue[i].open
                                 /\ queue[i].kind = "discover" => queue'[i].what = queue[i].what
      /\ queue'[1].what \in Requests \cup {{}}
  <2>0. queue[1] = Head(queue) /\ 1 \in DOMAIN queue
    BY <1>1, InvFacts, QueueFacts
  <2>1. CASE Head(queue).kind = "discover" /\ UNCHANGED queue
    BY <2>0, <2>1, InvFacts DEF QueueInv
  <2>2. ASSUME NEW s \in ConnectorSelectors, Head(queue).kind # "discover",
               queue' = [queue EXCEPT ![1].what = pending[s].request]
        PROVE  /\ queue' \in Seq(Task) /\ Len(queue') = Len(queue) /\ DOMAIN queue' = DOMAIN queue
               /\ \A i \in DOMAIN queue : /\ queue'[i].by = queue[i].by /\ queue'[i].kind = queue[i].kind
                                          /\ queue'[i].open = queue[i].open
                                          /\ queue[i].kind = "discover" => queue'[i].what = queue[i].what
               /\ queue'[1].what \in Requests \cup {{}}
    <3> DEFINE x == [queue[1] EXCEPT !.what = pending[s].request]
    <3>1. /\ DOMAIN queue = 1 .. Len(queue) /\ 1 \in 1 .. Len(queue)
          /\ \A j \in DOMAIN queue : queue[j] \in Task
      BY <1>1, InvFacts, QueueFacts
    <3>2. /\ pending[s].request \in SUBSET (Selectors \cup Sources)
          /\ pending[s].request \in Requests \cup {{}}
      <4>1. pending[s] \in Pending
        BY DEF Inv, TypeOK
      <4> QED
        BY <4>1, SelectorsResolve DEF Pending
    <3>3. /\ x \in Task /\ x.by = queue[1].by /\ x.kind = queue[1].kind /\ x.open = queue[1].open
          /\ x.what = pending[s].request
      BY <3>1, <3>2 DEF Task
    <3>4. queue' = [queue EXCEPT ![1] = x]
      BY <2>2, <3>1
    <3> HIDE DEF x
    <3>5. /\ queue' \in Seq(Task) /\ Len(queue') = Len(queue) /\ queue'[1] = x
          /\ \A j \in 1 .. Len(queue) : j # 1 => queue'[j] = queue[j]
      BY <3>1, <3>3, <3>4, InvFacts, ExceptSeq
    <3>6. DOMAIN queue' = DOMAIN queue
      BY <3>1, <3>5, LenProperties
    <3> QED
      BY <2>0, <2>2, <3>1, <3>2, <3>3, <3>5, <3>6
  <2> QED
    BY <2>1, <2>2 DEF Ask, Offered
<1>5. QueueInv'
  BY <1>1, <1>4, InvFacts DEF QueueInv
<1>6. RunsInv'
  BY <1>1, <1>3, <1>4, InvFacts, EmptySeq DEF RunsInv
<1> QED
  BY <1>1, <1>3, <1>4, <1>5, <1>6, InvFacts, SessionKept

\* A question that fails keeps the invariant.
LEMMA AskFailsKeeps ==
  ASSUME Inv, AskFails
  PROVE  Inv'
<1>1. /\ stage = "asked" /\ run[Queue].pc = "failed" /\ run' = [run EXCEPT ![Queue] = NoRun]
      /\ Finish /\ UNCHANGED <<running, waiting, closed, session, environment, requests>>
  BY DEF AskFails
<1>2. queue # <<>>
  BY <1>1, InvFacts DEF RunsInv
<1>3. /\ RunnerInv' /\ run'[Queue].pc = "idle"
      /\ \A o \in Runs \ {Queue} : run'[o].pc = "idle" <=> run[o].pc = "idle"
  BY <1>1, InvFacts, FailureKeeps
<1>4. /\ QueueInv' /\ queue' \in Seq(Task) /\ Len(queue') = Len(queue) - 1
      /\ caller' \in [Callers -> Caller] /\ stage' = "queued"
      /\ \A p \in Callers : caller'[p].pc = "calling" <=> caller[p].pc = "calling"
  BY <1>1, <1>2, InvFacts, Finished
<1>5. RunsInv'
  BY <1>3, <1>4, InvFacts DEF RunsInv
<1>6. Len(queue') <= MaxQueued
  BY <1>4, InvFacts
<1> QED
  BY <1>1, <1>3, <1>4, <1>5, <1>6, InvFacts, SessionKept

\* A tool call whose caller no longer waits, because it failed or was refused.
LEMMA CallEnded ==
  ASSUME Inv, NEW p \in Callers, caller[p].pc = "calling",
         RunnerInv', run'[p].pc = "idle",
         \A o \in Runs \ {p} : run'[o].pc = "idle" <=> run[o].pc = "idle",
         caller' = [caller EXCEPT ![p] = NoCall],
         UNCHANGED <<session, queue, stage, environment, requests>>
  PROVE  Inv'
<1>1. /\ caller' \in [Callers -> Caller] /\ caller'[p].pc = "idle"
      /\ \A o \in Callers \ {p} : caller'[o] = caller[o]
  BY InvFacts, CallerFacts
<1>2. RunsInv'
  BY <1>1, InvFacts DEF RunsInv
<1>3. QueueInv'
  <2>1. \A i \in DOMAIN queue : \A o \in queue[i].by : o \in Callers /\ caller[o].pc = "queued"
    BY InvFacts, QueueFacts DEF QueueInv
  <2>2. \A i \in DOMAIN queue : \A o \in queue[i].by : caller'[o].pc = "queued"
    BY <1>1, <2>1
  <2> QED
    BY <2>2, InvFacts DEF QueueInv
<1> QED
  BY <1>1, <1>2, <1>3, InvFacts, SessionKept

\* A tool call that is answered keeps the invariant.
LEMMA CallAnsweredKeeps ==
  ASSUME Inv, NEW p \in Callers, CallAnswered(p)
  PROVE  Inv'
<1>1. /\ caller[p].pc = "calling" /\ ChildAnswers(p)
      /\ UNCHANGED <<session, stage, environment, requests>>
  BY DEF CallAnswered
<1>2. /\ RunnerInv' /\ run'[p].pc = "idle"
      /\ \A o \in Runs \ {p} : run'[o].pc = "idle" <=> run[o].pc = "idle"
  BY <1>1, InvFacts, AnsweredKeeps
<1>3. CASE UNCHANGED queue /\ caller' = [caller EXCEPT ![p] = NoCall]
  BY <1>1, <1>2, <1>3, CallEnded
<1>4. CASE /\ Len(queue) < MaxQueued /\ queue' = Append(queue, NewTask("deliver", p)) /\ Queued(p)
  <2>1. /\ caller' \in [Callers -> Caller] /\ caller'[p].pc = "queued"
        /\ \A o \in Callers \ {p} : caller'[o] = caller[o]
    BY <1>4, QueuedFacts
  <2> DEFINE task == NewTask("deliver", p)
  <2>2. task \in Task /\ task.by = {p} /\ task.kind = "deliver"
    BY TaskFacts
  <2> HIDE DEF task
  <2>3. queue' = Append(queue, task)
    BY <1>4 DEF task
  <2>4. /\ QueueInv' /\ queue' \in Seq(Task) /\ Len(queue') = Len(queue) + 1
        /\ \A i \in DOMAIN queue : queue'[i].what = queue[i].what
    BY <1>1, <2>1, <2>2, <2>3, InvFacts, TaskAppended
  <2>5. RunsInv'
    <3>1. \A o \in Callers : caller'[o].pc = "calling" <=> run'[o].pc # "idle"
      BY <1>2, <2>1, InvFacts DEF RunsInv
    <3>2. run'[Queue].pc = "idle" <=> run[Queue].pc = "idle"
      BY <1>2, InvFacts
    <3>3. queue' # <<>>
      BY <2>4, InvFacts, EmptySeq
    <3>4. stage = "asked" => queue'[1].what = queue[1].what
      BY <2>4, InvFacts, EmptySeq DEF RunsInv
    <3> QED
      BY <1>1, <3>1, <3>2, <3>3, <3>4, InvFacts DEF RunsInv
  <2> QED
    BY <1>1, <1>2, <1>4, <2>1, <2>4, <2>5, InvFacts, SessionKept
<1> QED
  BY <1>3, <1>4 DEF CallAnswered

\* A tool call that fails keeps the invariant.
LEMMA CallFailsKeeps ==
  ASSUME Inv, NEW p \in Callers, CallFails(p)
  PROVE  Inv'
<1>1. /\ RunnerInv' /\ run'[p].pc = "idle"
      /\ \A o \in Runs \ {p} : run'[o].pc = "idle" <=> run[o].pc = "idle"
  BY InvFacts, FailureKeeps DEF CallFails
<1> QED
  BY <1>1, CallEnded DEF CallFails

\* What happens in the runner alone keeps the invariant.
LEMMA RunnerKeeps ==
  ASSUME Inv, Runner
  PROVE  Inv'
<1>1. UNCHANGED <<session, queue, stage, caller, environment, requests>>
  BY DEF Runner
<1>2. RunnerInv' /\ \A o \in Runs : run'[o].pc = "idle" <=> run[o].pc = "idle"
  BY InvFacts, RunStepKeeps, StopKeeps, CloseKeeps DEF Runner
<1>3. QueueInv' /\ RunsInv'
  BY <1>1, <1>2, InvFacts DEF QueueInv, RunsInv
<1> QED
  BY <1>1, <1>2, <1>3, InvFacts, SessionKept
--------------------------------------------------------------------------------
(* What is published. *)

\* What a step that leaves the queue alone keeps of it.
LEMMA QueueKept ==
  ASSUME Inv, UNCHANGED <<queue, caller>>, RunnerInv', RunsInv', stage' \in {"queued", "asked", "notifying"},
         requests' \in 0 .. MaxRequests, user' \in Users, ready' \subseteq Connections,
         changes' \in 0 .. MaxChanges, identity' \in Users \cup {None},
         bound' \in [ConnectorSelectors -> Connections \cup {None}],
         pending' \in [ConnectorSelectors -> Pending], routes' \in [Sources -> Route],
         published' \subseteq Connections, RoutesInv'
  PROVE  Inv'
<1>1. QueueInv'
  BY InvFacts DEF QueueInv
<1>2. TypeOK'
  BY InvFacts DEF TypeOK, RunnerInv
<1> QED
  BY <1>1, <1>2 DEF Inv

\* The types of the session and of what surrounds it.
LEMMA SessionTypes ==
  ASSUME Inv
  PROVE  /\ user \in Users /\ ready \subseteq Connections /\ identity \in Users \cup {None}
         /\ bound \in [ConnectorSelectors -> Connections \cup {None}]
         /\ pending \in [ConnectorSelectors -> Pending] /\ routes \in [Sources -> Route]
         /\ published \subseteq Connections
         /\ requests \in 0 .. MaxRequests /\ changes \in 0 .. MaxChanges /\ MaxChanges \in Nat
         /\ NotPending \in Pending /\ NoRoute \in Route
         /\ None \notin Users /\ None \notin Connections
BY SessionBounds, NoneIsNobody DEF Inv, TypeOK, NotPending, Pending, NoRoute, Route

\* Another user signing in, or a connection becoming usable or not, keeps the invariant.
LEMMA EnvironmentKeeps ==
  ASSUME Inv, Environment
  PROVE  Inv'
<1>1. /\ UNCHANGED <<session, queue, stage, caller, requests>>
      /\ UNCHANGED <<running, waiting, run, closed>>
      /\ UNCHANGED <<identity, bound, pending, routes, published>>
  BY DEF Environment, runnerVars, session
<1>2. user' \in Users /\ ready' \subseteq Connections /\ changes' \in 0 .. MaxChanges
  BY SessionTypes DEF Environment
<1>3. RunnerInv' /\ RunsInv'
  BY <1>1, InvFacts DEF RunnerInv, RunnerTypeOK, Holding, SlotsAreHeld, LineInv, RunsInv
<1>4. RoutesInv'
  BY <1>1, InvFacts DEF RoutesInv, OneAccountPerConnector
<1> QED
  BY <1>1, <1>2, <1>3, <1>4, InvFacts, SessionTypes, QueueKept

\* A removal that has reached the head of the queue keeps the invariant.
LEMMA RemoveSourcesKeeps ==
  ASSUME Inv, RemoveSources
  PROVE  Inv'
<1>1. /\ UNCHANGED <<runnerVars, identity, published, queue, caller, environment, requests>>
      /\ UNCHANGED <<running, waiting, run, closed, user, ready, changes>>
      /\ bound' = bound /\ stage' = "notifying" /\ stage = "queued" /\ queue # <<>>
  BY DEF RemoveSources, AtHead, runnerVars, environment
<1>2. /\ DOMAIN routes' = Sources /\ routes' \in [Sources -> Route]
      /\ \A s \in Sources : routes'[s] \in {NoRoute, routes[s]}
  BY SessionTypes DEF RemoveSources
<1>3. pending' \in [ConnectorSelectors -> Pending]
  BY SessionTypes DEF RemoveSources
<1>4. RunnerInv' /\ RunsInv'
  BY <1>1, InvFacts DEF RunnerInv, RunnerTypeOK, Holding, SlotsAreHeld, LineInv, RunsInv
<1>5. RoutesInv'
  BY <1>1, <1>2, InvFacts DEF RoutesInv, OneAccountPerConnector
<1> QED
  BY <1>1, <1>2, <1>3, <1>4, <1>5, InvFacts, SessionTypes, QueueKept

\* An account of which the CLI answers is the one its connector has been published with:
\* that one is bound, and a binding stays.
LEMMA PublishKeeps ==
  ASSUME Inv, NEW what \in Requests \cup {{}}, NEW choice, NEW catalog \in Catalogs,
         identity \in {None, user}, Publish(what, choice, catalog)
  PROVE  /\ RoutesInv'
         /\ identity' \in Users \cup {None}
         /\ bound' \in [ConnectorSelectors -> Connections \cup {None}]
         /\ routes' \in [Sources -> Route] /\ published' \subseteq Connections
         /\ pending' \in [ConnectorSelectors -> Pending]
<1>1. PICK lost \in SUBSET Sources :
        LET accounts == {c \in Resolved(what, choice, catalog) : NotRebound(c) /\ KeyOf[c] \notin lost}
            keys == {KeyOf[c] : c \in accounts}
            natives == (what \cap Resources) \ lost
            accountOf(k) == CHOOSE c \in accounts : KeyOf[c] = k
        IN /\ identity' = user
           /\ routes' = [s \in Sources |->
                CASE s \in keys -> [user |-> user, conn |-> accountOf(s)]
                  [] s \in natives -> [user |-> user, conn |-> None]
                  [] OTHER -> routes[s]]
           /\ bound' = [s \in ConnectorSelectors |->
                IF \E c \in accounts : s \in ResolvedBy(what, choice, catalog, c)
                THEN CHOOSE c \in accounts : s \in ResolvedBy(what, choice, catalog, c) ELSE bound[s]]
           /\ pending' = [s \in ConnectorSelectors |->
                CASE s \in what /\ Asks(s, choice, catalog) ->
                       [request |-> what, choices |-> Candidates(s, catalog)]
                  [] \E c \in accounts : s \in ResolvedBy(what, choice, catalog, c) -> NotPending
                  [] OTHER -> pending[s]]
           /\ published' = published \cup accounts
  BY DEF Publish
<1> DEFINE accounts == {c \in Resolved(what, choice, catalog) : NotRebound(c) /\ KeyOf[c] \notin lost}
           keys == {KeyOf[c] : c \in accounts}
           natives == (what \cap Resources) \ lost
           by(c) == ResolvedBy(what, choice, catalog, c)
           accountOf(k) == CHOOSE c \in accounts : KeyOf[c] = k
           boundTo(s) == CHOOSE c \in accounts : s \in by(c)
<1>2. /\ accounts \subseteq Connections /\ natives \subseteq Resources
      /\ \A c \in accounts : /\ NotRebound(c) /\ by(c) # {} /\ by(c) \subseteq ConnectorSelectors
                             /\ KeyOf[c] \in Connectors
                             /\ \A d \in Connections \ {c} : KeyOf[d] = KeyOf[c] => by(d) = {}
  BY SelectorsResolve DEF Resolved, ResolvedBy
<1>3. \A c \in Connections : \A s \in by(c) : bound[s] \in {c, None} /\ Accounts(s, choice, catalog) = {c}
  <2>1. ASSUME NEW c \in Connections, NEW s \in by(c)
        PROVE  bound[s] \in {c, None} /\ Accounts(s, choice, catalog) = {c}
    <3>1. Accounts(s, choice, catalog) = {c}
      BY <2>1 DEF ResolvedBy
    <3>2. bound[s] # None => BoundAccounts(s) = {bound[s]}
      BY DEF BoundAccounts
    <3>3. bound[s] # None => Accounts(s, choice, catalog) \subseteq {bound[s]}
      BY <3>2 DEF Accounts
    <3> QED
      BY <3>1, <3>3
  <2> QED
    BY <2>1
<1>4. /\ identity' = user
      /\ routes' = [s \in Sources |->
           CASE s \in keys -> [user |-> user, conn |-> accountOf(s)]
             [] s \in natives -> [user |-> user, conn |-> None]
             [] OTHER -> routes[s]]
      /\ bound' = [s \in ConnectorSelectors |->
           IF \E c \in accounts : s \in by(c) THEN boundTo(s) ELSE bound[s]]
      /\ published' = published \cup accounts
  BY <1>1
<1>5. \A k \in keys : accountOf(k) \in accounts /\ KeyOf[accountOf(k)] = k
  OBVIOUS
<1>6. \A s \in ConnectorSelectors : (\E c \in accounts : s \in by(c)) =>
        boundTo(s) \in accounts /\ s \in by(boundTo(s))
  OBVIOUS
<1> HIDE DEF accounts, keys, natives, by, accountOf, boundTo
<1>7. \A s \in ConnectorSelectors :
        \/ bound'[s] = bound[s] /\ \A c \in accounts : s \notin by(c)
        \/ bound'[s] \in accounts /\ s \in by(bound'[s])
  BY <1>4, <1>6
<1>8. bound' \in [ConnectorSelectors -> Connections \cup {None}]
  <2>1. \A s \in ConnectorSelectors : bound'[s] \in Connections \cup {None}
    BY <1>2, <1>7, SessionTypes
  <2>2. bound' = [s \in ConnectorSelectors |-> bound'[s]]
    BY <1>4
  <2> QED
    BY <2>1, <2>2
<1>9. ASSUME NEW c \in accounts, NEW d \in published, KeyOf[c] = KeyOf[d]
      PROVE  c = d
  <2>1. PICK s \in ConnectorSelectors : bound[s] = d
    BY InvFacts DEF RoutesInv
  <2>2. d \in Connections /\ d # None
    BY SessionTypes
  <2> QED
    BY <1>2, <1>9, <2>1, <2>2 DEF NotRebound
<1>10. \A c, d \in accounts : KeyOf[c] = KeyOf[d] => c = d
  BY <1>2
<1>11. \A c, d \in published' : KeyOf[c] = KeyOf[d] => c = d
  <2>1. \A c, d \in published : KeyOf[c] = KeyOf[d] => c = d
    BY InvFacts DEF RoutesInv, OneAccountPerConnector
  <2> QED
    BY <1>4, <1>9, <1>10, <2>1
<1>12. \A c \in published' : \E s \in ConnectorSelectors : bound'[s] = c
  <2>1. ASSUME NEW c \in published
        PROVE  \E s \in ConnectorSelectors : bound'[s] = c
    <3>1. PICK s \in ConnectorSelectors : bound[s] = c
      BY InvFacts DEF RoutesInv
    <3>2. c # None
      BY SessionTypes
    <3>3. \A d \in accounts : s \in by(d) => d = c
      BY <1>2, <1>3, <3>1, <3>2
    <3>4. bound'[s] = c
      BY <1>7, <3>1, <3>3
    <3> QED
      BY <3>4
  <2>2. ASSUME NEW c \in accounts
        PROVE  \E s \in ConnectorSelectors : bound'[s] = c
    <3>1. PICK s \in ConnectorSelectors : s \in by(c)
      BY <1>2
    <3>2. \A d \in accounts : s \in by(d) => d = c
      BY <1>2, <1>3, <3>1
    <3>3. bound'[s] = c
      BY <1>7, <3>1, <3>2
    <3> QED
      BY <3>3
  <2> QED
    BY <1>4, <2>1, <2>2
<1>13. ASSUME NEW s \in Sources
       PROVE  /\ routes'[s] \in Route
              /\ routes'[s] # NoRoute =>
                   /\ routes'[s].user = identity' /\ routes'[s].user \in Users
                   /\ s \in Connectors => routes'[s].conn \in published' /\ KeyOf[routes'[s].conn] = s
  <2>1. user \in Users
    BY SessionTypes
  <2>2. CASE s \in keys
    <3>0. s \notin natives
      <4>1. s \in Connectors
        BY <1>2, <2>2 DEF keys
      <4> QED
        BY <1>2, <4>1, SelectorsResolve
    <3>1. routes'[s] = [user |-> user, conn |-> accountOf(s)]
      BY <1>4, <2>2, <3>0
    <3>2. accountOf(s) \in accounts /\ KeyOf[accountOf(s)] = s /\ accountOf(s) \in Connections
      BY <1>2, <1>5, <2>2
    <3> QED
      BY <1>4, <2>1, <3>1, <3>2 DEF Route
  <2>3. CASE s \notin keys /\ s \in natives
    <3>1. routes'[s] = [user |-> user, conn |-> None]
      BY <1>4, <2>3
    <3>2. s \notin Connectors
      BY <1>2, <2>3, SelectorsResolve
    <3> QED
      BY <1>4, <2>1, <3>1, <3>2 DEF Route
  <2>4. CASE s \notin keys /\ s \notin natives
    <3>1. routes'[s] = routes[s] /\ routes[s] \in Route
      BY <1>4, <2>4, SessionTypes
    <3>2. routes[s] # NoRoute =>
            /\ routes[s].user = identity /\ routes[s].user \in Users
            /\ s \in Connectors => routes[s].conn \in published /\ KeyOf[routes[s].conn] = s
      BY InvFacts DEF RoutesInv, OneAccountPerConnector
    <3>3. routes[s] # NoRoute => identity = user
      BY <3>2, SessionTypes
    <3> QED
      BY <1>4, <3>1, <3>2, <3>3
  <2> QED
    BY <2>2, <2>3, <2>4
<1>14. routes' \in [Sources -> Route]
  <2>1. routes' = [s \in Sources |-> routes'[s]]
    BY <1>4
  <2> QED
    BY <1>13, <2>1
<1>15. pending' \in [ConnectorSelectors -> Pending]
  <2>1. pending' = [s \in ConnectorSelectors |->
          CASE s \in what /\ Asks(s, choice, catalog) ->
                 [request |-> what, choices |-> Candidates(s, catalog)]
            [] \E c \in accounts : s \in by(c) -> NotPending
            [] OTHER -> pending[s]]
    BY <1>1 DEF accounts, by
  <2>2. ASSUME NEW s \in ConnectorSelectors
        PROVE  pending'[s] \in Pending
    <3>1. [request |-> what, choices |-> Candidates(s, catalog)] \in Pending
      <4>1. catalog.accounts \subseteq Connections
        BY SessionTypes DEF Catalogs
      <4> QED
        BY <4>1 DEF Pending, Candidates
    <3>2. s \in what /\ Asks(s, choice, catalog) => \A c \in accounts : s \notin by(c)
      <4>1. ASSUME NEW c \in accounts, s \in by(c), Asks(s, choice, catalog)
            PROVE  FALSE
        <5>1. Accounts(s, choice, catalog) = {c}
          BY <1>2, <1>3, <4>1
        <5>2. Accounts(s, choice, catalog) =
                IF catalog.full THEN {} ELSE Candidates(s, catalog)
          BY <4>1 DEF Asks, Accounts
        <5>3. ~catalog.full /\ Candidates(s, catalog) = {c}
          BY <5>1, <5>2
        <5> QED
          BY <4>1, <5>3, FS_Singleton DEF Asks
      <4> QED
        BY <4>1
    <3>3. pending'[s] \in {[request |-> what, choices |-> Candidates(s, catalog)], NotPending, pending[s]}
      BY <2>1, <3>2
    <3> QED
      BY <3>1, <3>3, SessionTypes
  <2>3. pending' = [s \in ConnectorSelectors |-> pending'[s]]
    BY <2>1
  <2> QED
    BY <2>2, <2>3
<1>16. RoutesInv'
  BY <1>11, <1>12, <1>13 DEF RoutesInv, OneAccountPerConnector
<1> QED
  BY <1>2, <1>4, <1>8, <1>14, <1>15, <1>16, SessionTypes
\* An answered discovery keeps the invariant.
LEMMA DiscoveredKeeps ==
  ASSUME Inv, Discovered
  PROVE  Inv'
<1>1. /\ stage = "asked" /\ stage' = "notifying" /\ ChildAnswers(Queue)
      /\ UNCHANGED <<queue, caller, requests, user, ready, changes>>
  BY DEF Discovered, environment
<1>2. /\ RunnerInv' /\ run'[Queue].pc = "idle"
      /\ \A o \in Runs \ {Queue} : run'[o].pc = "idle" <=> run[o].pc = "idle"
  BY <1>1, InvFacts, AnsweredKeeps
<1>3. RunsInv'
  BY <1>1, <1>2, InvFacts DEF RunsInv
<1>4. CASE identity \notin {None, user} /\ Reset
  <2>1. /\ identity' = None /\ bound' \in [ConnectorSelectors -> Connections \cup {None}]
        /\ pending' \in [ConnectorSelectors -> Pending] /\ routes' \in [Sources -> Route]
        /\ published' = {} /\ \A s \in Sources : routes'[s] = NoRoute
    BY <1>4, SessionTypes DEF Reset
  <2>2. RoutesInv'
    BY <2>1 DEF RoutesInv, OneAccountPerConnector
  <2> QED
    BY <1>1, <1>2, <1>3, <2>1, <2>2, InvFacts, SessionTypes, QueueKept
<1>5. ASSUME NEW choice, NEW what \in Requests \cup {{}}, NEW catalog \in Catalogs,
              identity \in {None, user}, Publish(what, choice, catalog)
      PROVE  Inv'
  <2>1. /\ RoutesInv' /\ identity' \in Users \cup {None}
        /\ bound' \in [ConnectorSelectors -> Connections \cup {None}]
        /\ routes' \in [Sources -> Route] /\ published' \subseteq Connections
        /\ pending' \in [ConnectorSelectors -> Pending]
    BY <1>5, PublishKeeps
  <2> QED
    BY <1>1, <1>2, <1>3, <2>1, InvFacts, SessionTypes, QueueKept
<1>6. Head(queue).what \in Requests \cup {{}}
  <2>1. Head(queue) = queue[1] /\ queue # <<>>
    BY <1>1, InvFacts, HeadTailProperties DEF RunsInv
  <2> QED
    BY <1>1, <2>1, InvFacts DEF RunsInv
<1> QED
  BY <1>4, <1>5, <1>6 DEF Discovered

\* Every step keeps the invariant.
LEMMA NextKeeps ==
  ASSUME Inv, [Next]_vars
  PROVE  Inv'
<1>1. CASE \E p \in Callers :
             \/ \E what \in Requests : Discover(p, what)
             \/ \E s \in Sources : DiscoverRemove(p, {s}) \/ CallTool(p, s)
             \/ \E c \in Connections : Select(p, c)
             \/ Cancel(p) \/ CallAnswered(p) \/ CallFails(p)
  BY <1>1, DiscoverKeeps, RequestsKeep, CallToolKeeps, CancelKeeps, CallAnsweredKeeps, CallFailsKeeps
<1>2. CASE Refuse \/ Notified \/ Deliver
  <2>1. queue # <<>> /\ stage # "asked"
    BY <1>2, InvFacts DEF Refuse, Notified, Deliver, AtHead, RunsInv
  <2> QED
    BY <1>2, <2>1, FinishKeeps DEF Refuse, Notified, Deliver
<1>3. CASE Ask
  BY <1>3, AskKeeps
<1>4. CASE AskFails
  BY <1>4, AskFailsKeeps
<1>5. CASE Discovered
  BY <1>5, DiscoveredKeeps
<1>6. CASE RemoveSources
  BY <1>6, RemoveSourcesKeeps
<1>7. CASE Environment
  BY <1>7, EnvironmentKeeps
<1>8. CASE Runner
  BY <1>8, RunnerKeeps
<1>9. CASE UNCHANGED vars
  <2>1. /\ UNCHANGED <<session, environment, running, waiting, run, closed, queue, stage, caller>>
        /\ requests' = requests
    BY <1>9 DEF vars, session, environment, runnerVars
  <2>2. RunnerInv' /\ RunsInv' /\ QueueInv'
    BY <2>1, InvFacts DEF RunnerInv, RunnerTypeOK, Holding, SlotsAreHeld, LineInv, RunsInv, QueueInv
  <2> QED
    BY <2>1, <2>2, InvFacts, SessionKept
<1> QED
  BY <1>1, <1>2, <1>3, <1>4, <1>5, <1>6, <1>7, <1>8, <1>9 DEF Next

\* The invariant holds at first.
LEMMA InitHolds == Init => Inv
<1> SUFFICES ASSUME Init
             PROVE  Inv
  OBVIOUS
<1>1. /\ running = 0 /\ waiting = <<>> /\ run = [r \in Runs |-> NoRun] /\ closed = FALSE
      /\ queue = <<>> /\ stage = "queued" /\ published = {}
      /\ caller = [p \in Callers |-> NoCall] /\ routes = [s \in Sources |-> NoRoute]
  BY DEF Init, RunnerInit
<1>2. Holding = {}
  BY <1>1, RunFacts DEF Holding
<1>3. <<>> \in Seq(Runs) /\ <<>> \in Seq(Task) /\ Len(<<>>) = 0 /\ DOMAIN <<>> = {}
  BY EmptySeq
<1>4. RunnerTypeOK
  <2>1. run \in [Runs -> Run]
    BY <1>1, RunFacts
  <2>2. 0 \in 0 .. MaxRunning
    BY RunnerBounds
  <2> QED
    BY <1>1, <1>3, <2>1, <2>2 DEF RunnerTypeOK
<1>5. SlotsAreHeld
  <2>1. Cardinality({r \in Runs : run[r].pc \in {"granted", "child"}}) = 0
    BY <1>2, FS_EmptySet DEF Holding, Holds
  <2>2. 0 <= MaxRunning
    BY RunnerBounds
  <2> QED
    BY <1>1, <2>1, <2>2 DEF SlotsAreHeld
<1>6. LineInv
  BY <1>1, <1>3, RunFacts DEF LineInv
<1>7. RunnerInv
  BY <1>2, <1>4, <1>5, <1>6, FS_EmptySet DEF RunnerInv
<1>8. TypeOK
  BY <1>1, <1>3, <1>4, CallerFacts, SessionBounds
     DEF Init, TypeOK, NotPending, Pending, NoRoute, Route
<1>9. RunsInv
  BY <1>1, CallerFacts, RunFacts, RunsAreOfTheSession DEF RunsInv
<1>10. QueueInv
  BY <1>1, <1>3 DEF QueueInv
<1>11. RoutesInv
  BY <1>1 DEF RoutesInv, OneAccountPerConnector
<1> QED
  BY <1>7, <1>8, <1>9, <1>10, <1>11 DEF Inv

\* The invariant holds in every behaviour.
LEMMA Invariant == Spec => []Inv
BY InitHolds, NextKeeps, PTL DEF Spec
--------------------------------------------------------------------------------
(* The theorems. *)

\* The session and its runner stay within their types and bounds.
THEOREM TypeCorrect == Spec => []TypeOK
<1>1. Inv => TypeOK
  BY DEF Inv
<1> QED
  BY <1>1, Invariant, PTL

\* The counter of the runner is the number of runs that have a slot, whatever is aborted,
\* cancelled or shut down, and a slot is never free while a run waits for one.
THEOREM SlotsHeld == Spec => []SlotsAreHeld
<1>1. Inv => SlotsAreHeld
  BY DEF Inv, RunnerInv
<1> QED
  BY <1>1, Invariant, PTL

\* However discoveries, choices and removals follow one another, and whichever accounts
\* become usable, a connector keeps its account for as long as the identity stays.
THEOREM AccountsStay == Spec => []OneAccountPerConnector
<1>1. Inv => OneAccountPerConnector
  BY DEF Inv, RoutesInv
<1> QED
  BY <1>1, Invariant, PTL


\* Only a discovery that is still open can be joined, and a removal or a choice closes
\* every one ahead of it.
LEMMA JoinedInOrder ==
  ASSUME Inv, [Next]_vars, NEW p \in Callers, NEW i \in DOMAIN queue',
         caller[p].pc = "idle", p \in queue'[i].by
  PROVE  \A j \in DOMAIN queue' : j > i => queue'[j].kind \notin {"remove", "select"}
<1>1. /\ DOMAIN queue = 1 .. Len(queue) /\ Len(queue) \in Nat
      /\ \A k \in DOMAIN queue : p \notin queue[k].by
  BY InvFacts, QueueFacts DEF QueueInv
<1>2. QueueInv' /\ queue' \in Seq(Task)
  BY NextKeeps DEF Inv, TypeOK
<1>3. DOMAIN queue' = 1 .. Len(queue') /\ Len(queue') \in Nat
  BY <1>2, LenProperties
<1>last. CASE i = Len(queue')
  BY <1>3, <1>last
<1>open. CASE queue'[i].open
  BY <1>2, <1>3, <1>open DEF QueueInv
<1>enqueue. ASSUME NEW o, NEW task \in Task, Enqueue(o, task)
            PROVE  i = Len(queue')
  <2>1. /\ Unshared \in Seq(Task) /\ Len(Unshared) = Len(queue) /\ DOMAIN Unshared = DOMAIN queue
        /\ \A k \in DOMAIN queue : Unshared[k].by = queue[k].by
    BY InvFacts, UnsharedFacts
  <2>2. queue' # Unshared
    BY <1>1, <2>1
  <2>3. queue' = Append(Unshared, task)
    BY <1>enqueue, <2>2 DEF Enqueue
  <2>4. Len(queue') = Len(queue) + 1 /\ \A k \in 1 .. Len(queue) : queue'[k] = Unshared[k]
    BY <2>1, <2>3, AppendProperties
  <2>5. i \notin 1 .. Len(queue)
    BY <1>1, <2>1, <2>4
  <2> QED
    BY <1>1, <1>3, <2>4, <2>5
<1>4. ASSUME NEW o \in Callers, NEW what \in Requests, Discover(o, what)
      PROVE  i = Len(queue') \/ queue'[i].open
  <2>1. queue' # queue
    BY <1>1
  <2>2. ASSUME NEW k \in Joinable(what), queue' = [queue EXCEPT ![k].by = @ \cup {o}]
        PROVE  queue'[i].open
    <3>1. k \in DOMAIN queue /\ queue[k].open /\ DOMAIN queue' = DOMAIN queue
      BY <2>2 DEF Joinable
    <3>2. i = k
      BY <1>1, <2>2, <3>1
    <3>3. queue[k] \in Task
      BY <3>1, InvFacts, QueueFacts
    <3>4. queue'[k] = [queue[k] EXCEPT !.by = queue[k].by \cup {o}]
      BY <2>2, <3>1
    <3>5. queue'[k].open = queue[k].open
      BY <3>3, <3>4 DEF Task
    <3> QED
      BY <3>1, <3>2, <3>5
  <2>3. ASSUME Enqueue(o, [NewTask("discover", o) EXCEPT !.what = what, !.open = TRUE])
        PROVE  i = Len(queue')
    <3> DEFINE task == [NewTask("discover", o) EXCEPT !.what = what, !.open = TRUE]
    <3>1. what \in SUBSET (Selectors \cup Sources)
      BY SelectorsResolve
    <3>2. task \in Task
      BY <3>1 DEF NewTask, Task
    <3> QED
      BY <1>enqueue, <2>3, <3>2
  <2> QED
    BY <1>4, <2>1, <2>2, <2>3 DEF Discover
<1>5. ASSUME NEW o \in Callers, NEW s \in Sources, DiscoverRemove(o, {s})
      PROVE  i = Len(queue')
  <2>1. [NewTask("remove", o) EXCEPT !.what = {s}] \in Task
    BY DEF NewTask, Task
  <2> QED
    BY <1>5, <1>enqueue, <2>1 DEF DiscoverRemove, EnqueueRemoval
<1>6. ASSUME NEW o \in Callers, NEW c \in Connections, Select(o, c)
      PROVE  i = Len(queue')
  <2>1. [NewTask("select", o) EXCEPT !.choice = c] \in Task
    BY DEF NewTask, Task
  <2> QED
    BY <1>6, <1>enqueue, <2>1 DEF Select
\* The other steps bring nobody into a task who was idle.
<1>same. ASSUME DOMAIN queue' = DOMAIN queue,
                \A k \in DOMAIN queue : queue'[k].by \subseteq queue[k].by
         PROVE  FALSE
  BY <1>1, <1>same
<1>7. ASSUME NEW o \in Callers, Cancel(o)
      PROVE  FALSE
  <2>1. CASE UNCHANGED queue
    BY <1>same, <2>1
  <2>2. ASSUME NEW k \in DOMAIN queue,
               LET by == IF queue[k].kind = "discover" THEN queue[k].by \ {o} ELSE queue[k].by
                   given == queue[k].kind # "discover" \/ by = {}
               IN queue' = [queue EXCEPT ![k].by = by, ![k].aborted = given]
        PROVE  FALSE
    <3> DEFINE by == IF queue[k].kind = "discover" THEN queue[k].by \ {o} ELSE queue[k].by
               given == queue[k].kind # "discover" \/ by = {}
    <3>1. queue' = [queue EXCEPT ![k].by = by, ![k].aborted = given]
      BY <2>2
    <3>2. by \subseteq queue[k].by
      OBVIOUS
    <3>3. queue[k] \in Task
      BY InvFacts, QueueFacts
    <3> HIDE DEF by, given
    <3>4. /\ DOMAIN queue' = DOMAIN queue
          /\ queue'[k] = [queue[k] EXCEPT !.by = by, !.aborted = given]
          /\ \A l \in (DOMAIN queue) \ {k} : queue'[l] = queue[l]
      BY <3>1, Zenon
    <3>5. queue'[k].by = by
      BY <3>3, <3>4, Zenon DEF Task
    <3> QED
      BY <1>same, <3>2, <3>4, <3>5
  <2> QED
    BY <1>7, <2>1, <2>2 DEF Cancel
<1>8. ASSUME NEW o \in Callers, CallAnswered(o)
      PROVE  FALSE
  <2>1. CASE UNCHANGED queue
    BY <1>same, <2>1
  <2>2. CASE queue' = Append(queue, NewTask("deliver", o))
    <3>1. NewTask("deliver", o) \in Task /\ NewTask("deliver", o).by = {o}
      BY TaskFacts
    <3>2. /\ Len(queue') = Len(queue) + 1 /\ queue'[Len(queue) + 1] = NewTask("deliver", o)
          /\ \A k \in 1 .. Len(queue) : queue'[k] = queue[k]
      BY <2>2, <3>1, InvFacts, AppendProperties
    <3>3. i = Len(queue) + 1
      BY <1>1, <1>3, <3>2
    <3>4. p = o
      BY <3>1, <3>2, <3>3
    <3> QED
      BY <1>8, <3>4 DEF CallAnswered
  <2> QED
    BY <1>8, <2>1, <2>2 DEF CallAnswered
<1>9. ASSUME queue # <<>>, Finish
      PROVE  FALSE
  <2>1. Len(queue') = Len(queue) - 1 /\ \A k \in 1 .. Len(queue) - 1 : queue'[k] = queue[k + 1]
    BY <1>9, InvFacts, HeadTailProperties DEF Finish
  <2>2. i + 1 \in DOMAIN queue /\ queue'[i] = queue[i + 1]
    BY <1>1, <1>3, <2>1
  <2> QED
    BY <1>1, <2>2
<1>10. ASSUME Ask
       PROVE  FALSE
  <2>1. CASE UNCHANGED queue
    BY <1>same, <2>1
  <2>2. ASSUME NEW s, queue' = [queue EXCEPT ![1].what = pending[s].request]
        PROVE  FALSE
    <3>1. /\ DOMAIN queue' = DOMAIN queue
          /\ \A k \in DOMAIN queue : queue[k] \in Task
      BY <2>2, InvFacts, QueueFacts
    <3>2. \A k \in DOMAIN queue : queue'[k].by = queue[k].by
      BY <2>2, <3>1 DEF Task
    <3> QED
      BY <1>same, <3>1, <3>2
  <2> QED
    BY <1>10, <2>1, <2>2 DEF Ask
<1>11. CASE \/ Refuse \/ Notified \/ Deliver \/ AskFails
  <2>1. Finish
    BY <1>11 DEF Refuse, Notified, Deliver, AskFails
  <2>2. queue # <<>>
    BY <1>11, InvFacts DEF Refuse, Notified, Deliver, AskFails, AtHead, RunsInv
  <2> QED
    BY <1>9, <2>1, <2>2
<1>12. CASE \/ \E o \in Callers : CallFails(o) \/ \E s \in Sources : CallTool(o, s)
            \/ Discovered \/ RemoveSources \/ Environment \/ Runner \/ UNCHANGED vars
  <2>1. queue' = queue
    BY <1>12 DEF CallFails, CallTool, Discovered, RemoveSources, Environment, Runner, vars
  <2> QED
    BY <1>same, <2>1
<1> QED
  BY <1>last, <1>open, <1>4, <1>5, <1>6, <1>7, <1>8, <1>10, <1>11, <1>12 DEF Next

\* A discovery is never answered by one that was queued ahead of a removal or a choice
\* sent before it.
THEOREM InOrder == Spec => AnsweredInOrder
<1>1. Inv /\ [Next]_vars
        => [\A p \in Callers, i \in DOMAIN queue' :
              caller[p].pc = "idle" /\ p \in queue'[i].by
                => \A j \in DOMAIN queue' : j > i => queue'[j].kind \notin {"remove", "select"}]_vars
  BY JoinedInOrder
<1> QED
  BY <1>1, Invariant, PTL DEF Spec, AnsweredInOrder
================================================================================
