------------------------------- MODULE CliRunner -------------------------------
(***************************************************************************)
(* The runner of CLI processes in the Goose extension: WeldallCli of       *)
(* goose-extension/src/cli.ts.  At most MaxRunning processes run, further  *)
(* runs wait for a slot in order, and a freed slot goes to the oldest of   *)
(* them.  A run may be aborted or pass its deadline anywhere.              *)
(***************************************************************************)
EXTENDS Naturals, Sequences, FiniteSets, SequencesExt

CONSTANTS
  Runs,         \* calls of run, each in use for one call at a time
  MaxRunning,   \* 4 in the code
  MaxWaiting,   \* 16 in the code
  MaxRetries    \* 3 in the code: pauses after an unreadable keychain

ASSUME RunnerBounds == MaxRunning \in Nat \ {0} /\ MaxWaiting \in Nat /\ MaxRetries \in Nat

VARIABLES
  running,   \* the counter of slots in use
  waiting,   \* the runs that wait for a slot, the oldest first
  run,       \* the calls of run
  closed     \* the extension shuts down

runnerVars == <<running, waiting, run, closed>>

\* stopped: its signal is aborted or its deadline has passed.
Run == [pc : {"idle", "waiting", "granted", "child", "paused", "failed"},
        stopped : BOOLEAN, retries : 0..MaxRetries]
NoRun == [pc |-> "idle", stopped |-> FALSE, retries |-> 0]

RunnerTypeOK ==
  /\ running \in 0..MaxRunning
  /\ waiting \in Seq(Runs)
  /\ run \in [Runs -> Run]
  /\ closed \in BOOLEAN

RunnerInit ==
  /\ running = 0
  /\ waiting = <<>>
  /\ run = [r \in Runs |-> NoRun]
  /\ closed = FALSE
--------------------------------------------------------------------------------
\* runOnce up to its first await: a process, a place in the line, or neither.  The
\* record of the run is now.
Launch(r, now) ==
  LET to(pc) == run' = [run EXCEPT ![r] = [now EXCEPT !.pc = pc]]
  IN \/ /\ closed \/ now.stopped
        /\ to("failed") /\ UNCHANGED <<running, waiting>>
     \/ /\ ~closed /\ ~now.stopped /\ running < MaxRunning
        /\ to("child") /\ running' = running + 1 /\ UNCHANGED waiting
     \/ /\ ~closed /\ ~now.stopped /\ running >= MaxRunning /\ Len(waiting) < MaxWaiting
        /\ to("waiting") /\ waiting' = Append(waiting, r) /\ UNCHANGED running
     \/ /\ ~closed /\ ~now.stopped /\ running >= MaxRunning /\ Len(waiting) >= MaxWaiting
        /\ to("failed") /\ UNCHANGED <<running, waiting>>

\* A call of run with a signal that is not aborted.
StartRun(r) == Launch(r, NoRun) /\ UNCHANGED closed

\* release, while run r goes on as next: the slot is handed over or given back.
Release(r, next) ==
  IF waiting = <<>>
  THEN /\ running' = running - 1
       /\ run' = [run EXCEPT ![r] = next]
       /\ UNCHANGED waiting
  ELSE /\ waiting' = Tail(waiting)
       /\ run' = [run EXCEPT ![r] = next, ![Head(waiting)].pc = "granted"]
       /\ UNCHANGED running

Failed(r) == [run[r] EXCEPT !.pc = "failed"]

\* Faulty variant: a run that was handed a slot and stops keeps it.
SlotKept(r) == run' = [run EXCEPT ![r] = Failed(r)] /\ UNCHANGED <<running, waiting>>
SlotUnused(r) == Release(r, Failed(r))

\* waitForSlot has resolved: the process is started, unless it is too late.
Granted(r) ==
  /\ run[r].pc = "granted"
  /\ IF closed \/ run[r].stopped
     THEN SlotUnused(r)
     ELSE run' = [run EXCEPT ![r].pc = "child"] /\ UNCHANGED <<running, waiting>>
  /\ UNCHANGED closed

\* The signal of a run aborts or its deadline passes.  One that waits or pauses fails
\* at once, and a process is killed, which its close event reports later.
Stoppable(r) == run[r].pc \in {"waiting", "granted", "child", "paused"} /\ ~run[r].stopped
Place(r) == CHOOSE i \in DOMAIN waiting : waiting[i] = r
StopRun(r) ==
  /\ Stoppable(r)
  /\ run' = [run EXCEPT ![r].stopped = TRUE,
                        ![r].pc = IF @ \in {"waiting", "paused"} THEN "failed" ELSE @]
  /\ waiting' = IF run[r].pc = "waiting" THEN RemoveAt(waiting, Place(r)) ELSE waiting
  /\ UNCHANGED <<running, closed>>

\* The process has closed: without an answer, or because it could not read the
\* keychain, after which the run pauses and tries again.
ChildFails(r) ==
  /\ run[r].pc = "child"
  /\ \/ Release(r, Failed(r))
     \/ /\ ~run[r].stopped
        /\ run[r].retries < MaxRetries
        /\ Release(r, [run[r] EXCEPT !.pc = "paused", !.retries = @ + 1])
  /\ UNCHANGED closed

\* It has closed with its answer, which the caller of run takes in the same turn.
ChildAnswers(r) ==
  /\ run[r].pc = "child"
  /\ ~run[r].stopped
  /\ Release(r, NoRun)
  /\ UNCHANGED closed

Retry(r) ==
  /\ run[r].pc = "paused"
  /\ Launch(r, run[r])
  /\ UNCHANGED closed

\* close: whatever waits fails, and every process is killed.
Close ==
  /\ ~closed
  /\ closed' = TRUE
  /\ waiting' = <<>>
  /\ run' = [r \in Runs |-> CASE run[r].pc = "waiting" -> Failed(r)
                              [] run[r].pc = "child" -> [run[r] EXCEPT !.stopped = TRUE]
                              [] OTHER -> run[r]]
  /\ UNCHANGED running

RunStep(r) == Granted(r) \/ ChildFails(r) \/ Retry(r)
--------------------------------------------------------------------------------
\* The counter of slots is the number of runs that have one, a process about to start
\* included, within the limit; and nobody waits while a slot is free, whatever was
\* aborted between the hand-over of a slot and the start of its process.
SlotsAreHeld ==
  /\ running = Cardinality({r \in Runs : run[r].pc \in {"granted", "child"}})
  /\ running <= MaxRunning
  /\ waiting # <<>> => running = MaxRunning
================================================================================
