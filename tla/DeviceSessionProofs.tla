-------------------------- MODULE DeviceSessionProofs --------------------------
(***************************************************************************)
(* Theorems about DeviceSession and RefreshFamilies, for any sets of       *)
(* processes and tokens and any bounds.                                    *)
(***************************************************************************)
EXTENDS DeviceSession, TLAPS

\* Phases with the lock, phases with new tokens in hand, phases that wait for an answer.
Locked == {"locked", "refreshing", "store", "validate", "loggingIn", "replace", "insert",
           "revoking", "clear", "naming", "nameStore"}
InHand == {"store", "replace", "insert"}
Waits == {"refreshing", "loggingIn", "revoking", "exchanging"}

\* A token is new to everybody but the request or the process that got it, or known.
Holds(p, n) ==
  \/ req[p].issued = n
  \/ proc[p].pc \in InHand /\ proc[p].copy.token = n
Knows(q, n) ==
  \/ req[q].token = n
  \/ proc[q].pc \notin InHand /\ proc[q].copy.token = n
Known(n) == item.token = n \/ \E q \in Clients : Knows(q, n)

\* A new token is held once, and was never presented.
NewTokens ==
  /\ \A p \in Clients, n \in Tokens :
       Holds(p, n) =>
         /\ provider[n].issued /\ ~provider[n].rotated /\ ~Known(n)
         /\ \A q \in Clients : Holds(q, n) => q = p
  /\ \A n \in Tokens : Known(n) \/ binding[n].family # None => provider[n].issued

\* What a process has in each phase; what it holds the lock for is still so.
Client(p) ==
  /\ proc[p].pc \in Locked => lock = p
  /\ proc[p].pc \notin Waits \cup {"idle", "clear"} => req[p].pc = "idle"
  /\ proc[p].pc \in Waits => req[p].pc # "idle"
  /\ proc[p].pc = "refreshing" =>
       req[p].kind = "refresh" /\ req[p].token = item.token /\ item.token # None
  /\ proc[p].pc = "loggingIn" => req[p].kind = "login"
  /\ proc[p].pc \in {"loggingIn", "replace", "insert"} => proc[p].cmd = "login"
  /\ proc[p].pc \in InHand \cup {"validate", "exchange"} => proc[p].copy.token # None
  /\ proc[p].pc = "store" => item.token # None
  /\ proc[p].pc \in {"validate", "nameStore"} => proc[p].copy.token = item.token

\* What a request has found and got in each phase.
Serving(p) ==
  /\ req[p].pc = "idle" => req[p] = NoRequest
  /\ req[p].kind = "login" <=> req[p].token = None
  /\ req[p].kind = "login" => req[p].pc \in {"idle", "provider", "check", "bind", "answered"}
  /\ req[p].seen.family # None =>
       req[p].token # None /\ binding[req[p].token].family = req[p].seen.family
  /\ req[p].kind # "login" /\ req[p].pc \notin {"idle", "lookup", "answered"} =>
       req[p].seen.family # None
  /\ req[p].pc \in {"lookup", "provider"} \/ req[p].kind \notin {"login", "refresh"} =>
       req[p].issued = None
  /\ req[p].pc \in {"check", "bind"} =>
       /\ req[p].issued # None /\ binding[req[p].issued] = Unbound
       /\ req[p].kind = "refresh" =>
            ~binding[req[p].token].rotated /\ provider[req[p].token].rotated
  /\ req[p].pc = "familyCheck" => req[p].kind = "refresh" /\ req[p].issued # None
  /\ req[p].pc = "answered" /\ req[p].ok /\ req[p].kind \in {"login", "refresh"} =>
       req[p].issued # None

\* A family is a chain: all its tokens but the last are rotated.
Chains ==
  /\ \A t, u \in Tokens :
       /\ binding[t].family # None /\ binding[t].family = binding[u].family
       /\ ~binding[t].rotated /\ ~binding[u].rotated
       => t = u
  /\ \A t \in Tokens :
       /\ binding[t].family # None => binding[binding[t].family].family = binding[t].family
       /\ binding[t].family = None => binding[t] = Unbound
       /\ binding[t].rotated => provider[t].rotated
  /\ \A p, q \in Clients :
       /\ req[p].pc \in {"check", "bind"} /\ req[q].pc \in {"check", "bind"}
       /\ req[p].kind = "refresh" /\ req[p].token = req[q].token
       => p = q

\* Where a family is revoked in part, a request is about to look at it again.
Revocations ==
  failures = MaxFailures =>
    \A t, u \in Tokens :
      binding[t].family # None /\ binding[t].family = binding[u].family
      /\ binding[t].revoked /\ ~binding[u].revoked
      => \E p \in Clients : /\ req[p].pc \in {"familyCheck", "familyRevoke"}
                            /\ req[p].seen.family = binding[t].family

\* Unless something is lost, the stored token is spent only until its successor is stored.
Bound(p) ==
  /\ req[p].issued # None
  /\ \/ req[p].pc \in {"familyCheck", "familyRevoke"}
     \/ req[p].pc = "answered" /\ req[p].ok
Replaces(p) == proc[p].pc = "store" \/ (proc[p].pc = "refreshing" /\ Bound(p))
Lossless ==
  losses = MaxLosses /\ failures = MaxFailures =>
    /\ \A p \in Clients :
         req[p].kind = "refresh" => proc[p].pc = "refreshing" /\ ~req[p].seen.rotated
    /\ item.token # None /\ binding[item.token].rotated => \E p \in Clients : Replaces(p)

Inv ==
  /\ TypeOK
  /\ \A p \in Clients : Client(p) /\ Serving(p)
  /\ NewTokens /\ Chains /\ Revocations /\ Lossless
--------------------------------------------------------------------------------
(* What the steps write *)

ProcTo(p, pc, cmd, copy) ==
  /\ proc' \in [Clients -> Proc]
  /\ proc'[p].pc = pc /\ proc'[p].cmd = cmd /\ proc'[p].copy = copy
  /\ \A q \in Clients \ {p} : proc'[q] = proc[q]

LEMMA ProcMoves ==
  ASSUME TypeOK, NEW p \in Clients
  PROVE  /\ \A pc \in ProcPhase : Goto(p, pc) => ProcTo(p, pc, proc[p].cmd, proc[p].copy)
         /\ \A pc \in ProcPhase, i \in Item : Keep(p, pc, i) => ProcTo(p, pc, proc[p].cmd, i)
         /\ End(p) => ProcTo(p, "idle", None, NoItem)
<1> USE DEF TypeOK
<1>1. ASSUME NEW pc \in ProcPhase, Goto(p, pc)
      PROVE  ProcTo(p, pc, proc[p].cmd, proc[p].copy)
  BY <1>1 DEF Goto, ProcTo, Proc
<1>2. ASSUME NEW pc \in ProcPhase, NEW i \in Item, Keep(p, pc, i)
      PROVE  ProcTo(p, pc, proc[p].cmd, i)
  BY <1>2 DEF Keep, ProcTo, Proc
<1>3. ASSUME End(p)
      PROVE  ProcTo(p, "idle", None, NoItem)
  <2>1. Idle \in Proc
    BY DEF Idle, Proc, ProcPhase, NoItem, Item
  <2> QED
    BY <1>3, <2>1 DEF End, ProcTo, Idle
<1> QED
  BY <1>1, <1>2, <1>3

ReqOnly(p) ==
  /\ req' \in [Clients -> Request]
  /\ \A q \in Clients \ {p} : req'[q] = req[q]
\* The request goes on as the one it is.
Goes(p, pc) ==
  /\ ReqOnly(p) /\ req'[p].pc = pc
  /\ UNCHANGED <<req[p].kind, req[p].token, req[p].seen, req[p].issued>>

LEMMA ReqMoves ==
  ASSUME TypeOK, NEW p \in Clients
  PROVE  /\ \A pc \in RequestPhase : To(p, pc) => Goes(p, pc)
         /\ \A ok \in BOOLEAN : Answer(p, ok) => Goes(p, "answered") /\ req'[p].ok = ok
         /\ Taken(p) => ReqOnly(p) /\ req'[p] = NoRequest
<1> USE DEF TypeOK, ServerTypeOK
<1>1. ASSUME NEW pc \in RequestPhase, To(p, pc)
      PROVE  Goes(p, pc)
  BY <1>1 DEF To, Goes, ReqOnly, Request
<1>2. ASSUME NEW ok \in BOOLEAN, Answer(p, ok)
      PROVE  Goes(p, "answered") /\ req'[p].ok = ok
  <2> DEFINE new(r) == [r EXCEPT !.pc = "answered", !.ok = ok]
  <2>1. ASSUME NEW r \in Request
        PROVE  new(r).ok = ok
    BY Zenon DEF Request
  <2>2. ASSUME NEW r \in Request
        PROVE  /\ new(r).pc = "answered" /\ new(r).kind = r.kind /\ new(r).token = r.token
               /\ new(r).seen = r.seen /\ new(r).issued = r.issued
    BY DEF Request
  <2>3. ASSUME NEW r \in Request
        PROVE  new(r) \in Request
    BY DEF Request, RequestPhase
  <2>4. req' = [req EXCEPT ![p] = new(req[p])] /\ req[p] \in Request
    BY <1>2 DEF Answer
  <2> HIDE DEF new
  <2>5. req' \in [Clients -> Request] /\ req'[p] = new(req[p])
        /\ \A q \in Clients \ {p} : req'[q] = req[q]
    BY <2>3, <2>4
  <2> QED
    BY <2>1, <2>2, <2>4, <2>5 DEF Goes, ReqOnly
<1>3. ASSUME Taken(p)
      PROVE  ReqOnly(p) /\ req'[p] = NoRequest
  <2>1. NoRequest \in Request
    BY DEF NoRequest, Request, RequestPhase, Kinds, Unbound, Binding, Unissued, ProviderToken
  <2> QED
    BY <1>3, <2>1 DEF Taken, ReqOnly
<1> QED
  BY <1>1, <1>2, <1>3

\* A request begins with the token it presents and nothing else.
Begins(p, kind, t) ==
  /\ ReqOnly(p) /\ req[p].pc = "idle"
  /\ req'[p].kind = kind /\ req'[p].token = t
  /\ req'[p].pc = (IF kind = "login" THEN "provider" ELSE "lookup")
  /\ req'[p].seen = Unbound /\ req'[p].issued = None

LEMMA RequestBegins ==
  ASSUME TypeOK, NEW p \in Clients, NEW kind \in Kinds, NEW t \in Tokens \cup {None},
         Receive(p, kind, t)
  PROVE  Begins(p, kind, t)
<1> DEFINE pending == CASE kind = "login" -> {}
                        [] kind = "exchange" -> {"binding", "provider"}
                        [] OTHER -> {"binding"}
           pc == IF kind = "login" THEN "provider" ELSE "lookup"
           new == [NoRequest EXCEPT !.kind = kind, !.token = t, !.pc = pc, !.pending = pending]
<1>1. req' = [req EXCEPT ![p] = new] /\ req[p].pc = "idle"
  BY DEF Receive
<1>2. pending \in SUBSET {"binding", "provider"} /\ pc \in RequestPhase
  BY DEF RequestPhase, Kinds
<1> HIDE DEF pending
<1>3. /\ new \in Request /\ new.kind = kind /\ new.token = t /\ new.pc = pc
      /\ new.seen = Unbound /\ new.issued = None
  BY <1>2 DEF NoRequest, Request, RequestPhase, Kinds, Unbound, Binding, Unissued, ProviderToken
<1> HIDE DEF new
<1> QED
  BY <1>1, <1>3 DEF TypeOK, ServerTypeOK, Begins, ReqOnly
--------------------------------------------------------------------------------
(* The steps of the processes *)

Others(p) == \A q \in Clients \ {p} : proc'[q] = proc[q] /\ req'[q] = req[q]

\* A step of one process leaves the others what they have: the lock was its own or
\* free, and so was the item.
LEMMA OtherClients ==
  ASSUME Inv, NEW p \in Clients, Others(p),
         lock' # lock => lock \in {p, None},
         item'.token # item.token => lock = p
  PROVE  \A q \in Clients \ {p} : Client(q)'
<1> TAKE q \in Clients \ {p}
<1>1. Client(q) /\ proc'[q] = proc[q] /\ req'[q] = req[q]
  BY DEF Inv, Others
<1>2. q # None
  BY NoneIsNobody
<1>3. proc[q].pc \in Locked => lock' = q /\ item'.token = item.token
  BY <1>1, <1>2 DEF Client
<1> QED
  BY <1>1, <1>3 DEF Client, Locked, InHand, Waits
Calm == losses = MaxLosses /\ failures = MaxFailures

\* What a step of a process may do: its request only begins or ends, it takes up what it
\* holds, and what it leaves is not needed.
Effect(p) ==
  /\ proc' \in [Clients -> Proc] /\ req' \in [Clients -> Request] /\ Others(p)
  /\ item' \in Item /\ fresh' \subseteq Tokens /\ lock' \in Clients \cup {None}
  /\ commands' \in 0 .. MaxCommands /\ losses' \in 0 .. MaxLosses
  /\ UNCHANGED <<binding, provider, failures>>
  /\ Calm' => Calm
  /\ lock' # lock => lock \in {p, None}
  /\ item'.token # item.token => lock = p
  /\ Client(p)' /\ Serving(p)'
  /\ \/ req'[p] = req[p]
     \/ req[p].pc \in {"idle", "answered"} /\ req'[p].pc \in {"idle", "provider", "lookup"}
  /\ \A n \in Tokens :
       /\ Holds(p, n)' => Holds(p, n)
       /\ item'.token = n \/ Knows(p, n)' => Known(n) \/ (Holds(p, n) /\ ~Holds(p, n)')
  /\ Calm' => /\ req'[p].kind = "refresh" => proc'[p].pc = "refreshing" /\ ~req'[p].seen.rotated
              /\ Replaces(p) =>
                   Replaces(p)' \/ item'.token = None \/ ~binding[item'.token].rotated
              /\ item'.token # item.token =>
                   item'.token = None \/ ~binding[item'.token].rotated

LEMMA EffectKeeps ==
  ASSUME Inv, NEW p \in Clients, Effect(p)
  PROVE  Inv'
<1>others. \A q \in Clients \ {p} : proc'[q] = proc[q] /\ req'[q] = req[q]
  BY DEF Effect, Others
<1>same. UNCHANGED <<binding, provider, failures>>
  BY DEF Effect
<1>1. TypeOK'
  BY DEF Inv, Effect, TypeOK, ServerTypeOK
<1>2. \A q \in Clients : Client(q)'
  <2>1. \A q \in Clients \ {p} : Client(q)'
    BY OtherClients DEF Effect
  <2> QED
    BY <2>1 DEF Effect
<1>3. ASSUME NEW q \in Clients
      PROVE  Serving(q)'
  <2>1. CASE q = p
    BY <2>1 DEF Effect
  <2>2. CASE q # p
    BY <1>same, <1>others, <2>2 DEF Inv, Serving
  <2> QED
    BY <2>1, <2>2
<1>4. NewTokens'
  <2>1. \A q \in Clients, n \in Tokens : Holds(q, n)' => Holds(q, n)
    BY <1>others DEF Effect, Holds
  <2>2. \A q \in Clients \ {p}, n \in Tokens : Knows(q, n)' => Knows(q, n)
    BY <1>others DEF Knows
  <2>3. ASSUME NEW n \in Tokens, Known(n)'
        PROVE  Known(n) \/ (Holds(p, n) /\ ~Holds(p, n)')
    BY <2>2, <2>3 DEF Known, Effect
  <2>4. ASSUME NEW q \in Clients, NEW n \in Tokens, Holds(q, n)'
        PROVE  /\ provider'[n].issued /\ ~provider'[n].rotated /\ ~Known(n)'
               /\ \A r \in Clients : Holds(r, n)' => r = q
    <3>1. /\ provider[n].issued /\ ~provider[n].rotated /\ ~Known(n)
          /\ \A r \in Clients : Holds(r, n) => r = q
      BY <2>1, <2>4 DEF Inv, NewTokens
    <3>2. ~Known(n)'
      <4>1. CASE q = p
        BY <2>3, <2>4, <3>1, <4>1
      <4>2. CASE q # p
        BY <2>3, <3>1, <4>2
      <4> QED
        BY <4>1, <4>2
    <3> QED
      BY <1>same, <2>1, <3>1, <3>2
  <2>5. ASSUME NEW n \in Tokens, Known(n)' \/ binding'[n].family # None
        PROVE  provider'[n].issued
    BY <1>same, <2>3, <2>5 DEF Inv, NewTokens
  <2> QED
    BY <2>4, <2>5 DEF NewTokens
<1>5. Chains'
  <2>1. \A q \in Clients : req'[q].pc \in {"check", "bind"} => req'[q] = req[q]
    BY <1>others DEF Effect
  <2> QED
    BY <1>same, <2>1 DEF Inv, Chains
<1>6. Revocations'
  <2>1. \A q \in Clients : req[q].pc \in {"familyCheck", "familyRevoke"} => req'[q] = req[q]
    BY <1>others DEF Effect
  <2> QED
    BY <1>same, <2>1 DEF Inv, Revocations
<1>7. Lossless'
  <2> SUFFICES ASSUME Calm'
               PROVE  /\ \A q \in Clients : req'[q].kind = "refresh" =>
                           proc'[q].pc = "refreshing" /\ ~req'[q].seen.rotated
                      /\ item'.token # None /\ binding'[item'.token].rotated =>
                           \E q \in Clients : Replaces(q)'
    BY DEF Lossless, Calm
  <2>1. Calm
    BY DEF Effect
  <2>2. ASSUME NEW q \in Clients, req'[q].kind = "refresh"
        PROVE  proc'[q].pc = "refreshing" /\ ~req'[q].seen.rotated
    <3>1. CASE q = p
      BY <2>2, <3>1 DEF Effect
    <3>2. CASE q # p
      BY <1>others, <2>1, <2>2, <3>2 DEF Inv, Lossless, Calm
    <3> QED
      BY <3>1, <3>2
  <2>3. ASSUME item'.token # None, binding'[item'.token].rotated
        PROVE  \E q \in Clients : Replaces(q)'
    <3>1. item'.token = item.token
      BY <1>same, <2>3 DEF Effect
    <3>2. PICK q \in Clients : Replaces(q)
      BY <1>same, <2>1, <2>3, <3>1 DEF Inv, Lossless, Calm
    <3>3. Replaces(q)'
      <4>1. CASE q = p
        BY <1>same, <2>3, <3>2, <4>1 DEF Effect
      <4>2. CASE q # p
        BY <1>others, <3>2, <4>2 DEF Replaces, Bound
      <4> QED
        BY <4>1, <4>2
    <3> QED
      BY <3>3
  <2> QED
    BY <2>2, <2>3
<1> QED
  BY <1>1, <1>2, <1>3, <1>4, <1>5, <1>6, <1>7 DEF Inv
Sane(p) ==
  /\ proc[p] \in Proc /\ req[p] \in Request /\ item \in Item
  /\ proc[p].pc \in ProcPhase /\ proc[p].cmd \in Commands \cup {None} /\ proc[p].copy \in Item
  /\ item.token \in Tokens \cup {None} /\ proc[p].copy.token \in Tokens \cup {None}
  /\ req[p].token \in Tokens \cup {None} /\ req[p].issued \in Tokens \cup {None}
  /\ req[p].kind \in Kinds /\ req[p].pc \in RequestPhase
  /\ Client(p) /\ Serving(p) /\ TypeOK

LEMMA InvSane == Inv => \A p \in Clients : Sane(p)
BY DEF Inv, TypeOK, ServerTypeOK, Proc, Request, Item, Sane

\* What leaves the server and the request alone.
Quiet(p, pc, cmd, copy) ==
  /\ pc \in ProcPhase /\ copy \in Item /\ ProcTo(p, pc, cmd, copy)
  /\ UNCHANGED <<binding, provider, req, failures>>
  /\ commands' \in 0 .. MaxCommands /\ losses' \in 0 .. MaxLosses
  /\ fresh' \subseteq Tokens
  /\ Calm' => Calm /\ proc[p].pc # "refreshing"

\* The lock is kept, taken or given back.
LockKept(p) == lock' = lock \/ (lock = None /\ lock' = p) \/ lock' = Released(p)

LEMMA QuietEffect ==
  ASSUME Inv, NEW p \in Clients, NEW pc, NEW cmd, NEW copy, Quiet(p, pc, cmd, copy), LockKept(p),
         item' \in Item, item'.token # item.token => lock = p,
         Client(p)',
         pc \in InHand => proc[p].pc \in InHand /\ copy.token = proc[p].copy.token,
         \A n \in Tokens :
           item'.token = n \/ (pc \notin InHand /\ copy.token = n) =>
             Known(n) \/ (Holds(p, n) /\ ~Holds(p, n)'),
         Calm' /\ (item'.token # item.token \/ proc[p].pc = "store") =>
           item'.token = None \/ ~binding[item'.token].rotated
  PROVE  Effect(p)
<1>sane. Sane(p)
  BY InvSane
<1>proc. /\ proc' \in [Clients -> Proc] /\ proc'[p].pc = pc /\ proc'[p].copy = copy
         /\ \A q \in Clients \ {p} : proc'[q] = proc[q]
  BY DEF Quiet, ProcTo
<1>same. UNCHANGED <<binding, provider, req, failures>>
  BY DEF Quiet
<1>1. req' \in [Clients -> Request] /\ Others(p)
  BY <1>proc, <1>same, <1>sane DEF Sane, Others, TypeOK, ServerTypeOK
<1>2. /\ lock' \in Clients \cup {None}
      /\ lock' # lock => lock \in {p, None}
  BY <1>sane DEF Sane, LockKept, Released, TypeOK
<1>3. Serving(p)'
  BY <1>same, <1>sane DEF Sane, Serving
<1>4. ASSUME NEW n \in Tokens
      PROVE  /\ Holds(p, n)' => Holds(p, n)
             /\ item'.token = n \/ Knows(p, n)' => Known(n) \/ (Holds(p, n) /\ ~Holds(p, n)')
  <2>1. Holds(p, n)' => Holds(p, n)
    BY <1>proc, <1>same DEF Holds
  <2>2. Knows(p, n)' => Known(n) \/ (pc \notin InHand /\ copy.token = n)
    BY <1>proc, <1>same DEF Knows, Known
  <2> QED
    BY <2>1, <2>2
<1>5. ASSUME Calm'
      PROVE  /\ req'[p].kind = "refresh" => proc'[p].pc = "refreshing" /\ ~req'[p].seen.rotated
             /\ Replaces(p) =>
                  Replaces(p)' \/ item'.token = None \/ ~binding[item'.token].rotated
             /\ item'.token # item.token =>
                  item'.token = None \/ ~binding[item'.token].rotated
  <2>1. Calm /\ proc[p].pc # "refreshing"
    BY <1>5 DEF Quiet
  <2>2. req[p].kind # "refresh"
    BY <2>1 DEF Inv, Lossless, Calm
  <2>3. Replaces(p) => proc[p].pc = "store"
    BY <2>1 DEF Replaces
  <2> QED
    BY <1>5, <1>same, <2>2, <2>3
<1>6. /\ fresh' \subseteq Tokens /\ commands' \in 0 .. MaxCommands /\ losses' \in 0 .. MaxLosses
      /\ Calm' => Calm
  BY DEF Quiet
<1> QED
  BY <1>proc, <1>same, <1>1, <1>2, <1>3, <1>4, <1>5, <1>6 DEF Effect
\* The same for steps that leave the item's token or remove it.
LEMMA SimpleEffect ==
  ASSUME Inv, NEW p \in Clients, NEW pc, NEW cmd, NEW copy, Quiet(p, pc, cmd, copy), LockKept(p),
         item' \in Item, item'.token \in {None, item.token},
         item'.token # item.token => lock = p,
         Client(p)', pc \notin InHand,
         \/ copy.token \in {None, item.token}
         \/ copy.token = proc[p].copy.token /\ proc[p].pc \notin InHand,
         Calm' => proc[p].pc # "store"
  PROVE  Effect(p)
<1>1. ASSUME NEW n \in Tokens, item'.token = n \/ copy.token = n
      PROVE  Known(n)
  <2>1. n # None
    BY NoneIsNoToken
  <2> QED
    BY <1>1, <2>1 DEF Known, Knows
<1> QED
  BY <1>1, QuietEffect

Unshared == <<binding, provider, req, failures>>

LEMMA StartEffect ==
  ASSUME Inv, NEW p \in Clients, NEW cmd \in Commands, Start(p, cmd)
  PROVE  Effect(p)
<1>sane. Sane(p)
  BY InvSane
<1> DEFINE pc == IF cmd \in {"login", "logout"} THEN "lock" ELSE "read"
<1>1. /\ At(p, "idle") /\ req[p].pc = "idle"
      /\ proc' = [proc EXCEPT ![p].cmd = cmd, ![p].pc = pc]
      /\ commands > 0 /\ commands' = commands - 1
      /\ UNCHANGED <<binding, provider, req, item, fresh, lock, losses, failures>>
  BY DEF Start, serverVars
<1>2. pc \in ProcPhase /\ pc \in {"lock", "read"}
  BY DEF ProcPhase
<1> HIDE DEF pc
<1>3. ProcTo(p, pc, cmd, proc[p].copy)
  BY <1>1, <1>2, <1>sane DEF ProcTo, Sane, TypeOK, Proc
<1>4. commands' \in 0 .. MaxCommands
  BY <1>1, <1>sane, BoundsAreNat DEF Sane, TypeOK
<1>5. Quiet(p, pc, cmd, proc[p].copy)
  BY <1>1, <1>2, <1>3, <1>4, <1>sane DEF Quiet, Calm, Sane, TypeOK, At
<1>6. Client(p)'
  BY <1>1, <1>2, <1>3 DEF Client, ProcTo, Locked, InHand, Waits
<1> QED
  BY <1>1, <1>2, <1>5, <1>6, <1>sane, SimpleEffect DEF LockKept, Sane, At, InHand

LEMMA AccessMoves ==
  ASSUME TypeOK, NEW p \in Clients, NEW i \in Item, WithAccess(p, i)
  PROVE  \E pc \in {"exchange", "userinfo", "idle"}, cmd \in {proc[p].cmd, None}, copy \in {i, NoItem} :
           ProcTo(p, pc, cmd, copy) /\ (pc = "exchange" => copy = i)
<1>1. "exchange" \in ProcPhase /\ "userinfo" \in ProcPhase
  BY DEF ProcPhase
<1>2. \/ ProcTo(p, "exchange", proc[p].cmd, i)
      \/ ProcTo(p, "userinfo", proc[p].cmd, i)
      \/ ProcTo(p, "idle", None, NoItem)
  BY <1>1, ProcMoves DEF WithAccess
<1> QED
  BY <1>2

LEMMA NothingIsItem == NoItem \in Item /\ NoItem.token = None
BY DEF NoItem, Item

\* A command goes on with the session of the item, or ends.
LEMMA AccessEffect ==
  ASSUME Inv, NEW p \in Clients, NEW i \in Item, WithAccess(p, i), i.token = item.token,
         i.token # None, req[p].pc = "idle", LockKept(p), proc[p].pc # "store",
         item' \in Item, item'.token = item.token, fresh' \subseteq Tokens,
         proc[p].pc # "refreshing", UNCHANGED <<Unshared, commands, losses>>
  PROVE  Effect(p)
<1>sane. Sane(p)
  BY InvSane
<1>1. PICK pc \in {"exchange", "userinfo", "idle"}, cmd \in {proc[p].cmd, None}, copy \in {i, NoItem} :
        ProcTo(p, pc, cmd, copy) /\ (pc = "exchange" => copy = i)
  BY <1>sane, AccessMoves DEF Sane
<1>2. copy \in Item /\ copy.token \in {None, item.token}
  BY NothingIsItem
<1>3. Quiet(p, pc, cmd, copy)
  BY <1>1, <1>2, <1>sane DEF Quiet, Calm, Sane, TypeOK, ProcPhase, Unshared
<1>4. Client(p)'
  BY <1>1 DEF Client, ProcTo, Locked, InHand, Waits, Unshared
<1> QED
  BY <1>2, <1>3, <1>4, SimpleEffect DEF InHand

LEMMA ReadEffect ==
  ASSUME Inv, NEW p \in Clients, Read(p)
  PROVE  Effect(p)
<1>sane. Sane(p)
  BY InvSane
<1>1. /\ At(p, "read")
      /\ UNCHANGED <<Unshared, item, fresh, lock, commands, losses>>
  BY DEF Read, serverVars, Unshared
<1>idle. req[p].pc = "idle"
  BY <1>1, <1>sane DEF Sane, Client, At, Waits
<1>2. CASE Usable(item)
  <2>1. WithAccess(p, item)
    BY <1>2 DEF Read
  <2> QED
    BY <1>1, <1>2, <1>idle, <2>1, <1>sane, AccessEffect DEF Usable, LockKept, Sane, TypeOK, At
<1>3. CASE ~Usable(item)
  <2>1. ProcTo(p, "lock", proc[p].cmd, item)
    BY <1>3, <1>sane, ProcMoves DEF Read, Sane, ProcPhase
  <2>2. Quiet(p, "lock", proc[p].cmd, item)
    BY <1>1, <2>1, <1>sane DEF Quiet, Calm, Sane, TypeOK, At, ProcPhase, Unshared
  <2>3. Client(p)'
    BY <1>1, <1>idle, <2>1 DEF Client, ProcTo, Locked, InHand, Waits, Unshared
  <2> QED
    BY <1>1, <2>2, <2>3, <1>sane, SimpleEffect DEF LockKept, Sane, At, InHand
<1> QED
  BY <1>2, <1>3

LEMMA AcquireEffect ==
  ASSUME Inv, NEW p \in Clients, Acquire(p)
  PROVE  Effect(p)
<1>sane. Sane(p)
  BY InvSane
<1> DEFINE pc == IF At(p, "lock") THEN "locked" ELSE "naming"
<1>1. /\ proc[p].pc \in {"lock", "name"} /\ lock = None /\ lock' = p /\ Goto(p, pc)
      /\ UNCHANGED <<Unshared, item, fresh, commands, losses>>
  BY DEF Acquire, LockFree, At, serverVars, Unshared
<1>2. pc \in {"locked", "naming"} /\ pc \in ProcPhase
  BY DEF ProcPhase
<1> HIDE DEF pc
<1>idle. req[p].pc = "idle"
  BY <1>1, <1>sane DEF Sane, Client, Waits
<1>3. ProcTo(p, pc, proc[p].cmd, proc[p].copy)
  BY <1>1, <1>2, <1>sane, ProcMoves DEF Sane
<1>4. Quiet(p, pc, proc[p].cmd, proc[p].copy)
  BY <1>1, <1>2, <1>3, <1>sane DEF Quiet, Calm, Sane, TypeOK, Unshared
<1>5. Client(p)'
  BY <1>1, <1>2, <1>3, <1>idle DEF Client, ProcTo, Locked, InHand, Waits, Unshared
<1> QED
  BY <1>1, <1>2, <1>4, <1>5, <1>sane, SimpleEffect DEF LockKept, Sane, InHand

\* A command that ends, and lets go a lock it has.
LEMMA EndEffect ==
  ASSUME Inv, NEW p \in Clients, End(p), lock' \in {lock, Released(p)},
         item' \in Item, item'.token \in {None, item.token},
         item'.token # item.token => lock = p, fresh' \subseteq Tokens,
         commands' = commands, losses' \in 0 .. MaxLosses,
         Calm' => Calm /\ proc[p].pc \notin {"refreshing", "store"}, UNCHANGED Unshared
  PROVE  Effect(p)
<1>sane. Sane(p)
  BY InvSane
<1>1. ProcTo(p, "idle", None, NoItem)
  BY <1>sane, ProcMoves DEF Sane
<1>2. Quiet(p, "idle", None, NoItem)
  BY <1>1, <1>sane, NothingIsItem DEF Quiet, Sane, TypeOK, ProcPhase, Unshared
<1>3. Client(p)'
  BY <1>1 DEF Client, ProcTo, Locked, InHand, Waits
<1> QED
  BY <1>2, <1>3, NothingIsItem, SimpleEffect DEF LockKept, InHand
LEMMA ItemEdits ==
  ASSUME NEW i \in Item, NEW t \in Tokens \cup {None}
  PROVE  /\ [i EXCEPT !.session = TRUE] \in Item /\ [i EXCEPT !.session = TRUE].token = i.token
         /\ [i EXCEPT !.token = t, !.session = FALSE] \in Item
         /\ [i EXCEPT !.token = t, !.session = FALSE].token = t
         /\ [NoItem EXCEPT !.token = t, !.session = TRUE] \in Item
         /\ [NoItem EXCEPT !.token = t, !.session = TRUE].token = t
         /\ [i EXCEPT !.identity = t] \in Item /\ [i EXCEPT !.identity = t].token = i.token
BY DEF Item, NoItem

LEMMA GiveUpEffect ==
  ASSUME Inv, NEW p \in Clients, GiveUp(p)
  PROVE  Effect(p)
<1>sane. Sane(p)
  BY InvSane
<1>1. /\ proc[p].pc \in {"lock", "name"} /\ End(p)
      /\ UNCHANGED <<Unshared, item, fresh, lock, commands, losses>>
  BY DEF GiveUp, At, serverVars, Unshared
<1> QED
  BY <1>1, <1>sane, EndEffect DEF Sane, TypeOK, Calm, Unshared

\* A request begins with a token that is known, or is a login.
LEMMA BeginEffect ==
  ASSUME Inv, NEW p \in Clients, NEW kind \in Kinds, NEW t \in Tokens \cup {None},
         NEW pc, NEW cmd, NEW copy, ProcTo(p, pc, cmd, copy), Begins(p, kind, t),
         kind = "login" <=> t = None, t # None => Known(t),
         pc \notin InHand, kind = "refresh" => pc = "refreshing",
         \/ copy.token \in {None, item.token}
         \/ copy.token = proc[p].copy.token /\ proc[p].pc \notin InHand,
         proc[p].pc \notin {"refreshing", "store"}, Client(p)',
         UNCHANGED <<binding, provider, item, fresh, lock, commands, losses, failures>>
  PROVE  Effect(p)
<1>sane. Sane(p)
  BY InvSane
<1>proc. /\ proc' \in [Clients -> Proc] /\ proc'[p].pc = pc /\ proc'[p].copy = copy
         /\ \A q \in Clients \ {p} : proc'[q] = proc[q]
  BY DEF ProcTo
<1>req. /\ req' \in [Clients -> Request] /\ req[p].pc = "idle"
        /\ \A q \in Clients \ {p} : req'[q] = req[q]
        /\ req'[p].kind = kind /\ req'[p].token = t
        /\ req'[p].pc = (IF kind = "login" THEN "provider" ELSE "lookup")
        /\ req'[p].seen = Unbound /\ req'[p].issued = None
  BY DEF Begins, ReqOnly
<1>same. UNCHANGED <<binding, provider, item, fresh, lock, commands, losses, failures>>
  OBVIOUS
<1>1. Others(p)
  BY <1>proc, <1>req DEF Others
<1>2. Serving(p)'
  BY <1>req DEF Serving, Unbound
<1>3. ASSUME NEW n \in Tokens
      PROVE  /\ ~Holds(p, n)'
             /\ item'.token = n \/ Knows(p, n)' => Known(n)
  <2>1. n # None
    BY NoneIsNoToken
  <2>2. ~Holds(p, n)'
    BY <1>proc, <1>req, <2>1 DEF Holds
  <2>3. Knows(p, n)' => t = n \/ copy.token = n
    BY <1>proc, <1>req DEF Knows
  <2>4. copy.token = n => Known(n)
    BY <2>1 DEF Known, Knows
  <2> QED
    BY <1>same, <2>1, <2>2, <2>3, <2>4 DEF Known
<1>4. ASSUME Calm'
      PROVE  /\ Calm
             /\ req'[p].kind = "refresh" => proc'[p].pc = "refreshing" /\ ~req'[p].seen.rotated
             /\ ~Replaces(p)
  BY <1>4, <1>proc, <1>req, <1>same DEF Calm, Replaces, Unbound
<1>5. /\ req[p].pc \in {"idle", "answered"} /\ req'[p].pc \in {"idle", "provider", "lookup"}
  BY <1>req
<1> QED
  BY <1>proc, <1>req, <1>same, <1>1, <1>2, <1>3, <1>4, <1>5, <1>sane DEF Effect, Sane, TypeOK

LEMMA LockedReadEffect ==
  ASSUME Inv, NEW p \in Clients, LockedRead(p)
  PROVE  Effect(p)
<1>sane. Sane(p)
  BY InvSane
<1>1. /\ proc[p].pc = "locked"
      /\ UNCHANGED <<binding, provider, item, fresh, commands, losses, failures>>
  BY DEF LockedRead, At
<1>idle. req[p].pc = "idle"
  BY <1>1, <1>sane DEF Sane, Client, Waits
<1>2. CASE item.token = None /\ End(p) /\ Release(p) /\ UNCHANGED req
  BY <1>1, <1>2, <1>sane, EndEffect DEF Sane, TypeOK, Calm, Unshared, Release
<1>3. CASE Usable(item) /\ WithAccess(p, item) /\ Release(p) /\ UNCHANGED req
  BY <1>1, <1>3, <1>idle, <1>sane, AccessEffect
     DEF Sane, TypeOK, Calm, Unshared, Release, LockKept, Usable
<1>4. CASE item.token # None /\ Keep(p, "refreshing", item) /\ Receive(p, "refresh", item.token)
           /\ UNCHANGED lock
  <2>1. ProcTo(p, "refreshing", proc[p].cmd, item)
    BY <1>4, <1>sane, ProcMoves DEF Sane, ProcPhase
  <2>2. Begins(p, "refresh", item.token)
    BY <1>4, <1>sane, RequestBegins DEF Sane, Kinds
  <2>3. Client(p)'
    BY <1>1, <1>4, <1>sane, <2>1, <2>2 DEF Client, Sane, ProcTo, Begins, Locked, InHand, Waits
  <2>4. Known(item.token)
    BY DEF Known
  <2> QED
    BY <1>1, <1>4, <1>sane, <2>1, <2>2, <2>3, <2>4, BeginEffect DEF Sane, Kinds, InHand
<1> QED
  BY <1>2, <1>3, <1>4 DEF LockedRead, Reread

LEMMA LoginRequestEffect ==
  ASSUME Inv, NEW p \in Clients, LoginRequest(p)
  PROVE  Effect(p)
<1>sane. Sane(p)
  BY InvSane
<1>1. /\ proc[p].pc = "locked" /\ proc[p].cmd = "login"
      /\ UNCHANGED <<binding, provider, item, fresh, commands, losses, failures>>
  BY DEF LoginRequest, At
<1>2. CASE End(p) /\ Release(p) /\ UNCHANGED req
  BY <1>1, <1>2, <1>sane, EndEffect DEF Sane, TypeOK, Calm, Unshared, Release
<1>3. CASE Goto(p, "loggingIn") /\ Receive(p, "login", None) /\ UNCHANGED lock
  <2>1. ProcTo(p, "loggingIn", proc[p].cmd, proc[p].copy)
    BY <1>3, <1>sane, ProcMoves DEF Sane, ProcPhase
  <2>2. Begins(p, "login", None)
    BY <1>3, <1>sane, RequestBegins DEF Sane, Kinds
  <2>3. Client(p)'
    BY <1>1, <1>3, <1>sane, <2>1, <2>2 DEF Client, Sane, ProcTo, Begins, Locked, InHand, Waits
  <2> QED
    BY <1>1, <1>3, <1>sane, <2>1, <2>2, <2>3, BeginEffect DEF Sane, Kinds, InHand
<1> QED
  BY <1>2, <1>3 DEF LoginRequest

LEMMA LogoutRequestEffect ==
  ASSUME Inv, NEW p \in Clients, LogoutRequest(p)
  PROVE  Effect(p)
<1>sane. Sane(p)
  BY InvSane
<1>1. /\ proc[p].pc = "locked"
      /\ UNCHANGED <<binding, provider, item, fresh, lock, commands, losses, failures>>
  BY DEF LogoutRequest, At
<1>2. CASE item.token = None /\ Goto(p, "clear") /\ UNCHANGED req
  <2>1. ProcTo(p, "clear", proc[p].cmd, proc[p].copy)
    BY <1>2, <1>sane, ProcMoves DEF Sane, ProcPhase
  <2>2. Quiet(p, "clear", proc[p].cmd, proc[p].copy)
    BY <1>1, <1>2, <2>1, <1>sane DEF Quiet, Calm, Sane, TypeOK, ProcPhase
  <2>3. Client(p)'
    BY <1>1, <1>sane, <2>1 DEF Client, Sane, ProcTo, Locked, InHand, Waits
  <2> QED
    BY <1>1, <1>sane, <2>2, <2>3, SimpleEffect DEF LockKept, Sane, InHand
<1>3. CASE item.token # None /\ Goto(p, "revoking") /\ Receive(p, "revoke", item.token)
  <2>1. ProcTo(p, "revoking", proc[p].cmd, proc[p].copy)
    BY <1>3, <1>sane, ProcMoves DEF Sane, ProcPhase
  <2>2. Begins(p, "revoke", item.token)
    BY <1>3, <1>sane, RequestBegins DEF Sane, Kinds
  <2>3. Client(p)'
    BY <1>1, <1>3, <1>sane, <2>1, <2>2 DEF Client, Sane, ProcTo, Begins, Locked, InHand, Waits
  <2>4. Known(item.token)
    BY DEF Known
  <2> QED
    BY <1>1, <1>3, <1>sane, <2>1, <2>2, <2>3, <2>4, BeginEffect DEF Sane, Kinds, InHand
<1> QED
  BY <1>2, <1>3 DEF LogoutRequest

LEMMA ExchangeRequestEffect ==
  ASSUME Inv, NEW p \in Clients, ExchangeRequest(p)
  PROVE  Effect(p)
<1>sane. Sane(p)
  BY InvSane
<1>1. /\ proc[p].pc = "exchange"
      /\ UNCHANGED <<binding, provider, item, fresh, lock, commands, losses, failures>>
  BY DEF ExchangeRequest, At
<1>2. CASE End(p) /\ UNCHANGED req
  BY <1>1, <1>2, <1>sane, EndEffect DEF Sane, TypeOK, Calm, Unshared
<1>3. CASE Goto(p, "exchanging") /\ Receive(p, "exchange", proc[p].copy.token)
  <2>1. ProcTo(p, "exchanging", proc[p].cmd, proc[p].copy)
    BY <1>3, <1>sane, ProcMoves DEF Sane, ProcPhase
  <2>2. Begins(p, "exchange", proc[p].copy.token)
    BY <1>3, <1>sane, RequestBegins DEF Sane, Kinds
  <2>3. Client(p)'
    BY <1>1, <1>3, <1>sane, <2>1, <2>2 DEF Client, Sane, ProcTo, Begins, Locked, InHand, Waits
  <2>4. Known(proc[p].copy.token) /\ proc[p].copy.token # None
    BY <1>1, <1>sane DEF Known, Knows, InHand, Sane, Client
  <2> QED
    BY <1>1, <1>3, <1>sane, <2>1, <2>2, <2>3, <2>4, BeginEffect DEF Sane, Kinds, InHand
<1> QED
  BY <1>2, <1>3 DEF ExchangeRequest
\* An answer is taken up: what was issued is now in the hand of the process, or lost.
LEMMA TakenEffect ==
  ASSUME Inv, NEW p \in Clients, NEW pc, NEW cmd, NEW copy, ProcTo(p, pc, cmd, copy),
         req[p].pc = "answered", Taken(p),
         IF pc \in InHand THEN copy.token = req[p].issued
         ELSE \/ copy.token \in {None, item.token}
              \/ copy.token = proc[p].copy.token /\ proc[p].pc \notin InHand,
         lock' \in {lock, Released(p)}, Client(p)',
         Replaces(p) => pc = "store",
         UNCHANGED <<binding, provider, item, fresh, commands, losses, failures>>
  PROVE  Effect(p)
<1>sane. Sane(p)
  BY InvSane
<1>proc. /\ proc' \in [Clients -> Proc] /\ proc'[p].pc = pc /\ proc'[p].copy = copy
         /\ \A q \in Clients \ {p} : proc'[q] = proc[q]
  BY DEF ProcTo
<1>req. /\ req' \in [Clients -> Request] /\ req'[p] = NoRequest
        /\ \A q \in Clients \ {p} : req'[q] = req[q]
  BY <1>sane, ReqMoves DEF Sane, ReqOnly
<1>none. /\ NoRequest.pc = "idle" /\ NoRequest.kind = "login" /\ NoRequest.token = None
         /\ NoRequest.issued = None /\ NoRequest.seen.family = None
  BY DEF NoRequest, Unbound
<1>same. UNCHANGED <<binding, provider, item, fresh, commands, losses, failures>>
  OBVIOUS
<1>1. Others(p)
  BY <1>proc, <1>req DEF Others
<1>2. Serving(p)'
  BY <1>req, <1>none DEF Serving
<1>3. ASSUME NEW n \in Tokens
      PROVE  /\ Holds(p, n)' => Holds(p, n)
             /\ item'.token = n \/ Knows(p, n)' => Known(n)
  <2>1. n # None
    BY NoneIsNoToken
  <2>2. Holds(p, n)' => Holds(p, n)
    BY <1>proc, <1>req, <1>none, <2>1 DEF Holds
  <2>3. Knows(p, n)' => pc \notin InHand /\ copy.token = n
    BY <1>proc, <1>req, <1>none, <2>1 DEF Knows
  <2>4. pc \notin InHand /\ copy.token = n => Known(n)
    BY <2>1 DEF Known, Knows
  <2> QED
    BY <1>same, <2>2, <2>3, <2>4 DEF Known
<1>4. Replaces(p) => Replaces(p)'
  BY <1>proc DEF Replaces
<1>5. /\ Calm' => Calm /\ req'[p].kind # "refresh" /\ req'[p].pc = "idle"
  BY <1>req, <1>none, <1>same DEF Calm
<1>6. lock' \in Clients \cup {None} /\ (lock' # lock => lock \in {p, None})
  BY <1>sane DEF Released, Sane, TypeOK
<1> QED
  BY <1>proc, <1>req, <1>none, <1>same, <1>1, <1>2, <1>3, <1>4, <1>5, <1>6, <1>sane
     DEF Effect, Sane, TypeOK

LEMMA AnsweredEffect ==
  ASSUME Inv, NEW p \in Clients, Answered(p)
  PROVE  Effect(p)
<1>sane. Sane(p)
  BY InvSane
<1>1. /\ req[p].pc = "answered" /\ Taken(p)
      /\ UNCHANGED <<binding, provider, item, fresh, commands, losses, failures>>
  BY DEF Answered
<1>idle. req'[p].pc = "idle"
  BY <1>1, <1>sane, ReqMoves DEF Sane, NoRequest
<1>2. CASE /\ At(p, "refreshing") /\ req[p].ok
           /\ Keep(p, "store", [proc[p].copy EXCEPT !.token = req[p].issued, !.session = FALSE])
           /\ UNCHANGED lock
  <2> DEFINE copy == [proc[p].copy EXCEPT !.token = req[p].issued, !.session = FALSE]
  <2>1. copy \in Item /\ copy.token = req[p].issued
    BY <1>sane, ItemEdits DEF Sane
  <2> HIDE DEF copy
  <2>2. ProcTo(p, "store", proc[p].cmd, copy)
    BY <1>2, <2>1, <1>sane, ProcMoves DEF Sane, ProcPhase, copy
  <2>3. /\ proc[p].pc = "refreshing" /\ item.token # None /\ req[p].issued # None /\ lock = p
    BY <1>1, <1>2, <1>sane DEF At, Sane, Client, Serving, Locked
  <2>4. Client(p)'
    BY <1>1, <1>2, <1>idle, <2>1, <2>2, <2>3 DEF Client, ProcTo, Locked, InHand, Waits
  <2> QED
    BY <1>1, <1>2, <2>1, <2>2, <2>4, TakenEffect DEF InHand
<1>3. CASE /\ At(p, "loggingIn") /\ req[p].ok
           /\ Keep(p, "replace", [NoItem EXCEPT !.token = req[p].issued, !.session = TRUE])
           /\ UNCHANGED lock
  <2> DEFINE copy == [NoItem EXCEPT !.token = req[p].issued, !.session = TRUE]
  <2>1. copy \in Item /\ copy.token = req[p].issued
    BY <1>sane, ItemEdits DEF Sane
  <2> HIDE DEF copy
  <2>2. ProcTo(p, "replace", proc[p].cmd, copy)
    BY <1>3, <2>1, <1>sane, ProcMoves DEF Sane, ProcPhase, copy
  <2>3. /\ proc[p].pc = "loggingIn" /\ proc[p].cmd = "login" /\ req[p].issued # None /\ lock = p
    BY <1>1, <1>3, <1>sane DEF At, Sane, Client, Serving, Locked
  <2>4. Client(p)'
    BY <1>1, <1>3, <1>idle, <2>1, <2>2, <2>3 DEF Client, ProcTo, Locked, InHand, Waits
  <2>5. ~Replaces(p)
    BY <2>3 DEF Replaces
  <2> QED
    BY <1>1, <1>3, <2>1, <2>2, <2>4, <2>5, TakenEffect DEF InHand
<1>ends. ASSUME End(p), lock' \in {lock, Released(p)}, ~Replaces(p)
         PROVE  Effect(p)
  <2>1. ProcTo(p, "idle", None, NoItem)
    BY <1>ends, <1>sane, ProcMoves DEF Sane
  <2>2. Client(p)'
    BY <2>1 DEF Client, ProcTo, Locked, InHand, Waits
  <2> QED
    BY <1>1, <1>ends, <2>1, <2>2, NothingIsItem, TakenEffect DEF InHand
<1>4. CASE (At(p, "refreshing") \/ At(p, "loggingIn")) /\ ~req[p].ok /\ End(p) /\ Release(p)
  <2>1. ~Replaces(p)
    BY <1>1, <1>4 DEF Replaces, Bound, At
  <2> QED
    BY <1>4, <1>ends, <2>1 DEF Release
<1>5. CASE At(p, "revoking") /\ Goto(p, "clear") /\ UNCHANGED lock
  <2>1. ProcTo(p, "clear", proc[p].cmd, proc[p].copy)
    BY <1>5, <1>sane, ProcMoves DEF Sane, ProcPhase
  <2>2. lock = p /\ ~Replaces(p)
    BY <1>5, <1>sane DEF At, Sane, Client, Locked, Replaces
  <2>3. Client(p)'
    BY <1>5, <2>1, <2>2 DEF Client, ProcTo, Locked, InHand, Waits
  <2> QED
    BY <1>1, <1>5, <2>1, <2>2, <2>3, TakenEffect DEF InHand, At
<1>6. CASE At(p, "exchanging") /\ End(p) /\ UNCHANGED lock
  BY <1>6, <1>ends DEF Replaces, At
<1>7. CASE At(p, "idle") /\ UNCHANGED <<proc, lock>>
  <2>1. ProcTo(p, "idle", proc[p].cmd, proc[p].copy)
    BY <1>7, <1>sane DEF At, ProcTo, Sane, TypeOK
  <2>2. Client(p)'
    BY <2>1 DEF Client, ProcTo, Locked, InHand, Waits
  <2>3. ~Replaces(p)
    BY <1>7 DEF At, Replaces
  <2> QED
    BY <1>1, <1>7, <2>1, <2>2, <2>3, TakenEffect DEF InHand, At
<1> QED
  BY <1>2, <1>3, <1>4, <1>5, <1>6, <1>7 DEF Answered

\* What a process has in hand is stored under the lock; it was never presented.
LEMMA InHandIsNew ==
  ASSUME Inv, NEW p \in Clients, proc[p].pc \in InHand
  PROVE  /\ lock = p /\ req[p].pc = "idle" /\ req[p].issued = None
         /\ proc[p].copy.token \in Tokens /\ Holds(p, proc[p].copy.token)
         /\ ~provider[proc[p].copy.token].rotated /\ ~binding[proc[p].copy.token].rotated
         /\ proc[p].copy.token # item.token
<1>sane. Sane(p)
  BY InvSane
<1>1. /\ lock = p /\ req[p].pc = "idle" /\ req[p] = NoRequest
      /\ proc[p].copy.token \in Tokens
  BY <1>sane DEF InHand, Sane, Client, Serving, Locked, Waits
<1>2. Holds(p, proc[p].copy.token)
  BY DEF Holds
<1>3. ~provider[proc[p].copy.token].rotated /\ ~Known(proc[p].copy.token)
  BY <1>1, <1>2 DEF Inv, NewTokens
<1> QED
  BY <1>1, <1>2, <1>3 DEF Inv, Chains, NoRequest, Known

LEMMA StoreEffect ==
  ASSUME Inv, NEW p \in Clients, NEW pc, NEW cmd, NEW copy, proc[p].pc \in InHand,
         pc \notin InHand, copy.token \in {None, proc[p].copy.token},
         Quiet(p, pc, cmd, copy), LockKept(p), item' = proc[p].copy, Client(p)'
  PROVE  Effect(p)
<1>sane. Sane(p)
  BY InvSane
<1>1. /\ lock = p /\ req[p].issued = None /\ proc[p].copy.token \in Tokens
      /\ Holds(p, proc[p].copy.token) /\ ~binding[proc[p].copy.token].rotated
  BY InHandIsNew
<1>2. ASSUME NEW n \in Tokens
      PROVE  ~Holds(p, n)'
  <2>1. n # None
    BY NoneIsNoToken
  <2> QED
    BY <1>1, <2>1 DEF Holds, Quiet, ProcTo
<1>3. ASSUME NEW n \in Tokens, item'.token = n \/ copy.token = n
      PROVE  Holds(p, n) /\ ~Holds(p, n)'
  <2>1. n # None
    BY NoneIsNoToken
  <2> QED
    BY <1>1, <1>2, <1>3, <2>1
<1> QED
  BY <1>1, <1>3, <1>sane, QuietEffect DEF Sane

LEMMA StoreRotatedEffect ==
  ASSUME Inv, NEW p \in Clients, StoreRotated(p)
  PROVE  Effect(p)
<1>sane. Sane(p)
  BY InvSane
<1>1. /\ proc[p].pc = "store" /\ item' = proc[p].copy /\ Goto(p, "validate")
      /\ UNCHANGED <<binding, provider, req, fresh, lock, commands, losses, failures>>
  BY DEF StoreRotated, At, serverVars
<1>2. ProcTo(p, "validate", proc[p].cmd, proc[p].copy)
  BY <1>1, <1>sane, ProcMoves DEF Sane, ProcPhase
<1>3. Quiet(p, "validate", proc[p].cmd, proc[p].copy)
  BY <1>1, <1>2, <1>sane DEF Quiet, Calm, Sane, TypeOK, ProcPhase
<1>4. Client(p)'
  BY <1>1, <1>2, <1>sane DEF Client, Sane, ProcTo, Locked, InHand, Waits
<1> QED
  BY <1>1, <1>3, <1>4, StoreEffect DEF InHand, LockKept

LEMMA StoreSessionEffect ==
  ASSUME Inv, NEW p \in Clients, StoreSession(p)
  PROVE  Effect(p)
<1>sane. Sane(p)
  BY InvSane
<1> DEFINE stored == [proc[p].copy EXCEPT !.session = TRUE]
<1>1. /\ proc[p].pc = "validate" /\ Release(p)
      /\ UNCHANGED <<binding, provider, req, commands, losses, failures>>
  BY DEF StoreSession, At, serverVars
<1>2. /\ stored \in Item /\ stored.token = item.token /\ item.token # None /\ lock = p
      /\ req[p].pc = "idle"
  BY <1>1, <1>sane, ItemEdits DEF Sane, Client, Locked, InHand, Waits
<1>3. \/ item' = stored /\ fresh' = fresh \cup {stored.token} /\ WithAccess(p, stored)
      \/ End(p) /\ UNCHANGED <<item, fresh>>
  BY DEF StoreSession
<1> HIDE DEF stored
<1>4. CASE item' = stored /\ fresh' = fresh \cup {stored.token} /\ WithAccess(p, stored)
  BY <1>1, <1>2, <1>4, <1>sane, AccessEffect DEF Sane, TypeOK, Unshared, LockKept, Release
<1>5. CASE End(p) /\ UNCHANGED <<item, fresh>>
  BY <1>1, <1>5, <1>sane, EndEffect DEF Sane, TypeOK, Calm, Unshared, Release
<1> QED
  BY <1>3, <1>4, <1>5
LEMMA DeleteOldEffect ==
  ASSUME Inv, NEW p \in Clients, DeleteOld(p)
  PROVE  Effect(p)
<1>sane. Sane(p)
  BY InvSane
<1>1. /\ proc[p].pc = "replace" /\ item' = NoItem /\ Goto(p, "insert")
      /\ UNCHANGED <<binding, provider, req, fresh, lock, commands, losses, failures>>
  BY DEF DeleteOld, At, serverVars
<1>2. ProcTo(p, "insert", proc[p].cmd, proc[p].copy)
  BY <1>1, <1>sane, ProcMoves DEF Sane, ProcPhase
<1>3. Quiet(p, "insert", proc[p].cmd, proc[p].copy)
  BY <1>1, <1>2, <1>sane DEF Quiet, Calm, Sane, TypeOK, ProcPhase
<1>4. Client(p)'
  BY <1>1, <1>2, <1>sane DEF Client, Sane, ProcTo, Locked, InHand, Waits
<1>5. lock = p /\ item' \in Item /\ item'.token = None /\ \A n \in Tokens : item'.token # n
  BY <1>1, InHandIsNew, NothingIsItem, NoneIsNoToken DEF InHand
<1> QED
  BY <1>1, <1>3, <1>4, <1>5, QuietEffect DEF InHand, LockKept

LEMMA InsertEffect ==
  ASSUME Inv, NEW p \in Clients, Insert(p)
  PROVE  Effect(p)
<1>sane. Sane(p)
  BY InvSane
<1>1. /\ proc[p].pc \in {"replace", "insert"} /\ item' = proc[p].copy
      /\ fresh' = fresh \cup {proc[p].copy.token} /\ End(p) /\ Release(p)
      /\ UNCHANGED <<binding, provider, req, commands, losses, failures>>
  BY DEF Insert, At, serverVars
<1>2. ProcTo(p, "idle", None, NoItem)
  BY <1>1, <1>sane, ProcMoves DEF Sane
<1>3. proc[p].copy.token \in Tokens
  BY <1>1, InHandIsNew DEF InHand
<1>4. Quiet(p, "idle", None, NoItem)
  BY <1>1, <1>2, <1>3, <1>sane, NothingIsItem DEF Quiet, Calm, Sane, TypeOK, ProcPhase
<1>5. Client(p)'
  BY <1>2 DEF Client, ProcTo, Locked, InHand, Waits
<1> QED
  BY <1>1, <1>4, <1>5, NothingIsItem, StoreEffect DEF InHand, LockKept, Release

LEMMA ClearEffect ==
  ASSUME Inv, NEW p \in Clients, Clear(p)
  PROVE  Effect(p)
<1>sane. Sane(p)
  BY InvSane
<1>1. /\ proc[p].pc = "clear" /\ item' = NoItem /\ End(p) /\ Release(p)
      /\ UNCHANGED <<binding, provider, req, fresh, commands, losses, failures>>
  BY DEF Clear, At, serverVars
<1>2. lock = p
  BY <1>1, <1>sane DEF Sane, Client, Locked
<1> QED
  BY <1>1, <1>2, <1>sane, NothingIsItem, EndEffect DEF Sane, TypeOK, Calm, Unshared, Release

LEMMA UserInfoEffect ==
  ASSUME Inv, NEW p \in Clients, UserInfo(p)
  PROVE  Effect(p)
<1>sane. Sane(p)
  BY InvSane
<1>1. /\ proc[p].pc = "userinfo"
      /\ UNCHANGED <<Unshared, item, fresh, lock, commands, losses>>
  BY DEF UserInfo, At, serverVars, Unshared
<1>2. CASE Goto(p, "name")
  <2>1. ProcTo(p, "name", proc[p].cmd, proc[p].copy)
    BY <1>2, <1>sane, ProcMoves DEF Sane, ProcPhase
  <2>2. Quiet(p, "name", proc[p].cmd, proc[p].copy)
    BY <1>1, <2>1, <1>sane DEF Quiet, Calm, Sane, TypeOK, ProcPhase, Unshared
  <2>3. Client(p)'
    BY <1>1, <2>1, <1>sane DEF Client, Sane, ProcTo, Locked, InHand, Waits, Unshared
  <2> QED
    BY <1>1, <2>2, <2>3, <1>sane, SimpleEffect DEF LockKept, Sane, InHand
<1>3. CASE End(p)
  BY <1>1, <1>3, <1>sane, EndEffect DEF Sane, TypeOK, Calm, Unshared
<1> QED
  BY <1>2, <1>3 DEF UserInfo

LEMMA NamingEffect ==
  ASSUME Inv, NEW p \in Clients, Naming(p)
  PROVE  Effect(p)
<1>sane. Sane(p)
  BY InvSane
<1> DEFINE subject == Subject(proc[p].copy.token)
           copy == [item EXCEPT !.identity = subject]
<1>1. /\ proc[p].pc = "naming"
      /\ UNCHANGED <<Unshared, item, fresh, commands, losses>>
  BY DEF Naming, At, serverVars, Unshared
<1>2. \/ Keep(p, "nameStore", copy) /\ UNCHANGED lock
      \/ End(p) /\ Release(p)
  BY DEF Naming, NameRead
<1>3. CASE Keep(p, "nameStore", copy) /\ UNCHANGED lock
  <2>1. subject \in Tokens \cup {None}
    BY <1>sane DEF Sane, TypeOK, ServerTypeOK, Binding, Subject
  <2> HIDE DEF subject
  <2>2. copy \in Item /\ copy.token = item.token
    BY <1>sane, <2>1, ItemEdits DEF Sane
  <2> HIDE DEF copy
  <2>3. ProcTo(p, "nameStore", proc[p].cmd, copy)
    BY <1>3, <1>sane, <2>2, ProcMoves DEF Sane, ProcPhase
  <2>4. Quiet(p, "nameStore", proc[p].cmd, copy)
    BY <1>1, <2>2, <2>3, <1>sane DEF Quiet, Calm, Sane, TypeOK, ProcPhase, Unshared
  <2>5. Client(p)'
    BY <1>1, <1>3, <2>2, <2>3, <1>sane DEF Client, Sane, ProcTo, Locked, InHand, Waits, Unshared
  <2> QED
    BY <1>1, <1>3, <2>2, <2>4, <2>5, <1>sane, SimpleEffect DEF LockKept, Sane, InHand
<1>4. CASE End(p) /\ Release(p)
  BY <1>1, <1>4, <1>sane, EndEffect DEF Sane, TypeOK, Calm, Unshared, Release
<1> QED
  BY <1>2, <1>3, <1>4

LEMMA NameStoreEffect ==
  ASSUME Inv, NEW p \in Clients, NameStore(p)
  PROVE  Effect(p)
<1>sane. Sane(p)
  BY InvSane
<1>1. /\ proc[p].pc = "nameStore" /\ item' = proc[p].copy /\ End(p) /\ Release(p)
      /\ UNCHANGED <<Unshared, fresh, commands, losses>>
  BY DEF NameStore, At, serverVars, Unshared
<1>2. item'.token = item.token
  BY <1>1, <1>sane DEF Sane, Client
<1> QED
  BY <1>1, <1>2, <1>sane, EndEffect DEF Sane, TypeOK, Calm, Unshared, Release

LEMMA LossesCount ==
  ASSUME TypeOK, Lose
  PROVE  losses' \in 0 .. MaxLosses /\ failures' = failures /\ ~Calm'
BY BoundsAreNat DEF TypeOK, Lose, Calm

LEMMA DieEffect ==
  ASSUME Inv, NEW p \in Clients, Die(p)
  PROVE  Effect(p)
<1>sane. Sane(p)
  BY InvSane
<1>1. /\ End(p) /\ Release(p) /\ Lose
      /\ UNCHANGED <<binding, provider, req, item, fresh, commands>>
  BY DEF Die, serverVars
<1>2. losses' \in 0 .. MaxLosses /\ failures' = failures /\ ~Calm'
  BY <1>1, <1>sane, LossesCount DEF Sane
<1> QED
  BY <1>1, <1>2, <1>sane, EndEffect DEF Sane, TypeOK, Unshared, Release

LEMMA UnheardEffect ==
  ASSUME Inv, NEW p \in Clients, Unheard(p)
  PROVE  Effect(p)
<1>sane. Sane(p)
  BY InvSane
<1>1. /\ proc[p].pc = "revoking" /\ Goto(p, "clear") /\ Lose
      /\ UNCHANGED <<binding, provider, req, item, fresh, lock, commands>>
  BY DEF Unheard, At, serverVars
<1>2. losses' \in 0 .. MaxLosses /\ failures' = failures /\ ~Calm'
  BY <1>1, <1>sane, LossesCount DEF Sane
<1>3. ProcTo(p, "clear", proc[p].cmd, proc[p].copy)
  BY <1>1, <1>sane, ProcMoves DEF Sane, ProcPhase
<1>4. Quiet(p, "clear", proc[p].cmd, proc[p].copy)
  BY <1>1, <1>2, <1>3, <1>sane DEF Quiet, Sane, TypeOK, ProcPhase
<1>5. Client(p)'
  BY <1>1, <1>3, <1>sane DEF Client, Sane, ProcTo, Locked, InHand, Waits
<1> QED
  BY <1>1, <1>2, <1>4, <1>5, <1>sane, SimpleEffect DEF LockKept, Sane, InHand

\* A session that runs out changes nothing that the invariant looks at.
LEMMA FreshKeeps ==
  ASSUME Inv, fresh' \subseteq Tokens,
         UNCHANGED <<serverVars, item, lock, proc, commands, losses, failures>>
  PROVE  Inv'
<1>same. UNCHANGED <<binding, provider, req, item, lock, proc, commands, losses, failures>>
  BY DEF serverVars
<1>1. TypeOK'
  BY <1>same DEF Inv, TypeOK, ServerTypeOK
<1>2. \A p \in Clients : Client(p)' /\ Serving(p)'
  BY <1>same DEF Inv, Client, Serving
<1>3. NewTokens' /\ Chains' /\ Revocations'
  BY <1>same DEF Inv, NewTokens, Chains, Revocations, Holds, Known, Knows
<1>4. Lossless'
  BY <1>same DEF Inv, Lossless, Replaces, Bound
<1> QED
  BY <1>1, <1>2, <1>3, <1>4 DEF Inv
--------------------------------------------------------------------------------
(* The steps of the server *)

\* A request goes on at the server; no process notices.
Serves(p) ==
  /\ ReqOnly(p) /\ req[p].pc # "idle" /\ req'[p].pc # "idle"
  /\ UNCHANGED <<req[p].kind, req[p].token>>
  /\ UNCHANGED <<item, fresh, lock, proc, commands, losses>>
  /\ failures' \in 0 .. MaxFailures /\ (failures' = MaxFailures => failures = MaxFailures)

LEMMA ServesKeeps ==
  ASSUME Inv, NEW p \in Clients, Serves(p)
  PROVE  /\ binding' \in [Tokens -> Binding] /\ provider' \in [Tokens -> ProviderToken] => TypeOK'
         /\ \A q \in Clients : Client(q)'
         /\ \A n \in Tokens : Known(n)' <=> Known(n)
         /\ \A q \in Clients \ {p}, n \in Tokens : Holds(q, n)' <=> Holds(q, n)
         /\ \A n \in Tokens : Holds(p, n)' <=> req'[p].issued = n
         /\ \A n \in Tokens : Holds(p, n) <=> req[p].issued = n
<1>sane. \A q \in Clients : Sane(q)
  BY InvSane
<1>req. /\ req' \in [Clients -> Request] /\ req[p].pc # "idle" /\ req'[p].pc # "idle"
        /\ UNCHANGED <<req[p].kind, req[p].token>>
        /\ \A q \in Clients \ {p} : req'[q] = req[q]
  BY DEF Serves, ReqOnly
<1>same. UNCHANGED <<item, fresh, lock, proc, commands, losses>>
  BY DEF Serves
<1>1. binding' \in [Tokens -> Binding] /\ provider' \in [Tokens -> ProviderToken] => TypeOK'
  BY <1>req, <1>same DEF Serves, Inv, TypeOK, ServerTypeOK
<1>2. ASSUME NEW q \in Clients
      PROVE  Client(q)'
  <2>1. CASE q = p
    <3>1. Client(p)
      BY <1>sane DEF Sane
    <3> QED
      BY <1>req, <1>same, <2>1, <3>1 DEF Client
  <2>2. CASE q # p
    <3>1. Client(q) /\ req'[q] = req[q]
      BY <1>req, <1>sane, <2>2 DEF Sane
    <3> QED
      BY <1>same, <3>1 DEF Client
  <2> QED
    BY <2>1, <2>2
<1>3. \A q \in Clients : req'[q].token = req[q].token
  BY <1>req
<1>4. \A n \in Tokens : Known(n)' <=> Known(n)
  BY <1>same, <1>3 DEF Known, Knows
<1>5. \A q \in Clients \ {p}, n \in Tokens : Holds(q, n)' <=> Holds(q, n)
  BY <1>same, <1>req DEF Holds
<1>6. proc[p].pc \notin InHand
  BY <1>req, <1>sane DEF Sane, Client, InHand, Waits
<1>7. \A n \in Tokens : (Holds(p, n)' <=> req'[p].issued = n) /\ (Holds(p, n) <=> req[p].issued = n)
  BY <1>same, <1>6 DEF Holds
<1> QED
  BY <1>1, <1>2, <1>4, <1>5, <1>7

Settling == {"familyCheck", "familyRevoke"}

\* A step that changes no table.
LEMMA LookKeeps ==
  ASSUME Inv, NEW p \in Clients, Serves(p), UNCHANGED <<binding, provider>>,
         req'[p].issued = req[p].issued, Serving(p)',
         req'[p].pc \in {"check", "bind"} => req[p].pc \in {"check", "bind"},
         failures' = MaxFailures /\ req[p].pc \in Settling =>
           \/ req'[p].pc \in Settling /\ req'[p].seen = req[p].seen
           \/ ~FamilyWasRevoked(req[p].seen.family),
         Calm' /\ req[p].kind = "refresh" => ~req'[p].seen.rotated,
         Calm' /\ Bound(p) => Bound(p)'
  PROVE  Inv'
<1>same. UNCHANGED <<item, fresh, lock, proc, commands, losses, binding, provider>>
  BY DEF Serves
<1>req. /\ \A q \in Clients \ {p} : req'[q] = req[q]
        /\ req'[p].kind = req[p].kind /\ req'[p].token = req[p].token
  BY DEF Serves, ReqOnly
<1>1. TypeOK'
  BY <1>same, ServesKeeps DEF Inv, TypeOK, ServerTypeOK
<1>2. \A q \in Clients : Client(q)'
  BY ServesKeeps
<1>3. ASSUME NEW q \in Clients
      PROVE  Serving(q)'
  <2>1. CASE q # p
    BY <1>same, <1>req, <2>1 DEF Inv, Serving
  <2> QED
    BY <2>1
<1>4. NewTokens'
  <2>1. \A q \in Clients, n \in Tokens : Holds(q, n)' <=> Holds(q, n)
    BY ServesKeeps
  <2>2. \A n \in Tokens : Known(n)' <=> Known(n)
    BY ServesKeeps
  <2> QED
    BY <1>same, <2>1, <2>2 DEF Inv, NewTokens
<1>5. Chains'
  <2>1. \A q \in Clients : /\ req'[q].pc \in {"check", "bind"} => req[q].pc \in {"check", "bind"}
                           /\ req'[q].kind = req[q].kind /\ req'[q].token = req[q].token
    BY <1>req
  <2> QED
    BY <1>same, <2>1 DEF Inv, Chains
<1>6. Revocations'
  <2> SUFFICES ASSUME failures' = MaxFailures, NEW t \in Tokens, NEW u \in Tokens,
                      binding[t].family # None, binding[t].family = binding[u].family,
                      binding[t].revoked, ~binding[u].revoked
               PROVE  \E q \in Clients : /\ req'[q].pc \in Settling
                                         /\ req'[q].seen.family = binding[t].family
    BY <1>same DEF Revocations, Settling
  <2>1. PICK q \in Clients : req[q].pc \in Settling /\ req[q].seen.family = binding[t].family
    BY DEF Inv, Revocations, Settling, Serves
  <2>2. CASE q # p
    BY <1>req, <2>1, <2>2
  <2>3. CASE q = p
    <3>1. FamilyWasRevoked(req[p].seen.family)
      BY <2>1, <2>3 DEF FamilyWasRevoked, Family
    <3> QED
      BY <2>1, <2>3, <3>1
  <2> QED
    BY <2>2, <2>3
<1>7. Lossless'
  <2> SUFFICES ASSUME Calm'
               PROVE  /\ \A q \in Clients : req'[q].kind = "refresh" =>
                           proc[q].pc = "refreshing" /\ ~req'[q].seen.rotated
                      /\ item.token # None /\ binding[item.token].rotated =>
                           \E q \in Clients : Replaces(q)'
    BY <1>same DEF Lossless, Calm
  <2>1. Calm
    BY <1>same DEF Calm, Serves
  <2>2. \A q \in Clients : req'[q].kind = "refresh" =>
          proc[q].pc = "refreshing" /\ ~req'[q].seen.rotated
    BY <1>req, <2>1 DEF Inv, Lossless, Calm
  <2>3. \A q \in Clients : Replaces(q) => Replaces(q)'
    BY <1>req, <1>same DEF Replaces, Bound
  <2> QED
    BY <2>1, <2>2, <2>3 DEF Inv, Lossless, Calm
<1> QED
  BY <1>1, <1>2, <1>3, <1>4, <1>5, <1>6, <1>7 DEF Inv
\* The request goes on, or is answered, by what it has found.
LEMMA GoesKeeps ==
  ASSUME Inv, NEW p \in Clients, NEW pc \in RequestPhase \ {"idle"}, Goes(p, pc),
         req[p].pc # "idle", UNCHANGED <<binding, provider, item, fresh, lock, proc, commands, losses>>,
         failures' \in 0 .. MaxFailures, failures' = MaxFailures => failures = MaxFailures,
         Serving(p)', pc \in {"check", "bind"} => req[p].pc \in {"check", "bind"},
         failures' = MaxFailures /\ req[p].pc \in Settling =>
           pc \in Settling \/ ~FamilyWasRevoked(req[p].seen.family),
         Calm' /\ Bound(p) => Bound(p)'
  PROVE  Inv'
<1>1. Serves(p) /\ req'[p].pc = pc /\ req'[p].seen = req[p].seen /\ req'[p].issued = req[p].issued
  BY DEF Goes, Serves
<1>2. Calm' /\ req[p].kind = "refresh" => ~req'[p].seen.rotated
  BY <1>1 DEF Inv, Lossless, Calm
<1> QED
  BY <1>1, <1>2, LookKeeps

Served == <<item, fresh, lock, proc, commands, losses, failures>>

\* A refresh that has bound nothing yet presents a token that nobody has rotated.
LEMMA PresentsTheLast ==
  ASSUME Inv, NEW p \in Clients, Calm, req[p].kind = "refresh", ~Bound(p)
  PROVE  ~binding[req[p].token].rotated
<1>1. proc[p].pc = "refreshing" /\ req[p].token = item.token /\ item.token # None /\ lock = p
  BY InvSane DEF Inv, Lossless, Calm, Sane, Client, Locked
<1> SUFFICES ASSUME binding[item.token].rotated
             PROVE  FALSE
  BY <1>1
<1>2. PICK q \in Clients : Replaces(q)
  BY <1>1 DEF Inv, Lossless, Calm
<1>3. lock = q
  BY <1>2, InvSane DEF Replaces, Sane, Client, Locked
<1> QED
  BY <1>1, <1>2, <1>3 DEF Replaces

LEMMA LookupBindingKeeps ==
  ASSUME Inv, NEW p \in Clients, LookupBinding(p), UNCHANGED Served
  PROVE  Inv'
<1>sane. Sane(p)
  BY InvSane
<1> DEFINE seen == binding[req[p].token]
           pending == req[p].pending \ {"binding"}
           new == [req[p] EXCEPT !.pending = pending, !.seen = seen]
<1>1. /\ req[p].pc = "lookup" /\ req' = [req EXCEPT ![p] = new]
      /\ UNCHANGED <<binding, provider>>
  BY DEF LookupBinding
<1>2. req[p].kind # "login" /\ req[p].token \in Tokens /\ req[p].issued = None
  BY <1>1, <1>sane DEF Sane, Serving
<1>3. seen \in Binding
  BY <1>2, <1>sane DEF Sane, TypeOK, ServerTypeOK
<1>4. pending \in SUBSET {"binding", "provider"}
  BY <1>sane DEF Sane, Request
<1>5. seen.family = binding[req[p].token].family /\ (seen.rotated <=> binding[req[p].token].rotated)
  OBVIOUS
<1> HIDE DEF seen, pending
<1>6. /\ new \in Request /\ new.pc = "lookup" /\ new.kind = req[p].kind
      /\ new.token = req[p].token /\ new.seen = seen /\ new.issued = None
  BY <1>1, <1>2, <1>3, <1>4, <1>sane DEF Sane, Request
<1> HIDE DEF new
<1>7. req' \in [Clients -> Request] /\ req'[p] = new /\ \A q \in Clients \ {p} : req'[q] = req[q]
  BY <1>1, <1>6, <1>sane DEF Sane, TypeOK, ServerTypeOK
<1>8. Serves(p)
  BY <1>1, <1>6, <1>7, <1>sane DEF Serves, ReqOnly, Served, Sane, TypeOK
<1>9. Serving(p)'
  <2>1. req[p].token # None
    BY <1>2, NoneIsNoToken
  <2> QED
    BY <1>1, <1>2, <1>5, <1>6, <1>7, <2>1 DEF Serving
<1>10. ~Bound(p)
  BY <1>2 DEF Bound
<1>11. Calm' /\ req[p].kind = "refresh" => ~req'[p].seen.rotated
  <2> SUFFICES ASSUME Calm', req[p].kind = "refresh"
               PROVE  ~req'[p].seen.rotated
    OBVIOUS
  <2>1. ~binding[req[p].token].rotated
    BY <1>10, PresentsTheLast DEF Calm, Served
  <2> QED
    BY <1>5, <1>6, <1>7, <2>1
<1> QED
  BY <1>1, <1>2, <1>6, <1>7, <1>8, <1>9, <1>10, <1>11, LookKeeps DEF Settling

LEMMA LookupProviderKeeps ==
  ASSUME Inv, NEW p \in Clients, LookupProvider(p), UNCHANGED Served
  PROVE  Inv'
<1>sane. Sane(p)
  BY InvSane
<1> DEFINE seen == provider[req[p].token]
           pending == req[p].pending \ {"provider"}
           new == [req[p] EXCEPT !.pending = pending, !.providerSeen = seen]
<1>1. /\ req[p].pc = "lookup" /\ req' = [req EXCEPT ![p] = new]
      /\ UNCHANGED <<binding, provider>>
  BY DEF LookupProvider
<1>2. req[p].kind # "login" /\ req[p].token \in Tokens /\ req[p].issued = None
  BY <1>1, <1>sane DEF Sane, Serving
<1>3. seen \in ProviderToken
  BY <1>2, <1>sane DEF Sane, TypeOK, ServerTypeOK
<1>4. pending \in SUBSET {"binding", "provider"}
  BY <1>sane DEF Sane, Request
<1> HIDE DEF seen, pending
<1>6. /\ new \in Request /\ new.pc = "lookup" /\ new.kind = req[p].kind
      /\ new.token = req[p].token /\ new.seen = req[p].seen /\ new.issued = req[p].issued
  BY <1>1, <1>2, <1>3, <1>4, <1>sane DEF Sane, Request
<1> HIDE DEF new
<1>7. ReqOnly(p) /\ req'[p] = new
  BY <1>1, <1>6, <1>sane DEF Sane, TypeOK, ServerTypeOK, ReqOnly
<1>8. Goes(p, "lookup") /\ "lookup" \in RequestPhase
  BY <1>6, <1>7 DEF Goes, RequestPhase
<1>9. Serving(p)'
  BY <1>1, <1>2, <1>6, <1>7, <1>sane DEF Sane, Serving
<1>10. ~Bound(p)
  BY <1>2 DEF Bound
<1> QED
  BY <1>1, <1>8, <1>9, <1>10, <1>sane, GoesKeeps DEF Settling, Served, Sane, TypeOK

\* A refusal, and a failure of the server.
LEMMA RefusalKeeps ==
  ASSUME Inv, NEW p \in Clients, Answer(p, FALSE), req[p].pc # "idle",
         UNCHANGED <<binding, provider, item, fresh, lock, proc, commands, losses>>,
         failures' \in 0 .. MaxFailures, failures' = MaxFailures => failures = MaxFailures,
         failures' = MaxFailures => req[p].pc \notin Settling \cup {"answered"}
  PROVE  Inv'
<1>sane. Sane(p)
  BY InvSane
<1>1. Goes(p, "answered") /\ req'[p].ok = FALSE /\ "answered" \in RequestPhase
  BY <1>sane, ReqMoves DEF Sane, RequestPhase
<1>2. Serving(p)'
  BY <1>1, <1>sane DEF Sane, Serving, Goes
<1>3. Calm' => ~Bound(p)
  BY DEF Calm, Bound, Settling
<1> QED
  BY <1>1, <1>2, <1>3, GoesKeeps DEF Settling

LEMMA ServerFailsKeeps ==
  ASSUME Inv, NEW p \in Clients, ServerFails(p)
  PROVE  Inv'
<1>1. failures' \in 0 .. MaxFailures /\ failures' # MaxFailures
  BY BoundsAreNat DEF Inv, TypeOK, ServerFails
<1> QED
  BY <1>1, RefusalKeeps DEF ServerFails

LEMMA DecideKeeps ==
  ASSUME Inv, NEW p \in Clients, Decide(p), UNCHANGED Served
  PROVE  Inv'
<1>sane. Sane(p)
  BY InvSane
<1>1. req[p].pc = "lookup" /\ req[p].issued = None /\ req[p].kind # "login"
  BY <1>sane DEF Decide, Sane, Serving
<1>2. UNCHANGED <<binding, provider>> /\ failures' \in 0 .. MaxFailures
      /\ (failures' = MaxFailures => failures = MaxFailures)
  BY <1>sane DEF Decide, Served, Sane, TypeOK
<1>3. ~Bound(p)
  BY <1>1 DEF Bound
<1>goes. ASSUME NEW pc \in {"familyRevoke", "provider", "answered"}, Goes(p, pc),
                pc \in {"familyRevoke", "provider"} => req[p].seen.family # None,
                pc = "answered" => req[p].kind \in {"exchange", "revoke"}
         PROVE  Inv'
  <2>1. pc \in RequestPhase \ {"idle"}
    BY DEF RequestPhase
  <2>2. Serving(p)'
    BY <1>goes, <1>1, <1>2, <1>sane DEF Sane, Serving, Goes
  <2> QED
    BY <1>goes, <1>1, <1>2, <1>3, <2>1, <2>2, GoesKeeps DEF Served, Settling
<1>4. CASE ReuseSeen(p) /\ To(p, "familyRevoke")
  <2>1. Goes(p, "familyRevoke")
    BY <1>4, <1>sane, ReqMoves DEF Sane, RequestPhase
  <2> QED
    BY <1>4, <1>goes, <2>1 DEF ReuseSeen
<1>5. CASE Acceptable(p) /\ req[p].kind = "exchange" /\ Answer(p, TRUE)
  <2>1. Goes(p, "answered")
    BY <1>5, <1>sane, ReqMoves DEF Sane
  <2> QED
    BY <1>5, <1>goes, <2>1
<1>6. CASE Acceptable(p) /\ To(p, "provider")
  <2>1. Goes(p, "provider")
    BY <1>6, <1>sane, ReqMoves DEF Sane, RequestPhase
  <2> QED
    BY <1>6, <1>goes, <2>1 DEF Acceptable
<1>7. CASE req[p].kind = "revoke" /\ Answer(p, TRUE)
  <2>1. Goes(p, "answered")
    BY <1>7, <1>sane, ReqMoves DEF Sane
  <2> QED
    BY <1>7, <1>goes, <2>1
<1>8. CASE Answer(p, FALSE)
  BY <1>1, <1>2, <1>8, RefusalKeeps DEF Served, Settling
<1> QED
  BY <1>4, <1>5, <1>6, <1>7, <1>8 DEF Decide

LEMMA CheckKeeps ==
  ASSUME Inv, NEW p \in Clients, Check(p), UNCHANGED Served
  PROVE  Inv'
<1>sane. Sane(p)
  BY InvSane
<1>1. req[p].pc = "check" /\ UNCHANGED <<binding, provider>> /\ failures' \in 0 .. MaxFailures
      /\ (failures' = MaxFailures => failures = MaxFailures)
  BY <1>sane DEF Check, Served, Sane, TypeOK
<1>2. CASE To(p, "bind")
  <2>1. Goes(p, "bind") /\ "bind" \in RequestPhase
    BY <1>2, <1>sane, ReqMoves DEF Sane, RequestPhase
  <2>2. Serving(p)'
    BY <1>1, <2>1, <1>sane DEF Sane, Serving, Goes
  <2>3. ~Bound(p)
    BY <1>1 DEF Bound
  <2> QED
    BY <1>1, <2>1, <2>2, <2>3, GoesKeeps DEF Served, Settling
<1>3. CASE Answer(p, FALSE)
  BY <1>1, <1>3, RefusalKeeps DEF Served, Settling
<1> QED
  BY <1>2, <1>3 DEF Check

LEMMA FamilyCheckKeeps ==
  ASSUME Inv, NEW p \in Clients, FamilyCheck(p), UNCHANGED Served
  PROVE  Inv'
<1>sane. Sane(p)
  BY InvSane
<1>1. req[p].pc = "familyCheck" /\ UNCHANGED <<binding, provider>> /\ failures' \in 0 .. MaxFailures
      /\ (failures' = MaxFailures => failures = MaxFailures)
  BY <1>sane DEF FamilyCheck, Served, Sane, TypeOK
<1>2. req[p].kind = "refresh" /\ req[p].issued # None
  BY <1>1, <1>sane DEF Sane, Serving
<1>3. CASE To(p, "familyRevoke")
  <2>1. Goes(p, "familyRevoke") /\ "familyRevoke" \in RequestPhase
    BY <1>3, <1>sane, ReqMoves DEF Sane, RequestPhase
  <2>2. Serving(p)' /\ Bound(p)'
    BY <1>1, <1>2, <2>1, <1>sane DEF Sane, Serving, Goes, Bound
  <2> QED
    BY <1>1, <2>1, <2>2, GoesKeeps DEF Served, Settling
<1>4. CASE ~FamilyWasRevoked(req[p].seen.family) /\ Answer(p, TRUE)
  <2>1. Goes(p, "answered") /\ req'[p].ok = TRUE /\ "answered" \in RequestPhase
    BY <1>4, <1>sane, ReqMoves DEF Sane, RequestPhase
  <2>2. Serving(p)' /\ Bound(p)'
    BY <1>1, <1>2, <2>1, <1>sane DEF Sane, Serving, Goes, Bound
  <2> QED
    BY <1>1, <1>4, <2>1, <2>2, GoesKeeps DEF Served, Settling
<1> QED
  BY <1>3, <1>4 DEF FamilyCheck
\* A step of the library: it issues a token nobody knows and rotates the one presented, or
\* revokes that one.
LEMMA LibraryKeeps ==
  ASSUME Inv, NEW p \in Clients, Serves(p), UNCHANGED <<binding, failures>>,
         req[p].pc = "provider", req'[p].seen = req[p].seen,
         provider' \in [Tokens -> ProviderToken],
         \A m \in Tokens : provider[m].issued => provider'[m].issued,
         \A m \in Tokens : provider[m].issued /\ provider[m].rotated => provider'[m].rotated,
         \A m \in Tokens : provider[m].issued /\ provider'[m].rotated =>
           provider[m].rotated \/ m = req[p].token,
         \/ /\ req'[p].pc = "familyRevoke" /\ req[p].kind = "revoke" /\ req'[p].issued = None
         \/ /\ req'[p].pc = "check" /\ req[p].kind \in {"login", "refresh"}
            /\ req'[p].issued \in Tokens /\ ~provider[req'[p].issued].issued
            /\ provider'[req'[p].issued].issued /\ ~provider'[req'[p].issued].rotated
            /\ req[p].kind = "refresh" =>
                 /\ provider[req[p].token].issued /\ ~provider[req[p].token].rotated
                 /\ provider'[req[p].token].rotated
  PROVE  Inv'
<1>sane. \A q \in Clients : Sane(q)
  BY InvSane
<1>same. UNCHANGED <<item, fresh, lock, proc, commands, losses, binding, failures>>
  BY DEF Serves
<1>req. /\ \A q \in Clients \ {p} : req'[q] = req[q]
        /\ req'[p].kind = req[p].kind /\ req'[p].token = req[p].token
        /\ req'[p].pc \in {"familyRevoke", "check"}
  BY DEF Serves, ReqOnly
<1> DEFINE n == req'[p].issued
<1>none. n # None <=> req'[p].pc = "check"
  BY NoneIsNoToken
<1>0. /\ ~Bound(p) /\ req[p].issued = None
  BY <1>sane DEF Bound, Sane, Serving
<1>n. ASSUME req'[p].pc = "check"
      PROVE  /\ n \in Tokens /\ ~provider[n].issued /\ ~Known(n) /\ binding[n] = Unbound
             /\ \A q \in Clients : ~Holds(q, n)
  <2>1. n \in Tokens /\ ~provider[n].issued
    BY <1>n
  <2> QED
    BY <2>1 DEF Inv, NewTokens, Chains
<1>t. ASSUME req[p].kind = "refresh", req'[p].pc = "check"
      PROVE  /\ req[p].token \in Tokens /\ ~binding[req[p].token].rotated
             /\ \A q \in Clients : req[q].pc \in {"check", "bind"} /\ req[q].kind = "refresh" =>
                  req[q].token # req[p].token
  <2>1. req[p].token \in Tokens /\ ~provider[req[p].token].rotated
    BY <1>t, <1>sane DEF Sane, Serving
  <2> QED
    BY <1>sane, <2>1 DEF Inv, Chains, Sane, Serving
<1>1. TypeOK'
  <2>1. binding' \in [Tokens -> Binding]
    BY <1>same DEF Inv, TypeOK, ServerTypeOK
  <2> QED
    BY <2>1, ServesKeeps
<1>2. \A q \in Clients : Client(q)'
  BY ServesKeeps
<1>3. ASSUME NEW q \in Clients
      PROVE  Serving(q)'
  <2>1. CASE q # p
    <3>1. Serving(q) /\ req'[q] = req[q] /\ req[q].token \in Tokens \cup {None}
      BY <1>req, <1>sane, <2>1 DEF Sane
    <3>2. req[q].kind = "refresh" =>
            req[q].token \in Tokens /\ provider[req[q].token].issued
      BY <3>1 DEF Serving, Inv, NewTokens, Known, Knows
    <3> QED
      BY <1>same, <3>1, <3>2 DEF Serving
  <2>2. CASE q = p
    <3>1. Serving(p)
      BY <1>sane DEF Sane
    <3>2. req'[p].pc = "check" => n # None /\ binding'[n] = Unbound
      BY <1>same, <1>none, <1>n
    <3>3. req'[p].pc = "check" /\ req'[p].kind = "refresh" =>
            ~binding'[req'[p].token].rotated /\ provider'[req'[p].token].rotated
      BY <1>same, <1>req, <1>t
    <3>4. req'[p].kind \notin {"login", "refresh"} => req'[p].issued = None
      BY <1>req
    <3>5. /\ req'[p].kind = "login" <=> req'[p].token = None
          /\ req'[p].kind = "login" => req'[p].pc = "check"
          /\ req'[p].seen.family # None =>
               req'[p].token # None /\ binding'[req'[p].token].family = req'[p].seen.family
          /\ req'[p].kind # "login" => req'[p].seen.family # None
      BY <1>same, <1>req, <3>1 DEF Serving
    <3> QED
      BY <1>req, <2>2, <3>2, <3>3, <3>4, <3>5 DEF Serving
  <2> QED
    BY <2>1, <2>2
<1>4. NewTokens'
  <2>1. ASSUME NEW q \in Clients \ {p}, NEW m \in Tokens, Holds(q, m)'
        PROVE  /\ provider'[m].issued /\ ~provider'[m].rotated /\ ~Known(m)' /\ n # m
               /\ \A r \in Clients \ {p} : Holds(r, m)' => r = q
    <3>1. /\ provider[m].issued /\ ~provider[m].rotated /\ ~Known(m)
          /\ \A r \in Clients : Holds(r, m) => r = q
      BY <2>1, ServesKeeps DEF Inv, NewTokens
    <3>2. m # req[p].token
      BY <3>1 DEF Known, Knows
    <3>3. n # m
      BY <1>none, <1>n, <3>1, NoneIsNoToken, <1>req
    <3>4. ~Known(m)' /\ \A r \in Clients \ {p} : Holds(r, m)' => r = q
      BY <3>1, ServesKeeps
    <3> QED
      BY <3>1, <3>2, <3>3, <3>4
  <2>2. ASSUME NEW m \in Tokens, Holds(p, m)'
        PROVE  /\ provider'[m].issued /\ ~provider'[m].rotated /\ ~Known(m)'
               /\ \A r \in Clients \ {p} : ~Holds(r, m)'
    <3>1. m = n /\ req'[p].pc = "check"
      BY <1>none, <2>2, ServesKeeps, NoneIsNoToken
    <3>2. /\ ~Known(m) /\ \A q \in Clients : ~Holds(q, m)
      BY <1>n, <3>1
    <3>3. /\ ~Known(m)' /\ \A r \in Clients \ {p} : ~Holds(r, m)'
      BY <3>2, ServesKeeps
    <3> QED
      BY <3>1, <3>3
  <2>3. ASSUME NEW m \in Tokens, Known(m)' \/ binding'[m].family # None
        PROVE  provider'[m].issued
    <3>1. Known(m) \/ binding[m].family # None
      BY <1>same, <2>3, ServesKeeps
    <3> QED
      BY <3>1 DEF Inv, NewTokens
  <2>4. ASSUME NEW q \in Clients, NEW m \in Tokens, Holds(q, m)'
        PROVE  /\ provider'[m].issued /\ ~provider'[m].rotated /\ ~Known(m)'
               /\ \A r \in Clients : Holds(r, m)' => r = q
    <3>1. Holds(p, m)' => n = m
      BY ServesKeeps
    <3> QED
      BY <2>1, <2>2, <2>4, <3>1
  <2> QED
    BY <2>3, <2>4 DEF NewTokens
<1>5. Chains'
  <2>1. \A t \in Tokens : binding[t].rotated => provider'[t].rotated
    BY DEF Inv, Chains, NewTokens, Unbound
  <2>2. ASSUME NEW q \in Clients, NEW r \in Clients,
               req'[q].pc \in {"check", "bind"}, req'[r].pc \in {"check", "bind"},
               req'[q].kind = "refresh", req'[q].token = req'[r].token
        PROVE  q = r
    <3>1. req'[r].kind = "refresh"
      BY <1>3, <2>2, InvSane, <1>1 DEF Serving, TypeOK, ServerTypeOK, Request, Kinds
    <3>2. CASE q # p /\ r # p
      BY <1>req, <2>2, <3>2 DEF Inv, Chains
    <3>3. CASE q = p /\ r # p
      BY <1>req, <1>t, <2>2, <3>1, <3>3
    <3>4. CASE q # p /\ r = p
      BY <1>req, <1>t, <2>2, <3>1, <3>4
    <3> QED
      BY <3>2, <3>3, <3>4
  <2> QED
    BY <1>same, <2>1, <2>2 DEF Inv, Chains
<1>6. Revocations'
  <2>1. \A q \in Clients : req[q].pc \in {"familyCheck", "familyRevoke"} => req'[q] = req[q]
    BY <1>req
  <2> QED
    BY <1>same, <2>1 DEF Inv, Revocations
<1>7. Lossless'
  <2>1. \A q \in Clients : Replaces(q) => Replaces(q)'
    BY <1>0, <1>req, <1>same DEF Replaces, Bound
  <2>2. \A q \in Clients : req'[q].kind = req[q].kind /\ req'[q].seen = req[q].seen
    BY <1>req
  <2> QED
    BY <1>same, <2>1, <2>2 DEF Inv, Lossless
<1> QED
  BY <1>1, <1>2, <1>3, <1>4, <1>5, <1>6, <1>7 DEF Inv

LEMMA AtProviderKeeps ==
  ASSUME Inv, NEW p \in Clients, AtProvider(p), UNCHANGED Served
  PROVE  Inv'
<1>sane. Sane(p)
  BY InvSane
<1> DEFINE t == req[p].token
<1>1. /\ req[p].pc = "provider" /\ UNCHANGED binding /\ failures' \in 0 .. MaxFailures
      /\ (failures' = MaxFailures => failures = MaxFailures) /\ UNCHANGED failures
  BY <1>sane DEF AtProvider, Served, Sane, TypeOK
<1>2. ASSUME req[p].kind \in {"login", "refresh"},
             req[p].kind = "refresh" =>
               provider[t].issued /\ ~provider[t].rotated /\ ~provider[t].revoked,
             NEW n \in Tokens, ~provider[n].issued,
             provider' = [u \in Tokens |->
                     CASE u = n -> [Unissued EXCEPT !.issued = TRUE]
                       [] u = t -> [provider[u] EXCEPT !.rotated = TRUE]
                       [] OTHER -> provider[u]],
             req' = [req EXCEPT ![p].pc = "check", ![p].issued = n]
      PROVE  Inv'
  <2> DEFINE fresh_ == [Unissued EXCEPT !.issued = TRUE]
             spent(x) == [x EXCEPT !.rotated = TRUE]
             new == [req[p] EXCEPT !.pc = "check", !.issued = n]
  <2>1. fresh_ \in ProviderToken /\ fresh_.issued /\ ~fresh_.rotated
    BY DEF Unissued, ProviderToken
  <2>2. ASSUME NEW x \in ProviderToken
        PROVE  spent(x).rotated
    BY Zenon DEF ProviderToken
  <2>3. ASSUME NEW x \in ProviderToken
        PROVE  spent(x) \in ProviderToken /\ (spent(x).issued <=> x.issued)
    BY DEF ProviderToken
  <2> HIDE DEF fresh_, spent
  <2>4. /\ provider' = [u \in Tokens |-> CASE u = n -> fresh_
                                           [] u = t -> spent(provider[u])
                                           [] OTHER -> provider[u]]
        /\ provider \in [Tokens -> ProviderToken]
    BY <1>2, <1>sane DEF fresh_, spent, Sane, TypeOK, ServerTypeOK
  <2>5. /\ provider' \in [Tokens -> ProviderToken] /\ provider'[n] = fresh_
        /\ \A u \in Tokens \ {n} : provider'[u] = IF u = t THEN spent(provider[u]) ELSE provider[u]
    <3> DEFINE becomes(u) == CASE u = n -> fresh_ [] u = t -> spent(provider[u]) [] OTHER -> provider[u]
    <3>1. provider' = [u \in Tokens |-> becomes(u)]
      BY <2>4
    <3>2. \A u \in Tokens : becomes(u) \in ProviderToken
      BY <2>1, <2>3, <2>4
    <3>0. n # t
      BY <1>2, <1>sane, NoneIsNoToken DEF Sane, Serving
    <3>3. becomes(n) = fresh_
      BY <3>0
    <3>4. \A u \in Tokens \ {n} : becomes(u) = IF u = t THEN spent(provider[u]) ELSE provider[u]
      OBVIOUS
    <3> HIDE DEF becomes, t
    <3> QED
      BY <3>1, <3>2, <3>3, <3>4
  <2>6. /\ new \in Request /\ new.pc = "check" /\ new.kind = req[p].kind
        /\ new.token = req[p].token /\ new.seen = req[p].seen /\ new.issued = n
    BY <1>sane DEF Sane, Request, RequestPhase
  <2>7. req' = [req EXCEPT ![p] = new]
    BY <1>2
  <2> HIDE DEF new
  <2>8. ReqOnly(p) /\ req'[p] = new
    BY <2>6, <2>7, <1>sane DEF Sane, TypeOK, ServerTypeOK, ReqOnly
  <2>9. Serves(p)
    BY <1>1, <2>6, <2>8 DEF Serves, Served
  <2>10. /\ \A m \in Tokens : provider[m].issued => provider'[m].issued
         /\ \A m \in Tokens : provider[m].issued /\ provider[m].rotated => provider'[m].rotated
         /\ \A m \in Tokens : provider[m].issued /\ provider'[m].rotated =>
              provider[m].rotated \/ m = t
    <3> SUFFICES ASSUME NEW m \in Tokens
                 PROVE  /\ provider[m].issued => provider'[m].issued
                        /\ provider[m].issued /\ provider[m].rotated => provider'[m].rotated
                        /\ provider[m].issued /\ provider'[m].rotated =>
                             provider[m].rotated \/ m = t
      OBVIOUS
    <3>1. provider[m] \in ProviderToken
      BY <2>4
    <3>2. CASE m = n
      BY <1>2, <3>2
    <3>3. CASE m # n /\ m = t
      BY <2>2, <2>3, <2>5, <3>1, <3>3
    <3>4. CASE m # n /\ m # t
      BY <2>5, <3>4
    <3> QED
      BY <3>2, <3>3, <3>4
  <2>11. req[p].kind = "refresh" => provider'[t].rotated
    <3> SUFFICES ASSUME req[p].kind = "refresh"
                 PROVE  provider'[t].rotated
      OBVIOUS
    <3>1. t \in Tokens \ {n} /\ provider[t] \in ProviderToken
      BY <1>2, <1>sane, <2>4 DEF Sane, Serving
    <3> QED
      BY <2>2, <2>5, <3>1
  <2> HIDE DEF t
  <2>12. /\ req'[p].pc = "check" /\ req'[p].issued = n /\ req'[p].seen = req[p].seen
         /\ provider'[n].issued /\ ~provider'[n].rotated
    BY <2>1, <2>5, <2>6, <2>8
  <2> QED
    BY <1>1, <1>2, <2>5, <2>9, <2>10, <2>11, <2>12, LibraryKeeps DEF t
<1>3. ASSUME req[p].kind = "refresh", To(p, "familyRevoke"), UNCHANGED provider
      PROVE  Inv'
  <2>1. Goes(p, "familyRevoke") /\ "familyRevoke" \in RequestPhase
    BY <1>3, <1>sane, ReqMoves DEF Sane, RequestPhase
  <2>2. Serving(p)'
    BY <1>1, <1>3, <2>1, <1>sane DEF Sane, Serving, Goes
  <2>3. ~Bound(p)
    BY <1>1, <1>sane DEF Bound, Sane, Serving
  <2> QED
    BY <1>1, <1>3, <2>1, <2>2, <2>3, GoesKeeps DEF Served, Settling
<1>4. ASSUME req[p].kind = "revoke", provider' = [provider EXCEPT ![t].revoked = TRUE],
             To(p, "familyRevoke")
      PROVE  Inv'
  <2> DEFINE gone(x) == [x EXCEPT !.revoked = TRUE]
  <2>1. ASSUME NEW x \in ProviderToken
        PROVE  gone(x) \in ProviderToken /\ gone(x).issued = x.issued /\ gone(x).rotated = x.rotated
    BY DEF ProviderToken
  <2>2. provider' = [provider EXCEPT ![t] = gone(provider[t])]
    BY <1>4
  <2> HIDE DEF gone
  <2>3. t \in Tokens /\ provider \in [Tokens -> ProviderToken]
    BY <1>4, <1>sane DEF Sane, Serving, TypeOK, ServerTypeOK
  <2>4. provider' \in [Tokens -> ProviderToken]
    BY <2>1, <2>2, <2>3
  <2>5. \A m \in Tokens : /\ provider'[m].issued = provider[m].issued
                          /\ provider'[m].rotated = provider[m].rotated
    <3> TAKE m \in Tokens
    <3>1. CASE m = t
      BY <2>1, <2>2, <2>3, <3>1
    <3>2. CASE m # t
      BY <2>2, <2>3, <3>2
    <3> QED
      BY <3>1, <3>2
  <2>6. Goes(p, "familyRevoke")
    BY <1>4, <1>sane, ReqMoves DEF Sane, RequestPhase
  <2>7. Serves(p) /\ req'[p].issued = None /\ req'[p].seen = req[p].seen
        /\ req'[p].pc = "familyRevoke"
    BY <1>1, <2>6, <1>sane DEF Serves, Goes, Served, Sane, Serving
  <2> QED
    BY <1>1, <1>4, <2>4, <2>5, <2>7, LibraryKeeps
<1>5. ASSUME Answer(p, FALSE), UNCHANGED provider
      PROVE  Inv'
  BY <1>1, <1>5, RefusalKeeps DEF Served, Settling
<1> QED
  BY <1>2, <1>3, <1>4, <1>5 DEF AtProvider
\* The transaction of Bind: the issued token joins the family of the one presented, which is
\* rotated, or starts a family.
LEMMA BindingKeeps ==
  ASSUME Inv, NEW p \in Clients, Serves(p), UNCHANGED <<provider, failures>>,
         req[p].pc = "bind", req'[p].seen = req[p].seen, req'[p].issued = req[p].issued,
         NEW f \in Tokens, binding' \in [Tokens -> Binding],
         binding'[req[p].issued].family = f,
         ~binding'[req[p].issued].rotated, ~binding'[req[p].issued].revoked,
         \A m \in Tokens \ {req[p].issued, req[p].token} : binding'[m] = binding[m],
         \/ /\ req[p].kind = "refresh" /\ req'[p].pc = "familyCheck" /\ f = req[p].seen.family
            /\ binding'[req[p].token].family = binding[req[p].token].family
            /\ binding'[req[p].token].revoked = binding[req[p].token].revoked
            /\ binding'[req[p].token].rotated
         \/ /\ req[p].kind = "login" /\ req'[p].pc = "answered" /\ f = req[p].issued
  PROVE  Inv'
<1> DEFINE n == req[p].issued
           t == req[p].token
<1>sane. \A q \in Clients : Sane(q)
  BY InvSane
<1>same. UNCHANGED <<item, fresh, lock, proc, commands, losses, provider, failures>>
  BY DEF Serves
<1>req. /\ \A q \in Clients \ {p} : req'[q] = req[q]
        /\ req'[p].kind = req[p].kind /\ req'[p].token = req[p].token
  BY DEF Serves, ReqOnly
<1>n. /\ n \in Tokens /\ binding[n] = Unbound /\ ~Known(n) /\ provider[n].issued
      /\ \A q \in Clients \ {p} : req[q].issued # n
  <2>1. n \in Tokens /\ binding[n] = Unbound
    BY <1>sane DEF Sane, Serving
  <2>2. Holds(p, n)
    BY DEF Holds
  <2>3. \A q \in Clients : req[q].issued = n => Holds(q, n)
    BY DEF Holds
  <2> QED
    BY <2>1, <2>2, <2>3 DEF Inv, NewTokens
<1>t. ASSUME req[p].kind = "refresh"
      PROVE  /\ t \in Tokens /\ t # n /\ Known(t) /\ binding[t].family = f
             /\ ~binding[t].rotated /\ provider[t].rotated
  BY <1>t, <1>n, <1>sane DEF Sane, Serving, Unbound, Known, Knows
<1>l. ASSUME req[p].kind = "login"
      PROVE  t = None
  BY <1>l, <1>sane DEF Sane, Serving
<1>kind. req[p].kind \in {"login", "refresh"}
  OBVIOUS
<1>0. ~Bound(p) /\ proc[p].pc # "store"
  BY <1>sane DEF Bound, Sane, Client, Waits
\* What the transaction makes of each row.
<1>rows. ASSUME NEW m \in Tokens
         PROVE  /\ m # n => /\ binding'[m].family = binding[m].family
                            /\ binding'[m].revoked = binding[m].revoked
                            /\ binding[m].rotated => binding'[m].rotated
                            /\ binding'[m].rotated => binding[m].rotated \/ (m = t /\ t # None)
                /\ m # n /\ m # t => binding'[m] = binding[m]
                /\ binding[m].family # None => m # n
  <2>1. binding[m].family # None => m # n
    BY <1>n DEF Unbound
  <2>2. CASE m \notin {n, t}
    BY <2>1, <2>2
  <2>3. CASE m = n
    BY <2>1, <2>3
  <2>4. CASE m = t /\ m # n
    BY <1>kind, <1>t, <1>l, <2>1, <2>4, NoneIsNoToken
  <2> QED
    BY <2>2, <2>3, <2>4
<1>starts. ASSUME req[p].kind = "login", NEW m \in Tokens, binding[m].family = f
           PROVE  FALSE
  <2>1. binding[n].family = n
    BY <1>starts, <1>n, NoneIsNoToken DEF Inv, Chains
  <2> QED
    BY <1>n, <2>1, NoneIsNoToken DEF Unbound
<1> HIDE DEF n, t
<1>nt. n = req[p].issued /\ t = req[p].token
  BY DEF n, t
<1>1. TypeOK'
  <2>1. provider' \in [Tokens -> ProviderToken]
    BY <1>same DEF Inv, TypeOK, ServerTypeOK
  <2> QED
    BY <2>1, ServesKeeps
<1>2. \A q \in Clients : Client(q)'
  BY ServesKeeps
<1>3. ASSUME NEW q \in Clients
      PROVE  Serving(q)'
  <2>1. CASE q # p
    <3>1. Serving(q) /\ req'[q] = req[q] /\ req[q].token \in Tokens \cup {None}
          /\ req[q].issued \in Tokens \cup {None}
      BY <1>req, <1>sane, <2>1 DEF Sane
    <3>2. req[q].seen.family # None => binding'[req[q].token].family = req[q].seen.family
      BY <3>1, <1>rows DEF Serving
    <3>3. req[q].pc \in {"check", "bind"} => binding'[req[q].issued] = Unbound
      <4> SUFFICES ASSUME req[q].pc \in {"check", "bind"}
                   PROVE  binding'[req[q].issued] = Unbound
        OBVIOUS
      <4>1. req[q].issued \in Tokens /\ req[q].issued # n /\ binding[req[q].issued] = Unbound
        BY <1>n, <2>1, <3>1 DEF Serving
      <4>2. req[q].issued # t
        <5>1. Holds(q, req[q].issued)
          BY DEF Holds
        <5>2. ~Known(req[q].issued)
          BY <4>1, <5>1 DEF Inv, NewTokens
        <5> QED
          BY <1>nt, <5>2 DEF Known, Knows
      <4> QED
        BY <1>rows, <4>1, <4>2
    <3>4. req[q].pc \in {"check", "bind"} /\ req[q].kind = "refresh" =>
            ~binding'[req[q].token].rotated
      <4> SUFFICES ASSUME req[q].pc \in {"check", "bind"}, req[q].kind = "refresh"
                   PROVE  ~binding'[req[q].token].rotated
        OBVIOUS
      <4>1. req[q].token \in Tokens /\ ~binding[req[q].token].rotated
        BY <3>1 DEF Serving
      <4>2. req[q].token # n
        BY <1>n DEF Known, Knows
      <4>3. req[q].token # t
        BY <1>nt, <2>1 DEF Inv, Chains
      <4> QED
        BY <1>rows, <4>1, <4>2, <4>3
    <3> QED
      BY <1>same, <3>1, <3>2, <3>3, <3>4 DEF Serving
  <2>2. CASE q = p
    <3>1. Serving(p)
      BY <1>sane DEF Sane
    <3>2. req[p].seen.family # None => binding'[t].family = req[p].seen.family
      BY <3>1, <1>rows, <1>nt, <1>kind, <1>t, <1>l DEF Serving
    <3> QED
      BY <1>req, <1>nt, <1>n, <2>2, <3>1, <3>2 DEF Serving
  <2> QED
    BY <2>1, <2>2
<1>4. NewTokens'
  <2>1. \A q \in Clients, m \in Tokens : Holds(q, m)' <=> Holds(q, m)
    BY ServesKeeps
  <2>2. \A m \in Tokens : Known(m)' <=> Known(m)
    BY ServesKeeps
  <2>3. \A m \in Tokens : binding'[m].family # None => provider[m].issued
    BY <1>n, <1>rows DEF Inv, NewTokens
  <2> QED
    BY <1>same, <2>1, <2>2, <2>3 DEF Inv, NewTokens
<1>5. Chains'
  <2>0. binding'[n].family = f /\ ~binding'[n].rotated
    BY <1>nt
  <2>1. ASSUME NEW a \in Tokens, NEW b \in Tokens, binding'[a].family # None,
               binding'[a].family = binding'[b].family, ~binding'[a].rotated, ~binding'[b].rotated
        PROVE  a = b
    <3>1. ASSUME NEW m \in Tokens, m # n, binding[m].family = f
          PROVE  binding'[m].rotated
      <4>1. req[p].kind = "refresh"
        BY <1>kind, <1>starts, <3>1
      <4>2. CASE m = t
        BY <4>1, <4>2, <1>nt, <1>kind
      <4>3. CASE m # t
        <5>1. binding[m].rotated
          BY <1>t, <3>1, <4>1, <4>3, NoneIsNoToken DEF Inv, Chains
        <5> QED
          BY <1>rows, <3>1, <5>1
      <4> QED
        BY <4>2, <4>3
    <3>2. CASE a = n \/ b = n
      BY <1>rows, <2>0, <2>1, <3>1, <3>2
    <3>3. CASE a # n /\ b # n
      BY <1>rows, <2>1, <3>3 DEF Inv, Chains
    <3> QED
      BY <3>2, <3>3
  <2>2. ASSUME NEW a \in Tokens
        PROVE  /\ binding'[a].family # None =>
                    binding'[binding'[a].family].family = binding'[a].family
               /\ binding'[a].family = None => binding'[a] = Unbound
               /\ binding'[a].rotated => provider[a].rotated
    <3>1. CASE a = n
      <4>1. binding'[f].family = f
        <5>1. CASE req[p].kind = "login"
          BY <1>nt, <2>0, <5>1
        <5>2. CASE req[p].kind = "refresh"
          <6>1. binding[f].family = f
            BY <1>t, <5>2, NoneIsNoToken DEF Inv, Chains
          <6> QED
            BY <1>rows, <6>1, NoneIsNoToken
        <5> QED
          BY <1>kind, <5>1, <5>2
      <4> QED
        BY <2>0, <3>1, <4>1, NoneIsNoToken
    <3>2. CASE a # n
      <4>1. /\ binding[a].family # None => binding[binding[a].family].family = binding[a].family
            /\ binding[a].family = None => binding[a] = Unbound
            /\ binding[a].rotated => provider[a].rotated
            /\ binding[a].family \in Tokens \cup {None}
        BY DEF Inv, Chains, TypeOK, ServerTypeOK, Binding
      <4>2. binding'[a].family # None =>
              binding'[binding'[a].family].family = binding'[a].family
        BY <1>rows, <3>2, <4>1
      <4>3. binding'[a].family = None => binding'[a] = Unbound
        <5> SUFFICES ASSUME binding[a].family = None
                     PROVE  binding'[a] = binding[a]
          BY <1>rows, <3>2, <4>1
        <5>1. a # t
          BY <1>kind, <1>t, <1>l, NoneIsNoToken
        <5> QED
          BY <1>rows, <3>2, <5>1
      <4>4. binding'[a].rotated => provider[a].rotated
        BY <1>rows, <1>kind, <1>t, <1>l, <3>2, <4>1
      <4> QED
        BY <4>2, <4>3, <4>4
    <3> QED
      BY <3>1, <3>2
  <2>3. \A q \in Clients : /\ req'[q].pc \in {"check", "bind"} => req[q].pc \in {"check", "bind"}
                           /\ req'[q].kind = req[q].kind /\ req'[q].token = req[q].token
    BY <1>req
  <2>4. \A q, r \in Clients :
          /\ req'[q].pc \in {"check", "bind"} /\ req'[r].pc \in {"check", "bind"}
          /\ req'[q].kind = "refresh" /\ req'[q].token = req'[r].token
          => q = r
    BY <2>3 DEF Inv, Chains
  <2> QED
    BY <1>same, <2>1, <2>2, <2>4 DEF Chains
<1>6. Revocations'
  <2> SUFFICES ASSUME failures = MaxFailures, NEW a \in Tokens, NEW b \in Tokens,
                      binding'[a].family # None, binding'[a].family = binding'[b].family,
                      binding'[a].revoked, ~binding'[b].revoked
               PROVE  \E q \in Clients : /\ req'[q].pc \in {"familyCheck", "familyRevoke"}
                                         /\ req'[q].seen.family = binding'[a].family
    BY <1>same DEF Revocations
  <2>1. a # n
    BY <1>nt
  <2>2. CASE b = n
    <3>1. req[p].kind = "refresh"
      BY <1>kind, <1>nt, <1>rows, <1>starts, <2>1, <2>2
    <3> QED
      BY <1>nt, <1>kind, <2>2, <3>1
  <2>3. CASE b # n
    <3>1. PICK q \in Clients : /\ req[q].pc \in {"familyCheck", "familyRevoke"}
                               /\ req[q].seen.family = binding[a].family
      BY <1>rows, <2>1, <2>3 DEF Inv, Revocations
    <3> QED
      BY <1>req, <1>rows, <2>1, <3>1
  <2> QED
    BY <2>2, <2>3
<1>7. Lossless'
  <2> SUFFICES ASSUME Calm
               PROVE  /\ \A q \in Clients : req'[q].kind = "refresh" =>
                           proc[q].pc = "refreshing" /\ ~req'[q].seen.rotated
                      /\ item.token # None /\ binding'[item.token].rotated =>
                           \E q \in Clients : Replaces(q)'
    BY <1>same DEF Lossless, Calm
  <2>1. \A q \in Clients : req'[q].kind = "refresh" =>
          proc[q].pc = "refreshing" /\ ~req'[q].seen.rotated
    BY <1>req DEF Inv, Lossless, Calm
  <2>2. ASSUME item.token # None, binding'[item.token].rotated
        PROVE  \E q \in Clients : Replaces(q)'
    <3>1. item.token \in Tokens /\ item.token # n
      BY <1>n, <2>2, <1>sane DEF Known, Sane
    <3>2. CASE binding[item.token].rotated
      <4>1. PICK q \in Clients : Replaces(q)
        BY <2>2, <3>2 DEF Inv, Lossless, Calm
      <4>2. q # p
        BY <1>0, <4>1 DEF Replaces
      <4> QED
        BY <1>req, <1>same, <4>1, <4>2 DEF Replaces, Bound
    <3>3. CASE ~binding[item.token].rotated
      <4>1. req[p].kind = "refresh"
        BY <1>rows, <1>kind, <1>l, <2>2, <3>1, <3>3
      <4>2. proc[p].pc = "refreshing"
        BY <4>1 DEF Inv, Lossless, Calm
      <4>3. Replaces(p)'
        BY <1>same, <1>n, <1>nt, <1>kind, <4>1, <4>2, NoneIsNoToken DEF Replaces, Bound
      <4> QED
        BY <4>3
    <3> QED
      BY <3>2, <3>3
  <2> QED
    BY <2>1, <2>2
<1> QED
  BY <1>1, <1>2, <1>3, <1>4, <1>5, <1>6, <1>7 DEF Inv
LEMMA BindKeeps ==
  ASSUME Inv, NEW p \in Clients, Bind(p), UNCHANGED Served
  PROVE  Inv'
<1>sane. Sane(p)
  BY InvSane
<1> DEFINE n == req[p].issued
           t == req[p].token
           f == req[p].seen.family
           bound(g) == [Unbound EXCEPT !.family = g]
           spent(x) == [x EXCEPT !.rotated = TRUE]
<1>1. /\ req[p].pc = "bind" /\ UNCHANGED <<provider, failures>> /\ failures' \in 0 .. MaxFailures
  BY <1>sane DEF Bind, Served, Sane, TypeOK
<1>n. n \in Tokens /\ binding[n] = Unbound
  BY <1>1, <1>sane DEF Sane, Serving
<1>bound. ASSUME NEW g \in Tokens
          PROVE  bound(g) \in Binding /\ bound(g).family = g /\ ~bound(g).rotated /\ ~bound(g).revoked
  BY DEF Unbound, Binding
<1>spent. ASSUME NEW x \in Binding
          PROVE  /\ spent(x) \in Binding /\ spent(x).family = x.family /\ spent(x).revoked = x.revoked
  BY DEF Binding
<1>rotates. ASSUME NEW x \in Binding
            PROVE  spent(x).rotated
  BY Zenon DEF Binding
<1>type. binding \in [Tokens -> Binding]
  BY <1>sane DEF Sane, TypeOK, ServerTypeOK
<1>2. ASSUME req[p].kind = "refresh", binding' = BoundSuccessor(req[p]), To(p, "familyCheck")
      PROVE  Inv'
  <2>1. t \in Tokens /\ f \in Tokens /\ binding[t].family = f /\ t # n
    BY <1>1, <1>2, <1>n, <1>sane, NoneIsNoToken DEF Sane, Serving, Unbound, Request, Binding
  <2> DEFINE becomes(u) == CASE u = n -> bound(f) [] u = t -> spent(binding[u]) [] OTHER -> binding[u]
  <2>2. binding' = [u \in Tokens |-> becomes(u)]
    BY <1>2 DEF BoundSuccessor
  <2>3. /\ becomes(n) = bound(f) /\ becomes(t) = spent(binding[t])
        /\ \A u \in Tokens \ {n, t} : becomes(u) = binding[u]
    BY <2>1
  <2>4. Goes(p, "familyCheck")
    BY <1>2, <1>sane, ReqMoves DEF Sane, RequestPhase
  <2>5. Serves(p) /\ req'[p].seen = req[p].seen /\ req'[p].issued = req[p].issued
        /\ req'[p].pc = "familyCheck"
    BY <1>1, <2>4 DEF Serves, Goes, Served
  <2> HIDE DEF becomes, bound, spent, f, t, n
  <2>6. \A u \in Tokens : becomes(u) \in Binding
    BY <1>bound, <1>spent, <1>type, <2>1, <2>3
  <2>7. /\ binding' \in [Tokens -> Binding] /\ binding'[n] = bound(f)
        /\ binding'[t] = spent(binding[t]) /\ \A u \in Tokens \ {n, t} : binding'[u] = binding[u]
    BY <1>n, <2>1, <2>2, <2>3, <2>6
  <2>8. /\ binding'[n].family = f /\ ~binding'[n].rotated /\ ~binding'[n].revoked
        /\ binding'[t].family = binding[t].family /\ binding'[t].revoked = binding[t].revoked
    BY <1>bound, <1>spent, <1>type, <2>1, <2>7
  <2>9. binding'[t].rotated
    <3>1. binding[t] \in Binding
      BY <1>type, <2>1
    <3> QED
      BY <1>rotates, <2>7, <3>1
  <2> QED
    BY <1>1, <1>2, <2>1, <2>5, <2>7, <2>8, <2>9, BindingKeeps DEF n, t, f
<1>3. ASSUME req[p].kind = "login", Answer(p, TRUE),
             binding' = [binding EXCEPT ![req[p].issued] = [Unbound EXCEPT !.family = req[p].issued]]
      PROVE  Inv'
  <2>1. binding' = [binding EXCEPT ![n] = bound(n)]
    BY <1>3
  <2>2. Goes(p, "answered")
    BY <1>3, <1>sane, ReqMoves DEF Sane
  <2>3. Serves(p) /\ req'[p].seen = req[p].seen /\ req'[p].issued = req[p].issued
        /\ req'[p].pc = "answered"
    BY <1>1, <2>2 DEF Serves, Goes, Served
  <2> HIDE DEF bound, n
  <2>4. /\ binding' \in [Tokens -> Binding] /\ binding'[n] = bound(n)
        /\ \A u \in Tokens \ {n} : binding'[u] = binding[u]
    BY <1>n, <1>bound, <1>type, <2>1
  <2>5. binding'[n].family = n /\ ~binding'[n].rotated /\ ~binding'[n].revoked
    BY <1>n, <1>bound, <2>4
  <2> QED
    BY <1>1, <1>3, <1>n, <2>3, <2>4, <2>5, BindingKeeps DEF n
<1>4. ASSUME Answer(p, FALSE), UNCHANGED binding
      PROVE  Inv'
  BY <1>1, <1>4, RefusalKeeps DEF Served, Settling
<1> QED
  BY <1>2, <1>3, <1>4 DEF Bind

LEMMA FamilyRevokeKeeps ==
  ASSUME Inv, NEW p \in Clients, FamilyRevoke(p), UNCHANGED Served
  PROVE  Inv'
<1> DEFINE f == req[p].seen.family
           ok == req[p].kind = "revoke" \/ req[p].issued # None
           gone(x) == [x EXCEPT !.revoked = TRUE]
<1>sane. \A q \in Clients : Sane(q)
  BY InvSane
<1>1. /\ req[p].pc = "familyRevoke" /\ binding' = RevokedFamily(f) /\ Answer(p, ok)
      /\ UNCHANGED <<provider, failures>> /\ failures' \in 0 .. MaxFailures
  BY <1>sane DEF FamilyRevoke, Served, Sane, TypeOK
<1>2. Goes(p, "answered") /\ (req'[p].ok = ok)
  <2>1. ok \in BOOLEAN
    OBVIOUS
  <2> HIDE DEF ok
  <2> QED
    BY <1>1, <1>sane, <2>1, ReqMoves DEF Sane
<1>serves. Serves(p)
  BY <1>1, <1>2 DEF Serves, Goes, Served
<1>req. /\ \A q \in Clients \ {p} : req'[q] = req[q]
        /\ req'[p].kind = req[p].kind /\ req'[p].token = req[p].token
        /\ req'[p].seen = req[p].seen /\ req'[p].issued = req[p].issued /\ req'[p].pc = "answered"
  BY <1>2 DEF Goes, ReqOnly
<1>same. UNCHANGED <<item, fresh, lock, proc, commands, losses, provider, failures>>
  BY <1>1 DEF Served, FamilyRevoke
<1>f. f # None
  BY <1>1, <1>sane DEF Sane, Serving
<1>type. binding \in [Tokens -> Binding]
  BY DEF Inv, TypeOK, ServerTypeOK
<1>gone. ASSUME NEW x \in Binding
         PROVE  gone(x) \in Binding /\ gone(x).family = x.family /\ gone(x).rotated = x.rotated
  BY DEF Binding
<1>revoked. ASSUME NEW x \in Binding
            PROVE  gone(x).revoked
  BY Zenon DEF Binding
<1>to. binding' = [u \in Tokens |-> IF binding[u].family = f THEN gone(binding[u]) ELSE binding[u]]
  BY <1>1, <1>f DEF RevokedFamily, Family
<1> HIDE DEF gone
<1>rows. ASSUME NEW u \in Tokens
         PROVE  /\ binding'[u] \in Binding
                /\ binding'[u].family = binding[u].family /\ binding'[u].rotated = binding[u].rotated
                /\ binding[u].family = f => binding'[u].revoked
                /\ binding[u].family # f => binding'[u] = binding[u]
  <2>0. binding[u] \in Binding
    BY <1>type
  <2>1. CASE binding[u].family = f
    <3>1. binding'[u] = gone(binding[u])
      BY <1>to, <2>1
    <3> QED
      BY <1>gone, <1>revoked, <2>0, <2>1, <3>1
  <2>2. CASE binding[u].family # f
    BY <1>to, <2>0, <2>2
  <2> QED
    BY <2>1, <2>2
<1>f_. f = req[p].seen.family
  OBVIOUS
<1> HIDE DEF f
<1>t1. TypeOK'
  <2>1. binding' \in [Tokens -> Binding]
    BY <1>to, <1>rows, <1>type
  <2>2. provider' \in [Tokens -> ProviderToken]
    BY <1>same DEF Inv, TypeOK, ServerTypeOK
  <2> QED
    BY <1>serves, <2>1, <2>2, ServesKeeps
<1>t2. \A q \in Clients : Client(q)'
  BY <1>serves, ServesKeeps
<1>t3. ASSUME NEW q \in Clients
       PROVE  Serving(q)'
  <2>1. Serving(q) /\ req[q].token \in Tokens \cup {None} /\ req[q].issued \in Tokens \cup {None}
    BY <1>sane DEF Sane
  <2>2. req[q].seen.family # None => binding'[req[q].token].family = req[q].seen.family
    BY <1>rows, <2>1 DEF Serving
  <2>3. CASE q # p
    <3>1. req'[q] = req[q]
      BY <1>req, <2>3
    <3>2. req[q].pc \in {"check", "bind"} =>
            /\ binding'[req[q].issued] = Unbound
            /\ req[q].kind = "refresh" => ~binding'[req[q].token].rotated
      BY <1>f, <1>rows, <2>1 DEF Serving, Unbound
    <3> QED
      BY <1>same, <2>1, <2>2, <3>1, <3>2 DEF Serving
  <2>4. CASE q = p
    BY <1>1, <1>2, <1>req, <2>1, <2>2, <2>4 DEF Serving
  <2> QED
    BY <2>3, <2>4
<1>t4. NewTokens'
  <2>1. \A q \in Clients, m \in Tokens : Holds(q, m)' <=> Holds(q, m)
    BY <1>req, <1>same DEF Holds
  <2>2. \A m \in Tokens : Known(m)' <=> Known(m)
    BY <1>req, <1>same DEF Known, Knows
  <2> QED
    BY <1>rows, <1>same, <2>1, <2>2 DEF Inv, NewTokens
<1>t5. Chains'
  <2>1. \A q \in Clients : /\ req'[q].pc \in {"check", "bind"} => req[q].pc \in {"check", "bind"}
                           /\ req'[q].kind = req[q].kind /\ req'[q].token = req[q].token
    BY <1>req
  <2>2. \A t \in Tokens : binding[t].family \in Tokens \cup {None}
    BY <1>type DEF Binding
  <2>3. \A t \in Tokens : binding[t].family = None => binding'[t] = Unbound
    BY <1>f, <1>rows DEF Inv, Chains
  <2>4. \A t, u \in Tokens :
          /\ binding'[t].family # None /\ binding'[t].family = binding'[u].family
          /\ ~binding'[t].rotated /\ ~binding'[u].rotated
          => t = u
    BY <1>rows DEF Inv, Chains
  <2>5. \A t \in Tokens :
          /\ binding'[t].family # None => binding'[binding'[t].family].family = binding'[t].family
          /\ binding'[t].family = None => binding'[t] = Unbound
          /\ binding'[t].rotated => provider'[t].rotated
    BY <1>rows, <1>same, <2>2, <2>3 DEF Inv, Chains
  <2>6. \A q, r \in Clients :
          /\ req'[q].pc \in {"check", "bind"} /\ req'[r].pc \in {"check", "bind"}
          /\ req'[q].kind = "refresh" /\ req'[q].token = req'[r].token
          => q = r
    BY <2>1 DEF Inv, Chains
  <2> QED
    BY <2>4, <2>5, <2>6 DEF Chains
<1>t6. Revocations'
  <2> SUFFICES ASSUME failures = MaxFailures, NEW a \in Tokens, NEW b \in Tokens,
                      binding'[a].family # None, binding'[a].family = binding'[b].family,
                      binding'[a].revoked, ~binding'[b].revoked
               PROVE  \E q \in Clients : /\ req'[q].pc \in {"familyCheck", "familyRevoke"}
                                         /\ req'[q].seen.family = binding'[a].family
    BY <1>same DEF Revocations
  <2>1. /\ binding[a].family # None /\ binding[a].family = binding[b].family
        /\ binding[b].family # f
    BY <1>rows
  <2>2. binding[a].revoked /\ ~binding[b].revoked
    BY <1>rows, <2>1
  <2>3. PICK q \in Clients : /\ req[q].pc \in {"familyCheck", "familyRevoke"}
                             /\ req[q].seen.family = binding[a].family
    BY <2>1, <2>2 DEF Inv, Revocations
  <2> QED
    BY <1>req, <1>rows, <1>f_, <2>1, <2>3
<1>t7. Lossless'
  <2>1. \A q \in Clients : req'[q].kind = req[q].kind /\ req'[q].seen = req[q].seen
    BY <1>req
  <2>2. ASSUME NEW q \in Clients, Replaces(q)
        PROVE  Replaces(q)'
    <3>1. CASE q # p
      BY <1>req, <1>same, <2>2, <3>1 DEF Replaces, Bound
    <3>2. CASE q = p
      BY <1>2, <1>req, <1>same, <2>2, <3>2 DEF Replaces, Bound
    <3> QED
      BY <3>1, <3>2
  <2>3. item.token # None => item.token \in Tokens
    BY <1>sane DEF Sane, Inv, TypeOK, Item
  <2> QED
    BY <1>rows, <1>same, <2>1, <2>2, <2>3 DEF Inv, Lossless
<1> QED
  BY <1>t1, <1>t2, <1>t3, <1>t4, <1>t5, <1>t6, <1>t7 DEF Inv
--------------------------------------------------------------------------------
(* The invariant holds *)

LEMMA InitInv == Init => Inv
<1> SUFFICES ASSUME Init
             PROVE  Inv
  OBVIOUS
<1> USE DEF Init, ServerInit
<1>1. /\ NoRequest \in Request /\ Unbound \in Binding /\ Unissued \in ProviderToken
      /\ NoItem \in Item /\ Idle \in Proc
  BY DEF NoRequest, Request, RequestPhase, Kinds, Unbound, Binding, Unissued, ProviderToken,
         Idle, Proc, ProcPhase, NoItem, Item
<1>2. TypeOK
  BY <1>1, BoundsAreNat DEF TypeOK, ServerTypeOK
<1>3. ASSUME NEW p \in Clients
      PROVE  Client(p) /\ Serving(p)
  BY DEF Client, Serving, Idle, NoRequest, Unbound, Locked, Waits, InHand
<1>4. NewTokens
  BY NoneIsNoToken DEF NewTokens, Holds, Known, Knows, Idle, NoRequest, NoItem, Unbound, InHand
<1>5. Chains /\ Revocations
  BY DEF Chains, Revocations, Unbound, NoRequest
<1>6. Lossless
  BY DEF Lossless, NoRequest, NoItem
<1> QED
  BY <1>2, <1>3, <1>4, <1>5, <1>6 DEF Inv

LEMMA StepKeeps ==
  ASSUME Inv, NEW p \in Clients, Step(p)
  PROVE  Inv'
<1>1. CASE Read(p)
  BY <1>1, ReadEffect, EffectKeeps
<1>2. CASE Acquire(p)
  BY <1>2, AcquireEffect, EffectKeeps
<1>3. CASE GiveUp(p)
  BY <1>3, GiveUpEffect, EffectKeeps
<1>4. CASE LockedRead(p)
  BY <1>4, LockedReadEffect, EffectKeeps
<1>5. CASE LoginRequest(p)
  BY <1>5, LoginRequestEffect, EffectKeeps
<1>6. CASE LogoutRequest(p)
  BY <1>6, LogoutRequestEffect, EffectKeeps
<1>7. CASE ExchangeRequest(p)
  BY <1>7, ExchangeRequestEffect, EffectKeeps
<1>8. CASE Answered(p)
  BY <1>8, AnsweredEffect, EffectKeeps
<1>9. CASE StoreRotated(p)
  BY <1>9, StoreRotatedEffect, EffectKeeps
<1>10. CASE StoreSession(p)
  BY <1>10, StoreSessionEffect, EffectKeeps
<1>11. CASE DeleteOld(p)
  BY <1>11, DeleteOldEffect, EffectKeeps
<1>12. CASE Insert(p)
  BY <1>12, InsertEffect, EffectKeeps
<1>13. CASE Clear(p)
  BY <1>13, ClearEffect, EffectKeeps
<1>14. CASE UserInfo(p)
  BY <1>14, UserInfoEffect, EffectKeeps
<1>15. CASE Naming(p)
  BY <1>15, NamingEffect, EffectKeeps
<1>16. CASE NameStore(p)
  BY <1>16, NameStoreEffect, EffectKeeps
<1> QED
  BY <1>1, <1>2, <1>3, <1>4, <1>5, <1>6, <1>7, <1>8, <1>9, <1>10, <1>11, <1>12, <1>13, <1>14,
     <1>15, <1>16 DEF Step

LEMMA ServeKeeps ==
  ASSUME Inv, NEW p \in Clients, Serve(p)
  PROVE  Inv'
<1>1. ServerStep(p) /\ UNCHANGED Served
  BY DEF Serve, Served
<1>2. CASE LookupBinding(p)
  BY <1>1, <1>2, LookupBindingKeeps
<1>3. CASE LookupProvider(p)
  BY <1>1, <1>3, LookupProviderKeeps
<1>4. CASE Decide(p)
  BY <1>1, <1>4, DecideKeeps
<1>5. CASE AtProvider(p)
  BY <1>1, <1>5, AtProviderKeeps
<1>6. CASE Check(p)
  BY <1>1, <1>6, CheckKeeps
<1>7. CASE Bind(p)
  BY <1>1, <1>7, BindKeeps
<1>8. CASE FamilyCheck(p)
  BY <1>1, <1>8, FamilyCheckKeeps
<1>9. CASE FamilyRevoke(p)
  BY <1>1, <1>9, FamilyRevokeKeeps
<1> QED
  BY <1>1, <1>2, <1>3, <1>4, <1>5, <1>6, <1>7, <1>8, <1>9 DEF ServerStep

LEMMA NextInv == Inv /\ [Next]_vars => Inv'
<1> SUFFICES ASSUME Inv, [Next]_vars
             PROVE  Inv'
  OBVIOUS
<1>1. ASSUME NEW p \in Clients, NEW cmd \in Commands, Start(p, cmd)
      PROVE  Inv'
  BY <1>1, StartEffect, EffectKeeps
<1>2. ASSUME NEW p \in Clients, Step(p)
      PROVE  Inv'
  BY <1>2, StepKeeps
<1>3. ASSUME NEW p \in Clients, Serve(p)
      PROVE  Inv'
  BY <1>3, ServeKeeps
<1>4. ASSUME NEW p \in Clients, Die(p)
      PROVE  Inv'
  BY <1>4, DieEffect, EffectKeeps
<1>5. ASSUME NEW p \in Clients, Unheard(p)
      PROVE  Inv'
  BY <1>5, UnheardEffect, EffectKeeps
<1>6. ASSUME NEW p \in Clients, ServerFails(p)
      PROVE  Inv'
  BY <1>6, ServerFailsKeeps
<1>7. ASSUME NEW t \in fresh, Expire(t)
      PROVE  Inv'
  <2>1. fresh' \subseteq Tokens
    BY <1>7 DEF Expire, Inv, TypeOK
  <2> QED
    BY <1>7, <2>1, FreshKeeps DEF Expire
<1>8. CASE UNCHANGED vars
  <2>1. fresh' \subseteq Tokens
    BY <1>8 DEF vars, Inv, TypeOK
  <2> QED
    BY <1>8, <2>1, FreshKeeps DEF vars
<1> QED
  BY <1>1, <1>2, <1>3, <1>4, <1>5, <1>6, <1>7, <1>8 DEF Next

LEMMA InvHolds == Spec => []Inv
BY InitInv, NextInv, PTL DEF Spec

\* Every variable keeps its type, and what each phase of a command and of its request has in
\* hand is there: type correctness of the processes, the server and the stored item.
THEOREM SessionTypesHold == Spec => []TypeOK
<1>1. Inv => TypeOK
  BY DEF Inv
<1> QED
  BY <1>1, InvHolds, PTL

\* A family has at most one token that is neither rotated nor revoked, whichever requests run
\* at once, and whatever is lost or fails: two refreshes of one token cannot both be issued a
\* successor, because the library's row is rotated in the same step that issues it.
THEOREM OneLiveToken == Spec => []SingleLiveToken
<1>1. Inv => SingleLiveToken
  <2> SUFFICES ASSUME Inv, NEW t \in Tokens, NEW u \in Tokens, Live(t), Live(u),
                      Subject(t) = Subject(u)
               PROVE  t = u
    BY DEF SingleLiveToken
  <2>1. binding[t].family = binding[u].family
    BY NoneIsNoToken DEF Subject
  <2> QED
    BY <2>1 DEF Inv, Chains, Live
<1> QED
  BY <1>1, InvHolds, PTL

\* Unless something is lost, no process of the CLI presents a refresh token whose successor
\* has been issued and bound, so no command of its own ends the session as a theft.
THEOREM OwnTokensAreNotReused == Spec => []NoSelfReuse
<1>1. Inv => NoSelfReuse
  BY DEF Inv, Lossless, NoSelfReuse
<1> QED
  BY <1>1, InvHolds, PTL

\* Unless the server fails a request, a revocation reaches the whole family: a refresh that
\* binds its successor while the family is revoked looks again and takes it along.
THEOREM FamiliesAreRevokedTogether == Spec => []RevokedTogether
<1>1. Inv => RevokedTogether
  <2> SUFFICES ASSUME Inv, failures = MaxFailures,
                      \A p \in Clients : req[p].pc \notin {"familyCheck", "familyRevoke"}
               PROVE  \A t, u \in Tokens :
                        Subject(t) # None /\ Subject(t) = Subject(u) =>
                          (binding[t].revoked => binding[u].revoked)
    BY NoneIsNoToken DEF RevokedTogether, Inv, TypeOK, ServerTypeOK, Binding
  <2> QED
    BY NoneIsNoToken DEF Inv, Revocations, Subject
<1> QED
  BY <1>1, InvHolds, PTL

\* No process reads the item as empty under the lock while another is between the delete and
\* the insert of a replacing login.
THEOREM NotLoggedInIsNeverWrong == Spec => []NotLoggedInIsTrue
<1>1. Inv => NotLoggedInIsTrue
  <2> SUFFICES ASSUME Inv, NEW p \in Clients, NEW q \in Clients, At(p, "locked"), At(q, "insert")
               PROVE  FALSE
    BY DEF NotLoggedInIsTrue
  <2>1. lock = p /\ lock = q
    BY DEF Inv, Client, At, Locked
  <2> QED
    BY <2>1 DEF At
<1> QED
  BY <1>1, InvHolds, PTL

Restored ==
  item'.token \notin {None, item.token} =>
    /\ ~provider[item'.token].rotated
    /\ item.token = None => \E p \in Clients : proc[p].cmd = "login" /\ proc'[p] = Idle

LEMMA NothingRestored == Inv /\ [Next]_vars => Restored
<1> SUFFICES ASSUME Inv, [Next]_vars, item'.token \notin {None, item.token}
             PROVE  /\ ~provider[item'.token].rotated
                    /\ item.token = None =>
                         \E p \in Clients : proc[p].cmd = "login" /\ proc'[p] = Idle
  BY DEF Restored
<1>1. PICK p \in Clients : \/ StoreRotated(p) \/ Insert(p)
                           \/ StoreSession(p) /\ item' # item
                           \/ NameStore(p)
  <2>1. item' # item /\ item' # NoItem
    BY NothingIsItem
  <2> QED
    BY <2>1 DEF Next, Step, Start, Read, Acquire, GiveUp, LockedRead, LoginRequest, LogoutRequest,
                ExchangeRequest, Answered, StoreSession, DeleteOld, Clear, UserInfo, Naming, Serve,
                Die, Unheard, ServerFails, Expire, vars
<1>sane. Sane(p)
  BY InvSane
<1>2. CASE StoreRotated(p)
  BY <1>2, <1>sane, InHandIsNew DEF StoreRotated, At, InHand, Sane, Client
<1>3. CASE Insert(p)
  <2>1. proc[p].pc \in {"replace", "insert"} /\ item' = proc[p].copy /\ proc'[p] = Idle
    BY <1>3, <1>sane DEF Insert, At, End, Sane, TypeOK
  <2> QED
    BY <2>1, <1>sane, InHandIsNew DEF InHand, Sane, Client
<1>4. CASE StoreSession(p) /\ item' # item
  <2>1. proc[p].pc = "validate" /\ item' = [proc[p].copy EXCEPT !.session = TRUE]
    BY <1>4 DEF StoreSession, At
  <2>2. item'.token = proc[p].copy.token
    BY <2>1, <1>sane, ItemEdits DEF Sane
  <2> QED
    BY <2>1, <2>2, <1>sane DEF Sane, Client
<1>5. CASE NameStore(p)
  BY <1>5, <1>sane DEF NameStore, At, Sane, Client
<1> QED
  BY <1>1, <1>2, <1>3, <1>4, <1>5

\* What was replaced or removed never returns to the item: only a login stores credentials
\* where there were none, and no command writes a refresh token that was spent.
THEOREM NothingResurrected == Spec => NoResurrection
<1>1. Inv /\ [Next]_vars => [Restored]_vars
  BY NothingRestored
<1>2. NoResurrection <=> [][Restored]_vars
  BY DEF NoResurrection, Restored
<1> QED
  BY <1>1, <1>2, InvHolds, PTL DEF Spec
================================================================================
