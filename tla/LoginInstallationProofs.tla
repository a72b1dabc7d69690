------------------------ MODULE LoginInstallationProofs ------------------------
(***************************************************************************)
(* Theorems about LoginInstallation, for every set of requests, attempts,  *)
(* providers, subjects and addresses, and any number of changes: the one   *)
(* installation, and what a login commits under.                           *)
(***************************************************************************)
EXTENDS LoginInstallation, TLAPS

\* A login that is under way was sent to a provider that existed and was enabled.
SentToEnabled(payload) == payload.mode = "login" => payload.seen.exists /\ payload.seen.enabled

\* What a request holds in each of its phases: the identity of a verified callback,
\* and behind the second check of a setup the address its starter named.
GoodHandler == {x \in Handler :
  /\ x.pc # "idle" => SentToEnabled(x.payload)
  /\ x.pc \in {"recheck", "complete"} => x.identity.subject \in Subjects
  /\ x.pc = "complete" /\ x.payload.mode = "setup" => x.identity.email = x.payload.email}

\* Inductive strengthening of the types.
TypeInv ==
  /\ TypeOK
  /\ \A h \in Handlers : handler[h] \in GoodHandler
  /\ \A a \in Attempts : attempt[a].state = "open" => SentToEnabled(attempt[a].payload)
--------------------------------------------------------------------------------
\* A request that is not being served holds nothing.
LEMMA IdleIsGood == Idle \in GoodHandler
<1>1. NoProvider \in ProviderRow
  BY DEF NoProvider, ProviderRow
<1>2. NoPayload \in Payload
  BY <1>1, FirstIsProvider DEF NoPayload, Payload, Modes
<1>3. NoIdentity \in Identity
  BY DEF NoIdentity, Identity
<1> QED
  BY <1>2, <1>3 DEF Idle, Handler, GoodHandler

\* The user a linkable identity is signed in as has the identity's address.
LEMMA UserOfIdentity ==
  ASSUME TypeInv, NEW h \in Handlers, At(h, "complete"), Linkable(h)
  PROVE  /\ Linked(h) \in [Providers -> [Subjects -> Emails \cup {None}]]
         /\ User(h) = handler[h].identity.email
<1> DEFINE i == handler[h].identity
           p == handler[h].payload.provider
<1>1. p \in Providers /\ i.subject \in Subjects /\ i.email \in Emails \cup {None}
  BY DEF TypeInv, TypeOK, At, GoodHandler, Handler, Payload, Identity
<1>2. account \in [Providers -> [Subjects -> Emails \cup {None}]]
  BY DEF TypeInv, TypeOK
<1> DEFINE linked == IF account[p][i.subject] = None
                     THEN [account EXCEPT ![p][i.subject] = i.email] ELSE account
<1>3. account[p][i.subject] \in {None, i.email}
  BY DEF Linkable
<1> HIDE DEF i, p
<1>4. /\ linked \in [Providers -> [Subjects -> Emails \cup {None}]]
      /\ linked[p][i.subject] = i.email
  <2>1. CASE account[p][i.subject] = None
    BY <1>1, <1>2, <2>1
  <2>2. CASE account[p][i.subject] # None
    BY <1>1, <1>2, <1>3, <2>2
  <2> QED
    BY <2>1, <2>2
<1> QED
  BY <1>4 DEF i, p, Linked, User

\* Every step of a request leaves it with what its phase needs.
LEMMA HandlerStep ==
  ASSUME TypeInv, NEW h \in Handlers, Handle(h)
  PROVE  \E x \in GoodHandler : handler' = [handler EXCEPT ![h] = x]
<1> DEFINE old == handler[h]
<1>h. handler \in [Handlers -> Handler] /\ old \in Handler /\ old \in GoodHandler
  BY DEF TypeInv, TypeOK
<1>fields. /\ old.payload \in Payload /\ old.identity \in Identity
           /\ old.id \in Attempts \cup {None}
  BY <1>h DEF Handler
<1>idle. Finish(h) => \E x \in GoodHandler : handler' = [handler EXCEPT ![h] = x]
  BY IdleIsGood DEF Finish
<1>start. ASSUME NEW payload \in Payload, SentToEnabled(payload),
                 handler' = [handler EXCEPT ![h].pc = "discovery", ![h].payload = payload]
          PROVE  \E x \in GoodHandler : handler' = [handler EXCEPT ![h] = x]
  <2> DEFINE x == [old EXCEPT !.pc = "discovery", !.payload = payload]
  <2>1. handler' = [handler EXCEPT ![h] = x]
    BY <1>start, <1>h
  <2>2. x \in GoodHandler
    BY <1>start, <1>h DEF Handler, GoodHandler
  <2> QED
    BY <2>1, <2>2
<1>none. NoPayload \in Payload /\ NoPayload.mode = "login"
  BY IdleIsGood DEF Idle, GoodHandler, Handler, NoPayload
<1>goto. ASSUME NEW pc, Goto(h, pc), [old EXCEPT !.pc = pc] \in GoodHandler
         PROVE  \E x \in GoodHandler : handler' = [handler EXCEPT ![h] = x]
  <2>1. handler' = [handler EXCEPT ![h] = [old EXCEPT !.pc = pc]]
    BY <1>goto, <1>h DEF Goto
  <2> QED
    BY <1>goto, <2>1
<1>session. ASSUME SignedIn(h), At(h, "complete"), Linkable(h)
            PROVE  \E x \in GoodHandler : handler' = [handler EXCEPT ![h] = x]
  <2> DEFINE x == [old EXCEPT !.pc = "session", !.identity.email = old.identity.email]
  <2>1. handler' = [handler EXCEPT ![h].pc = "session", ![h].identity.email = old.identity.email]
    BY <1>session, UserOfIdentity DEF SignedIn
  <2>2. handler' = [handler EXCEPT ![h] = x]
    BY <2>1, <1>h
  <2>3. x \in GoodHandler
    BY <1>h, <1>session, <1>fields DEF GoodHandler, Handler, At, Identity
  <2> QED
    BY <2>2, <2>3
<1>1. ASSUME NEW p \in Providers, StartLogin(h, p)
      PROVE  \E x \in GoodHandler : handler' = [handler EXCEPT ![h] = x]
  <2> DEFINE payload == [NoPayload EXCEPT !.provider = p, !.seen = provider[p]]
  <2>1. provider[p] \in ProviderRow
    BY DEF TypeInv, TypeOK
  <2>2. payload \in Payload /\ payload.seen = provider[p]
    BY <1>none, <2>1 DEF Payload
  <2>3. SentToEnabled(payload)
    BY <1>1, <2>2 DEF StartLogin, SentToEnabled
  <2>4. handler' = [handler EXCEPT ![h].pc = "discovery", ![h].payload = payload]
    BY <1>1 DEF StartLogin
  <2> QED
    BY <2>2, <2>3, <2>4, <1>start
<1>2. ASSUME NEW mode \in {"setup", "setup-test"}, NEW email \in Emails, StartSetup(h, mode, email)
      PROVE  \E x \in GoodHandler : handler' = [handler EXCEPT ![h] = x]
  <2> DEFINE payload == [NoPayload EXCEPT !.mode = mode, !.email = email, !.token = token]
  <2>1. token \in Tokens
    BY DEF TypeInv, TypeOK
  <2>2. payload \in Payload /\ payload.mode # "login"
    BY <1>none, <2>1 DEF Payload, Modes
  <2>3. SentToEnabled(payload)
    BY <2>2 DEF SentToEnabled
  <2>4. handler' = [handler EXCEPT ![h].pc = "discovery", ![h].payload = payload]
    BY <1>2 DEF StartSetup
  <2> QED
    BY <2>2, <2>3, <2>4, <1>start
<1>3. ASSUME NEW a \in Attempts, Consume(h, a)
      PROVE  \E x \in GoodHandler : handler' = [handler EXCEPT ![h] = x]
  <2>1. attempt[a].payload \in Payload /\ SentToEnabled(attempt[a].payload)
    BY <1>3 DEF Consume, TypeInv, TypeOK, AttemptRow
  <2> DEFINE x == [Idle EXCEPT !.pc = "verify", !.id = a, !.payload = attempt[a].payload]
  <2>2. x \in GoodHandler
    BY <2>1, IdleIsGood DEF Idle, GoodHandler, Handler
  <2> QED
    BY <1>3, <2>2 DEF Consume
<1>4. CASE CreateAttempt(h)
  BY <1>4, <1>idle DEF CreateAttempt
<1>5. CASE Verify(h)
  <2>1. old.pc = "verify"
    BY <1>5 DEF Verify, At
  <2>2. [old EXCEPT !.pc = "exchange"] \in GoodHandler
    BY <1>h, <2>1 DEF GoodHandler, Handler
  <2> QED
    BY <1>5, <2>2, <1>idle, <1>goto DEF Verify
<1>6. CASE Exchange(h)
  <2>1. CASE Finish(h)
    BY <2>1, <1>idle
  <2>2. ASSUME NEW s \in Subjects, NEW e \in Emails,
               handler' = [handler EXCEPT ![h].identity = [subject |-> s, email |-> e],
                 ![h].pc = IF IsSetup(old.payload) THEN "recheck" ELSE "complete"]
        PROVE  \E x \in GoodHandler : handler' = [handler EXCEPT ![h] = x]
    <3> DEFINE pc == IF IsSetup(old.payload) THEN "recheck" ELSE "complete"
               i == [subject |-> s, email |-> e]
               x == [old EXCEPT !.identity = i, !.pc = pc]
    <3>1. i \in Identity /\ i.subject \in Subjects
      BY DEF Identity
    <3>2. /\ pc \in {"recheck", "complete"}
          /\ pc = "complete" => old.payload.mode # "setup"
      BY DEF IsSetup
    <3>3. handler' = [handler EXCEPT ![h].identity = i, ![h].pc = pc]
      BY <2>2
    <3>4. old.pc = "exchange"
      BY <1>6 DEF Exchange, At
    <3> HIDE DEF i, pc
    <3>5. handler' = [handler EXCEPT ![h] = x]
      BY <3>3, <1>h
    <3>6. x \in Handler /\ x.pc = pc /\ x.identity = i /\ x.payload = old.payload
      BY <3>1, <3>2, <1>h DEF Handler
    <3>7. x \in GoodHandler
      BY <3>1, <3>2, <3>4, <3>6, <1>h DEF GoodHandler
    <3> QED
      BY <3>5, <3>7
  <2> QED
    BY <1>6, <2>1, <2>2 DEF Exchange
<1>7. CASE Recheck(h)
  <2>1. old.pc = "recheck"
    BY <1>7 DEF Recheck, At
  <2>2. old.identity.email = old.payload.email => [old EXCEPT !.pc = "complete"] \in GoodHandler
    BY <1>h, <2>1 DEF GoodHandler, Handler
  <2> QED
    BY <1>7, <2>2, <1>idle, <1>goto DEF Recheck
<1>8. CASE CompleteLogin(h)
  BY <1>8, <1>idle, <1>session DEF CompleteLogin
<1>9. CASE CompleteSetup(h)
  BY <1>9, <1>idle, <1>session DEF CompleteSetup
<1>10. CASE CreateSession(h)
  BY <1>10, <1>idle DEF CreateSession
<1> QED
  BY <1>1, <1>2, <1>3, <1>4, <1>5, <1>6, <1>7, <1>8, <1>9, <1>10 DEF Handle
\* What a step may do to an attempt: leave it, end it, or store what a request holds,
\* and for a setup only while the installation is open.
AttemptMove(a) ==
  \/ attempt'[a] = attempt[a]
  \/ attempt'[a] = [attempt[a] EXCEPT !.state = "gone"]
  \/ \E h \in Handlers :
       /\ At(h, "discovery")
       /\ IsSetup(handler[h].payload) => installed = None
       /\ attempt'[a] = [state |-> "open", payload |-> handler[h].payload]

\* Every step moves each attempt in one of these ways.
LEMMA AttemptsMove ==
  ASSUME TypeInv, [Next]_vars
  PROVE  /\ attempt' \in [Attempts -> AttemptRow]
         /\ \A a \in Attempts : AttemptMove(a)
<1>a. attempt \in [Attempts -> AttemptRow]
  BY DEF TypeInv, TypeOK
<1>gone. \A r \in AttemptRow : [r EXCEPT !.state = "gone"] \in AttemptRow
  BY DEF AttemptRow
<1>same. CASE UNCHANGED attempt
  BY <1>same, <1>a DEF AttemptMove
<1>end. ASSUME NEW S \in SUBSET Attempts,
               attempt' = [a \in Attempts |-> IF a \in S THEN [attempt[a] EXCEPT !.state = "gone"]
                                              ELSE attempt[a]]
        PROVE  /\ attempt' \in [Attempts -> AttemptRow]
               /\ \A a \in Attempts : AttemptMove(a)
  BY <1>end, <1>a, <1>gone DEF AttemptMove
<1>one. ASSUME NEW a \in Attempts, attempt' = [attempt EXCEPT ![a].state = "gone"]
        PROVE  /\ attempt' \in [Attempts -> AttemptRow]
               /\ \A b \in Attempts : AttemptMove(b)
  <2>1. attempt' = [attempt EXCEPT ![a] = [attempt[a] EXCEPT !.state = "gone"]]
    BY <1>one, <1>a
  <2> QED
    BY <2>1, <1>a, <1>gone DEF AttemptMove
<1>1. ASSUME NEW h \in Handlers, CreateAttempt(h)
      PROVE  /\ attempt' \in [Attempts -> AttemptRow]
             /\ \A b \in Attempts : AttemptMove(b)
  <2> DEFINE payload == handler[h].payload
  <2>1. ASSUME IsSetup(payload) => SetupOpen(payload), NEW a \in Attempts,
               attempt' = [attempt EXCEPT ![a] = [state |-> "open", payload |-> payload]]
        PROVE  /\ attempt' \in [Attempts -> AttemptRow]
               /\ \A b \in Attempts : AttemptMove(b)
    <3>1. [state |-> "open", payload |-> payload] \in AttemptRow
      BY DEF TypeInv, TypeOK, Handler, AttemptRow
    <3>2. attempt'[a] = [state |-> "open", payload |-> payload]
      BY <2>1, <1>a
    <3>3. AttemptMove(a)
      BY <1>1, <2>1, <3>2 DEF AttemptMove, CreateAttempt, SetupOpen
    <3>4. \A b \in Attempts \ {a} : AttemptMove(b)
      BY <2>1, <1>a DEF AttemptMove
    <3> QED
      BY <3>1, <3>3, <3>4, <2>1, <1>a
  <2> QED
    BY <1>1, <2>1, <1>same DEF CreateAttempt
<1>2. ASSUME NEW h \in Handlers, NEW a \in Attempts, Consume(h, a)
      PROVE  /\ attempt' \in [Attempts -> AttemptRow]
             /\ \A b \in Attempts : AttemptMove(b)
  BY <1>2, <1>one DEF Consume, Claimed
<1>3. ASSUME NEW h \in Handlers, CompleteSetup(h)
      PROVE  /\ attempt' \in [Attempts -> AttemptRow]
             /\ \A b \in Attempts : AttemptMove(b)
  <2> DEFINE S == {a \in Attempts : attempt[a].state = "open" /\ IsSetup(attempt[a].payload)}
  <2>1. CASE attempt' = [a \in Attempts |->
               IF attempt[a].state = "open" /\ IsSetup(attempt[a].payload)
               THEN [attempt[a] EXCEPT !.state = "gone"] ELSE attempt[a]]
    <3>1. attempt' = [a \in Attempts |-> IF a \in S THEN [attempt[a] EXCEPT !.state = "gone"]
                                         ELSE attempt[a]]
      BY <2>1
    <3> QED
      BY <3>1, <1>end
  <2> QED
    BY <1>3, <2>1, <1>same DEF CompleteSetup
<1>4. ASSUME NEW h \in Handlers, \/ \E p \in Providers : StartLogin(h, p)
                                 \/ \E mode \in {"setup", "setup-test"}, email \in Emails :
                                      StartSetup(h, mode, email)
                                 \/ Verify(h) \/ Exchange(h) \/ Recheck(h) \/ CompleteLogin(h)
                                 \/ CreateSession(h)
      PROVE  UNCHANGED attempt
  BY <1>4 DEF StartLogin, StartSetup, Verify, Exchange, Recheck, CompleteLogin, CreateSession, Rows
<1>5. ASSUME NEW p \in Providers, DeleteProvider(p)
      PROVE  /\ attempt' \in [Attempts -> AttemptRow]
             /\ \A b \in Attempts : AttemptMove(b)
  <2> DEFINE S == {a \in Attempts : attempt[a].state = "open" /\ attempt[a].payload.provider = p}
  <2>1. attempt' = [a \in Attempts |-> IF a \in S THEN [attempt[a] EXCEPT !.state = "gone"]
                                       ELSE attempt[a]]
    BY <1>5 DEF DeleteProvider
  <2> QED
    BY <2>1, <1>end
<1>6. ASSUME NEW a \in Attempts, ExpireAttempt(a)
      PROVE  /\ attempt' \in [Attempts -> AttemptRow]
             /\ \A b \in Attempts : AttemptMove(b)
  BY <1>6, <1>one DEF ExpireAttempt
<1>7. ASSUME (\E p \in Providers, enabled \in BOOLEAN : SaveProvider(p, enabled)) \/ ChangeToken
      PROVE  UNCHANGED attempt
  BY <1>7 DEF SaveProvider, ChangeToken
<1>8. CASE UNCHANGED vars
  BY <1>8, <1>same DEF vars
<1> QED
  BY <1>1, <1>2, <1>3, <1>4, <1>5, <1>6, <1>7, <1>8, <1>same DEF Next, Handle

\* Every step keeps the types and what requests and attempts carry.
LEMMA TypeStep ==
  ASSUME TypeInv, [Next]_vars
  PROVE  TypeInv'
<1>types. /\ installed \in Emails \cup {None} /\ token \in Tokens
          /\ provider \in [Providers -> ProviderRow] /\ changes \in 0..MaxChanges
          /\ account \in [Providers -> [Subjects -> Emails \cup {None}]]
          /\ handler \in [Handlers -> Handler]
          /\ session \in [Attempts -> Emails \cup {None}]
  BY DEF TypeInv, TypeOK
<1>1. ASSUME NEW h \in Handlers, Handle(h)
      PROVE  /\ handler' \in [Handlers -> Handler]
             /\ \A k \in Handlers : handler'[k] \in GoodHandler
  <2>1. PICK x \in GoodHandler : handler' = [handler EXCEPT ![h] = x]
    BY <1>1, HandlerStep
  <2>2. GoodHandler \subseteq Handler
    BY DEF GoodHandler
  <2> QED
    BY <2>1, <2>2, <1>types DEF TypeInv
<1>2. ASSUME ~\E h \in Handlers : Handle(h)
      PROVE  UNCHANGED handler
  BY <1>2 DEF Next, vars, DeleteProvider, SaveProvider, ExpireAttempt, ChangeToken
<1>handler. /\ handler' \in [Handlers -> Handler]
            /\ \A k \in Handlers : handler'[k] \in GoodHandler
  BY <1>1, <1>2, <1>types DEF TypeInv
<1>attempt. /\ attempt' \in [Attempts -> AttemptRow]
            /\ \A a \in Attempts : attempt'[a].state = "open" => SentToEnabled(attempt'[a].payload)
  <2> SUFFICES ASSUME NEW a \in Attempts, attempt'[a].state = "open"
               PROVE  SentToEnabled(attempt'[a].payload)
    BY AttemptsMove
  <2>1. AttemptMove(a) /\ attempt[a] \in AttemptRow
    BY AttemptsMove DEF TypeInv, TypeOK
  <2>2. CASE attempt'[a] = attempt[a]
    BY <2>2 DEF TypeInv
  <2>3. attempt'[a] # [attempt[a] EXCEPT !.state = "gone"]
    BY <2>1 DEF AttemptRow
  <2>4. ASSUME NEW h \in Handlers, At(h, "discovery"),
               attempt'[a] = [state |-> "open", payload |-> handler[h].payload]
        PROVE  SentToEnabled(attempt'[a].payload)
    BY <2>4 DEF TypeInv, GoodHandler, At
  <2> QED
    BY <2>1, <2>2, <2>3, <2>4 DEF AttemptMove
<1>provider. /\ provider' \in [Providers -> ProviderRow] /\ changes' \in 0..MaxChanges
  <2>1. CASE UNCHANGED <<provider, changes>>
    BY <2>1, <1>types
  <2>2. ASSUME NEW h \in Handlers, CompleteSetup(h)
        PROVE  /\ provider' \in [Providers -> ProviderRow] /\ changes' \in 0..MaxChanges
    <3>1. [exists |-> TRUE, enabled |-> TRUE, version |-> 1, createdAt |-> changes] \in ProviderRow
      BY <1>types, ChangesAreNumber DEF ProviderRow
    <3> QED
      BY <2>2, <3>1, <1>types DEF CompleteSetup
  <2>3. ASSUME Change
        PROVE  changes' \in 0..MaxChanges
    BY <2>3, <1>types, ChangesAreNumber DEF Change
  <2>4. ASSUME NEW p \in Providers, NEW enabled \in BOOLEAN, SaveProvider(p, enabled)
        PROVE  /\ provider' \in [Providers -> ProviderRow] /\ changes' \in 0..MaxChanges
    <3>1. changes' \in 0..MaxChanges /\ changes' \in Nat
      BY <2>3, <2>4, ChangesAreNumber DEF SaveProvider
    <3> DEFINE new == [exists |-> TRUE, enabled |-> enabled, version |-> 1, createdAt |-> changes']
               saved == [provider[p] EXCEPT !.enabled = enabled, !.version = provider[p].version + 1]
    <3>2. new \in ProviderRow
      BY <3>1 DEF ProviderRow
    <3>3. saved \in ProviderRow
      <4>1. provider[p].version + 1 \in Nat /\ provider[p] \in ProviderRow
        BY <1>types DEF ProviderRow
      <4> QED
        BY Zenon, <4>1 DEF ProviderRow
    <3>4. provider' = [provider EXCEPT ![p] = IF provider[p].exists THEN saved ELSE new]
      BY Zenon, <2>4, <1>types DEF SaveProvider
    <3> QED
      BY <3>1, <3>2, <3>3, <3>4, <1>types
  <2>5. ASSUME NEW p \in Providers, DeleteProvider(p)
        PROVE  /\ provider' \in [Providers -> ProviderRow] /\ changes' \in 0..MaxChanges
    BY <2>3, <2>5, <1>types DEF DeleteProvider, NoProvider, ProviderRow
  <2>6. ASSUME NEW h \in Handlers, Handle(h), ~CompleteSetup(h)
        PROVE  UNCHANGED <<provider, changes>>
    BY <2>6 DEF Handle, StartLogin, StartSetup, CreateAttempt, Consume, Verify, Exchange,
       Recheck, CompleteLogin, CreateSession, Rows
  <2>7. ASSUME UNCHANGED vars \/ ChangeToken \/ \E a \in Attempts : ExpireAttempt(a)
        PROVE  UNCHANGED <<provider, changes>>
    BY <2>7 DEF vars, ChangeToken, ExpireAttempt
  <2> QED
    BY <2>1, <2>2, <2>4, <2>5, <2>6, <2>7 DEF Next
<1>rest. /\ installed' \in Emails \cup {None} /\ token' \in Tokens
         /\ account' \in [Providers -> [Subjects -> Emails \cup {None}]]
         /\ session' \in [Attempts -> Emails \cup {None}]
  <2>1. ASSUME NEW h \in Handlers, CompleteLogin(h) \/ CompleteSetup(h)
        PROVE  /\ account' \in [Providers -> [Subjects -> Emails \cup {None}]]
               /\ installed' \in Emails \cup {None}
               /\ UNCHANGED <<token, session>>
    <3>1. handler[h].identity.email \in Emails \cup {None}
      BY <1>types DEF Handler, Identity
    <3> QED
      BY <2>1, <3>1, <1>types, UserOfIdentity DEF CompleteLogin, CompleteSetup
  <2>2. ASSUME NEW h \in Handlers, CreateSession(h)
        PROVE  /\ session' \in [Attempts -> Emails \cup {None}]
               /\ UNCHANGED <<token, account, installed>>
    <3>1. handler[h].identity.email \in Emails \cup {None}
      BY <1>types DEF Handler, Identity
    <3> QED
      BY <2>2, <3>1, <1>types DEF CreateSession
  <2>3. ASSUME NEW h \in Handlers, Handle(h), ~CompleteLogin(h), ~CompleteSetup(h), ~CreateSession(h)
        PROVE  UNCHANGED <<installed, token, account, session>>
    BY <2>3 DEF Handle, StartLogin, StartSetup, CreateAttempt, Consume, Verify, Exchange, Recheck, Rows
  <2>4. ASSUME UNCHANGED vars \/ (\E a \in Attempts : ExpireAttempt(a)) \/ ChangeToken
               \/ (\E p \in Providers : DeleteProvider(p))
               \/ (\E p \in Providers, enabled \in BOOLEAN : SaveProvider(p, enabled))
        PROVE  UNCHANGED <<installed, account, session>> /\ token' \in Tokens
    BY <2>4, <1>types DEF vars, ExpireAttempt, DeleteProvider, SaveProvider, ChangeToken
  <2> QED
    BY <2>1, <2>2, <2>3, <2>4, <1>types DEF Next
<1> QED
  BY <1>handler, <1>attempt, <1>provider, <1>rest DEF TypeInv, TypeOK
--------------------------------------------------------------------------------
\* Nothing installs but the completion of a setup that is still open.
LEMMA InstalledBy ==
  ASSUME TypeInv, [Next]_vars, installed' # installed
  PROVE  \E h \in Handlers : CompleteSetup(h) /\ SetupOpen(handler[h].payload) /\ Linkable(h)
<1>1. \A h \in Handlers : CompleteSetup(h) => SetupOpen(handler[h].payload) /\ Linkable(h)
  BY DEF CompleteSetup
<1>2. \A h \in Handlers : Handle(h) => CompleteSetup(h)
  BY DEF Handle, StartLogin, StartSetup, CreateAttempt, Consume, Verify, Exchange, Recheck,
     CompleteLogin, CreateSession, Rows
<1>3. \E h \in Handlers : Handle(h)
  BY DEF Next, vars, DeleteProvider, SaveProvider, ExpireAttempt, ChangeToken
<1> QED
  BY <1>1, <1>2, <1>3

\* An installation closes the setup attempts that are open, and none is stored afterwards.
LEMMA SetupStep ==
  ASSUME TypeInv, NoSetupAttemptAfterwards, [Next]_vars
  PROVE  NoSetupAttemptAfterwards'
<1> SUFFICES ASSUME installed' # None, NEW a \in Attempts, attempt'[a].state = "open"
             PROVE  ~IsSetup(attempt'[a].payload)
  BY DEF NoSetupAttemptAfterwards
<1>a. attempt[a] \in AttemptRow
  BY DEF TypeInv, TypeOK
<1>1. CASE installed' = installed
  <2>1. AttemptMove(a) /\ installed # None
    BY <1>1, AttemptsMove
  <2>2. attempt'[a] # [attempt[a] EXCEPT !.state = "gone"]
    BY <1>a DEF AttemptRow
  <2>3. ASSUME NEW h \in Handlers, IsSetup(handler[h].payload) => installed = None,
               attempt'[a] = [state |-> "open", payload |-> handler[h].payload]
        PROVE  ~IsSetup(attempt'[a].payload)
    BY <2>1, <2>3
  <2>4. attempt'[a] = attempt[a] => ~IsSetup(attempt'[a].payload)
    BY <2>1 DEF NoSetupAttemptAfterwards
  <2> QED
    BY <2>1, <2>2, <2>3, <2>4 DEF AttemptMove
<1>2. CASE installed' # installed
  <2>1. PICK h \in Handlers : CompleteSetup(h) /\ SetupOpen(handler[h].payload) /\ Linkable(h)
    BY <1>2, InstalledBy
  <2>2. attempt'[a] = IF attempt[a].state = "open" /\ IsSetup(attempt[a].payload)
                      THEN [attempt[a] EXCEPT !.state = "gone"] ELSE attempt[a]
    BY <2>1 DEF CompleteSetup
  <2> QED
    BY <2>2, <1>a DEF AttemptRow
<1> QED
  BY <1>1, <1>2

\* The one who installs is the address that the holder of the valid setup token named.
LEMMA InstallerNamed ==
  ASSUME TypeInv, [Next]_vars, installed' # installed
  PROVE  /\ installed = None
         /\ \E h \in Handlers :
              /\ handler[h].payload.token = token
              /\ handler[h].payload.email = installed' /\ handler'[h].identity.email = installed'
<1>1. PICK h \in Handlers : CompleteSetup(h) /\ SetupOpen(handler[h].payload) /\ Linkable(h)
  BY InstalledBy
<1>2. handler[h] \in GoodHandler /\ handler \in [Handlers -> Handler]
  BY DEF TypeInv, TypeOK
<1>3. /\ At(h, "complete") /\ handler[h].payload.mode = "setup"
      /\ installed' = handler[h].identity.email /\ SignedIn(h)
  BY <1>1 DEF CompleteSetup
<1>4. handler[h].payload.email = installed'
  BY <1>2, <1>3 DEF At, GoodHandler
<1>5. handler' = [handler EXCEPT ![h].pc = "session", ![h].identity.email = installed']
  BY <1>1, <1>3, UserOfIdentity DEF SignedIn
<1>6. handler'[h].identity.email = installed'
  BY <1>2, <1>5 DEF Handler, Identity
<1> QED
  BY <1>1, <1>4, <1>6 DEF SetupOpen

\* A login that commits finds the row its user was sent to: the row still exists and is
\* enabled, as the one it saw, and neither its version nor its creation differ.
LEMMA LoginFindsItsRow ==
  ASSUME TypeInv, [Next]_vars, NEW h \in Handlers, At(h, "complete"),
         handler'[h].pc = "session", handler[h].payload.mode = "login"
  PROVE  handler[h].payload.seen = provider[handler[h].payload.provider]
<1> DEFINE seen == handler[h].payload.seen
           row == provider[handler[h].payload.provider]
<1>h. /\ handler[h] \in GoodHandler /\ handler \in [Handlers -> Handler]
      /\ handler[h].payload \in Payload
  BY DEF TypeInv, TypeOK, Handler
<1>1. handler'[h] # handler[h]
  BY DEF At
<1>2. PICK k \in Handlers : Handle(k)
  BY <1>1 DEF Next, vars, DeleteProvider, SaveProvider, ExpireAttempt, ChangeToken
<1>3. k = h
  BY <1>1, <1>2, <1>h, HandlerStep
<1>4. CompleteLogin(h)
  BY <1>2, <1>3 DEF Handle, StartLogin, StartSetup, CreateAttempt, Consume, Verify, Exchange,
     Recheck, CompleteSetup, CreateSession, At
<1>5. ~Finish(h)
  BY <1>h DEF Finish, Idle
<1>6. AttemptProvider(handler[h].payload)
  BY <1>4, <1>5 DEF CompleteLogin
<1>7. seen \in ProviderRow /\ row \in ProviderRow
  BY <1>h DEF TypeInv, TypeOK, Payload
<1>8. seen.exists /\ seen.enabled
  BY <1>h DEF GoodHandler, SentToEnabled, At
<1>9. /\ row.exists /\ row.enabled
      /\ row.version = seen.version /\ row.createdAt = seen.createdAt
  BY <1>6 DEF AttemptProvider
<1> HIDE DEF seen, row
<1>10. /\ row = [exists |-> row.exists, enabled |-> row.enabled,
                 version |-> row.version, createdAt |-> row.createdAt]
       /\ seen = [exists |-> seen.exists, enabled |-> seen.enabled,
                  version |-> seen.version, createdAt |-> seen.createdAt]
  BY <1>7 DEF ProviderRow
<1>11. /\ row.exists = TRUE /\ row.enabled = TRUE /\ seen.exists = TRUE /\ seen.enabled = TRUE
  BY Zenon, <1>7, <1>8, <1>9 DEF ProviderRow
<1>12. seen = row
  BY Zenon, <1>9, <1>10, <1>11
<1> QED
  BY <1>12 DEF seen, row
--------------------------------------------------------------------------------
\* The invariant holds at first: no request, no attempt.
LEMMA StartsWell ==
  ASSUME Init
  PROVE  TypeInv /\ NoSetupAttemptAfterwards
<1>1. NoProvider \in ProviderRow
  BY DEF NoProvider, ProviderRow
<1>2. Idle \in GoodHandler /\ Idle \in Handler
  BY IdleIsGood DEF GoodHandler
<1>3. [state |-> "unused", payload |-> NoPayload] \in AttemptRow
  BY <1>2 DEF Idle, Handler, AttemptRow
<1>4. TypeOK
  BY <1>1, <1>2, <1>3, ChangesAreNumber DEF Init, TypeOK
<1>5. /\ \A h \in Handlers : handler[h] \in GoodHandler
      /\ \A a \in Attempts : attempt[a].state # "open"
  BY <1>2 DEF Init
<1> QED
  BY <1>4, <1>5 DEF TypeInv, NoSetupAttemptAfterwards

\* Types, and that no setup attempt outlives the installation, in every behaviour.
LEMMA Invariance == Spec => [](TypeInv /\ NoSetupAttemptAfterwards)
<1>1. TypeInv /\ NoSetupAttemptAfterwards /\ [Next]_vars => (TypeInv /\ NoSetupAttemptAfterwards)'
  BY TypeStep, SetupStep
<1> QED
  BY <1>1, StartsWell, PTL DEF Spec

\* Every variable of sign-in and installation has its type.
THEOREM TypeCorrect == Spec => []TypeOK
<1>1. TypeInv => TypeOK
  BY DEF TypeInv
<1> QED
  BY <1>1, Invariance, PTL

\* No setup attempt outlives the installation.
THEOREM SetupEnds == Spec => []NoSetupAttemptAfterwards
  BY Invariance, PTL

\* The installation happens once, to the address the holder of the setup token named.
THEOREM InstallsOnce == Spec => InstalledOnce
<1>1. TypeInv /\ [Next]_vars
        => [installed' # installed =>
              /\ installed = None
              /\ \E h \in Handlers :
                   /\ handler[h].payload.token = token
                   /\ handler[h].payload.email = installed' /\ handler'[h].identity.email = installed']_vars
  BY InstallerNamed
<1> QED
  BY <1>1, Invariance, PTL DEF Spec, InstalledOnce

\* A login commits only under the provider row its user was sent to.
THEOREM LoginsKeepTheirProvider == Spec => LoginByUnchangedProvider
<1>1. TypeInv /\ [Next]_vars
        => [\A h \in Handlers :
              At(h, "complete") /\ handler'[h].pc = "session" /\ handler[h].payload.mode = "login"
              => handler[h].payload.seen = provider[handler[h].payload.provider]]_vars
  BY LoginFindsItsRow
<1> QED
  BY <1>1, Invariance, PTL DEF Spec, LoginByUnchangedProvider
================================================================================
