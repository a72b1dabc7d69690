--------------------------- MODULE LoginInstallation ---------------------------
(***************************************************************************)
(* Browser sign-in and the installation of auth/login-service.ts, with the *)
(* callback endpoint of auth/oidc-plugin.ts and the changes of providers   *)
(* of domain/login-provider-configuration.ts.                              *)
(*                                                                         *)
(* A start checks, discovers and stores an attempt; a callback claims the  *)
(* attempt, checks, exchanges the code, checks again, commits and creates  *)
(* a session.  A transaction holds its row and advisory locks to the end,  *)
(* so it is one action; requests interleave between transactions.  An      *)
(* issuer is named by its provider, a user by the e-mail address.          *)
(***************************************************************************)
EXTENDS Naturals, FiniteSets

CONSTANTS
  Handlers,   \* requests being served
  Attempts,   \* ids of attempts, each used once
  Providers,
  First,      \* the provider installation creates
  Subjects,   \* subjects of an issuer
  Emails,
  Tokens,     \* setup tokens of the operator
  None,
  MaxChanges  \* bound: changes of provider rows

ASSUME FirstIsProvider == First \in Providers
ASSUME NoneIsNothing == None \notin Attempts \cup Providers \cup Emails \cup Tokens \cup Subjects
ASSUME ChangesAreNumber == MaxChanges \in Nat

VARIABLES
  installed,  \* LoginInstallation: the e-mail of its administrator, or None
  token,      \* WELDALL_SETUP_TOKEN
  provider,   \* LoginProvider rows
  changes,    \* how often the rows changed so far, which is the clock of createdAt
  attempt,    \* LoginAttempt rows
  account,    \* Account rows: the user of each subject of an issuer
  handler,    \* the requests
  session     \* the users signed in, by the attempt they used

vars == <<installed, token, provider, changes, attempt, account, handler, session>>

Modes == {"login", "setup", "setup-test"}
\* enabled stands for enabled, with a secret and validated.
ProviderRow == [exists : BOOLEAN, enabled : BOOLEAN, version : Nat, createdAt : Nat]
NoProvider == [exists |-> FALSE, enabled |-> FALSE, version |-> 0, createdAt |-> 0]
Payload == [mode : Modes, provider : Providers, seen : ProviderRow,
            email : Emails \cup {None}, token : Tokens \cup {None}]
NoPayload == [mode |-> "login", provider |-> First, seen |-> NoProvider,
              email |-> None, token |-> None]
AttemptRow == [state : {"unused", "open", "gone"}, payload : Payload]
Identity == [subject : Subjects \cup {None}, email : Emails \cup {None}]
NoIdentity == [subject |-> None, email |-> None]
Handler == [pc : {"idle", "discovery", "verify", "exchange", "recheck", "complete", "session"},
            id : Attempts \cup {None}, payload : Payload, identity : Identity]
Idle == [pc |-> "idle", id |-> None, payload |-> NoPayload, identity |-> NoIdentity]

TypeOK ==
  /\ installed \in Emails \cup {None} /\ token \in Tokens
  /\ provider \in [Providers -> ProviderRow] /\ changes \in 0..MaxChanges
  /\ attempt \in [Attempts -> AttemptRow]
  /\ account \in [Providers -> [Subjects -> Emails \cup {None}]]
  /\ handler \in [Handlers -> Handler]
  /\ session \in [Attempts -> Emails \cup {None}]

Init ==
  /\ installed = None /\ token \in Tokens
  /\ provider = [p \in Providers |-> NoProvider] /\ changes = 0
  /\ attempt = [a \in Attempts |-> [state |-> "unused", payload |-> NoPayload]]
  /\ account = [p \in Providers |-> [s \in Subjects |-> None]]
  /\ handler = [h \in Handlers |-> Idle]
  /\ session = [a \in Attempts |-> None]
--------------------------------------------------------------------------------
At(h, pc) == handler[h].pc = pc
Goto(h, pc) == handler' = [handler EXCEPT ![h].pc = pc]
Finish(h) == handler' = [handler EXCEPT ![h] = Idle]
Rows == <<installed, token, provider, changes, attempt, account, session>>

IsSetup(payload) == payload.mode \in {"setup", "setup-test"}

\* startLogin: installation and provider are read before discovery.
StartLogin(h, p) ==
  /\ At(h, "idle")
  /\ installed # None
  /\ provider[p].exists /\ provider[p].enabled
  /\ handler' = [handler EXCEPT ![h].pc = "discovery",
       ![h].payload = [NoPayload EXCEPT !.provider = p, !.seen = provider[p]]]
  /\ UNCHANGED Rows

\* startSetup, by the holder of the setup token.
StartSetup(h, mode, email) ==
  /\ At(h, "idle")
  /\ installed = None
  /\ handler' = [handler EXCEPT ![h].pc = "discovery",
       ![h].payload = [NoPayload EXCEPT !.mode = mode, !.email = email, !.token = token]]
  /\ UNCHANGED Rows

\* Faulty variant: what startSetup found is not looked at again under the lock.
SetupAssumedOpen(payload) == TRUE
SetupOpen(payload) == installed = None /\ payload.token = token

\* The transaction of createAttempt.
CreateAttempt(h) ==
  LET payload == handler[h].payload
  IN /\ At(h, "discovery")
     /\ \/ /\ IsSetup(payload) => SetupOpen(payload)
           /\ \E a \in Attempts :
                /\ attempt[a].state = "unused"
                /\ attempt' = [attempt EXCEPT ![a] = [state |-> "open", payload |-> payload]]
        \/ UNCHANGED attempt      \* discovery fails, a check, or too many attempts
     /\ Finish(h)
     /\ UNCHANGED <<installed, token, provider, changes, account, session>>

Claimed(a) == [attempt EXCEPT ![a].state = "gone"]

\* consumeAttempt: DELETE ... RETURNING.
Consume(h, a) ==
  /\ At(h, "idle")
  /\ attempt[a].state = "open"
  /\ attempt' = Claimed(a)
  /\ handler' = [handler EXCEPT ![h] =
       [Idle EXCEPT !.pc = "verify", !.id = a, !.payload = attempt[a].payload]]
  /\ UNCHANGED <<installed, token, provider, changes, account, session>>

\* assertAttemptProvider.  Faulty variant: versions are compared, not creations.
SameVersion(payload) ==
  LET row == provider[payload.provider]
  IN row.exists /\ row.enabled /\ row.version = payload.seen.version
AttemptProvider(payload) ==
  LET row == provider[payload.provider]
  IN /\ row.exists /\ row.enabled
     /\ row.version = payload.seen.version /\ row.createdAt = payload.seen.createdAt

\* verifyAttempt before the exchange.
Verify(h) ==
  LET payload == handler[h].payload
  IN /\ At(h, "verify")
     /\ IF IF IsSetup(payload) THEN SetupOpen(payload) ELSE AttemptProvider(payload)
        THEN Goto(h, "exchange") ELSE Finish(h)
     /\ UNCHANGED Rows

\* verifyCallback: the issuer names the subject and its e-mail, or the exchange fails.
Exchange(h) ==
  /\ At(h, "exchange")
  /\ \/ \E s \in Subjects, e \in Emails :
          handler' = [handler EXCEPT ![h].identity = [subject |-> s, email |-> e],
            ![h].pc = IF IsSetup(handler[h].payload) THEN "recheck" ELSE "complete"]
     \/ Finish(h)
  /\ UNCHANGED Rows

\* verifyAttempt after the exchange of a setup; a test stops here.
Recheck(h) ==
  LET payload == handler[h].payload
  IN /\ At(h, "recheck")
     /\ IF /\ SetupOpen(payload)
           /\ handler[h].identity.email = payload.email
           /\ payload.mode = "setup"
        THEN Goto(h, "complete") ELSE Finish(h)
     /\ UNCHANGED Rows

\* linkIdentity: the account of the subject, which must be of the same e-mail, or a
\* new one for the user of that e-mail.
Linkable(h) ==
  LET i == handler[h].identity
  IN account[handler[h].payload.provider][i.subject] \in {None, i.email}
Linked(h) ==
  LET i == handler[h].identity
      p == handler[h].payload.provider
  IN IF account[p][i.subject] = None THEN [account EXCEPT ![p][i.subject] = i.email] ELSE account
User(h) == Linked(h)[handler[h].payload.provider][handler[h].identity.subject]

SignedIn(h) == handler' = [handler EXCEPT ![h].pc = "session", ![h].identity.email = User(h)]

\* completeVerifiedAttempt of a login, under the lock of the provider row.
CompleteLogin(h) ==
  LET payload == handler[h].payload
  IN /\ At(h, "complete") /\ payload.mode = "login"
     /\ IF AttemptProvider(payload) /\ Linkable(h)
        THEN account' = Linked(h) /\ SignedIn(h)
        ELSE Finish(h) /\ UNCHANGED account
     /\ UNCHANGED <<installed, token, provider, changes, attempt, session>>

\* completeVerifiedAttempt of a setup, under the lock of the installation row: the
\* first provider, the administrator, and the end of every other setup attempt.
CompleteSetup(h) ==
  LET payload == handler[h].payload
  IN /\ At(h, "complete") /\ payload.mode = "setup"
     /\ IF SetupOpen(payload) /\ Linkable(h)
        THEN /\ installed' = handler[h].identity.email
             /\ account' = Linked(h)
             /\ provider' = [provider EXCEPT ![First] =
                  [exists |-> TRUE, enabled |-> TRUE, version |-> 1, createdAt |-> changes]]
             /\ attempt' = [a \in Attempts |->
                  IF attempt[a].state = "open" /\ IsSetup(attempt[a].payload)
                  THEN [attempt[a] EXCEPT !.state = "gone"] ELSE attempt[a]]
             /\ SignedIn(h)
        ELSE Finish(h) /\ UNCHANGED <<installed, account, provider, attempt>>
     /\ UNCHANGED <<token, changes, session>>

\* createSession, after the commit.
CreateSession(h) ==
  /\ At(h, "session")
  /\ \/ session' = [session EXCEPT ![handler[h].id] = handler[h].identity.email]
     \/ UNCHANGED session
  /\ Finish(h)
  /\ UNCHANGED <<installed, token, provider, changes, attempt, account>>
--------------------------------------------------------------------------------
Enabled == {p \in Providers : provider[p].exists /\ provider[p].enabled}
Change == installed # None /\ changes < MaxChanges /\ changes' = changes + 1

\* saveLoginProviderConfiguration, by an administrator or a configuration apply.
SaveProvider(p, enabled) ==
  LET row == provider[p]
  IN /\ Change
     /\ provider' = [provider EXCEPT ![p] =
          IF row.exists THEN [row EXCEPT !.enabled = enabled, !.version = row.version + 1]
          ELSE [exists |-> TRUE, enabled |-> enabled, version |-> 1, createdAt |-> changes']]
     /\ UNCHANGED <<installed, token, attempt, account, handler, session>>

\* deleteLoginProviderConfiguration; the last enabled one stays.
DeleteProvider(p) ==
  /\ Change
  /\ provider[p].exists
  /\ Enabled # {p}
  /\ provider' = [provider EXCEPT ![p] = NoProvider]
  /\ attempt' = [a \in Attempts |->
       IF attempt[a].state = "open" /\ attempt[a].payload.provider = p
       THEN [attempt[a] EXCEPT !.state = "gone"] ELSE attempt[a]]
  /\ UNCHANGED <<installed, token, account, handler, session>>

\* The operator changes the setup token.
ChangeToken ==
  /\ token' \in Tokens \ {token}
  /\ UNCHANGED <<installed, provider, changes, attempt, account, handler, session>>

\* Ten minutes pass.
ExpireAttempt(a) ==
  /\ attempt[a].state = "open"
  /\ attempt' = [attempt EXCEPT ![a].state = "gone"]
  /\ UNCHANGED <<installed, token, provider, changes, account, handler, session>>

Handle(h) ==
  \/ \E p \in Providers : StartLogin(h, p)
  \/ \E mode \in {"setup", "setup-test"}, email \in Emails : StartSetup(h, mode, email)
  \/ \E a \in Attempts : Consume(h, a)
  \/ CreateAttempt(h) \/ Verify(h) \/ Exchange(h) \/ Recheck(h)
  \/ CompleteLogin(h) \/ CompleteSetup(h) \/ CreateSession(h)

Next ==
  \/ \E h \in Handlers : Handle(h)
  \/ \E p \in Providers : DeleteProvider(p) \/ \E enabled \in BOOLEAN : SaveProvider(p, enabled)
  \/ \E a \in Attempts : ExpireAttempt(a)
  \/ ChangeToken

Spec == Init /\ [][Next]_vars
--------------------------------------------------------------------------------
\* Installation happens once, to the administrator the holder of the setup token
\* then valid named; whatever else is under way, nothing reopens or repeats it.
InstalledOnce ==
  [][installed' # installed =>
       /\ installed = None
       /\ \E h \in Handlers :
            /\ handler[h].payload.token = token
            /\ handler[h].payload.email = installed' /\ handler'[h].identity.email = installed']_vars

\* No setup attempt outlives the installation: one whose discovery was under way
\* when it completed is not stored.
NoSetupAttemptAfterwards ==
  installed # None =>
    \A a \in Attempts : attempt[a].state = "open" => ~IsSetup(attempt[a].payload)

\* A login commits only if the provider is still the row its user was sent to: not
\* saved, deleted or recreated since, even at the same version.
LoginByUnchangedProvider ==
  [][\A h \in Handlers :
       At(h, "complete") /\ handler'[h].pc = "session" /\ handler[h].payload.mode = "login"
       => handler[h].payload.seen = provider[handler[h].payload.provider]]_vars
================================================================================
