----------------------------- MODULE DeviceSession -----------------------------
(***************************************************************************)
(* The processes of the CLI that share one stored device session:          *)
(* SessionManager.getAccessSession, login, whoAmI, logout and the token    *)
(* exchange of prepareResourceClient, over the credential item of the      *)
(* keychain and the cross-process credential lock, with the server of      *)
(* RefreshFamilies.                                                        *)
(*                                                                         *)
(* A read, a write and a delete of the item are one step each.  Two logins *)
(* are two users, named by the family of their tokens.  A process that     *)
(* dies, is cancelled or fails to write lets the lock go; what it asked    *)
(* the server goes on.                                                     *)
(***************************************************************************)
EXTENDS RefreshFamilies

CONSTANTS
  Commands,     \* the commands users give
  MaxCommands,  \* bound: commands in a behaviour
  MaxLosses,    \* bound: processes and answers lost in a behaviour
  MaxFailures   \* bound: requests the server fails in a behaviour

ASSUME CommandsAreKnown ==
  Commands \subseteq {"access", "exchange", "whoami", "login", "logout"}
ASSUME BoundsAreNat == {MaxCommands, MaxLosses, MaxFailures} \subseteq Nat
ASSUME NoneIsNobody == None \notin Clients

\* The item: the refresh token, whether an access session is stored with it, and
\* whose identity is.
Item == [token : Tokens \cup {None}, session : BOOLEAN, identity : Tokens \cup {None}]
NoItem == [token |-> None, session |-> FALSE, identity |-> None]

ProcPhase == {"idle", "read", "lock", "locked", "refreshing", "store", "validate",
              "loggingIn", "replace", "insert", "revoking", "clear", "exchange",
              "exchanging", "userinfo", "name", "naming", "nameStore"}
Proc == [pc : ProcPhase, cmd : Commands \cup {None}, copy : Item]
Idle == [pc |-> "idle", cmd |-> None, copy |-> NoItem]

VARIABLES
  item,      \* the stored credentials
  fresh,     \* tokens whose access session has more than a minute left
  lock,      \* the holder of the credential lock
  proc,      \* the processes
  commands,  \* what is left of MaxCommands
  losses,    \* what is left of MaxLosses
  failures   \* what is left of MaxFailures

vars == <<serverVars, item, fresh, lock, proc, commands, losses, failures>>

TypeOK ==
  /\ ServerTypeOK
  /\ item \in Item
  /\ fresh \subseteq Tokens
  /\ lock \in Clients \cup {None}
  /\ proc \in [Clients -> Proc]
  /\ commands \in 0..MaxCommands /\ losses \in 0..MaxLosses /\ failures \in 0..MaxFailures

Init ==
  /\ ServerInit
  /\ item = NoItem /\ fresh = {} /\ lock = None
  /\ proc = [p \in Clients |-> Idle]
  /\ commands = MaxCommands /\ losses = MaxLosses /\ failures = MaxFailures
--------------------------------------------------------------------------------
Usable(i) == i.token # None /\ i.session /\ i.token \in fresh

\* The user of a token: sub of its access token.
Subject(t) == IF t = None THEN None ELSE binding[t].family

At(p, pc) == proc[p].pc = pc
Goto(p, pc) == proc' = [proc EXCEPT ![p].pc = pc]
End(p) == proc' = [proc EXCEPT ![p] = Idle]
Keep(p, pc, i) == proc' = [proc EXCEPT ![p].pc = pc, ![p].copy = i]

\* release() runs in the finally of withLock.  Faulty variant: only on success.
ReleasedOnSuccess(p) == IF ~req[p].ok /\ At(p, "refreshing") THEN lock ELSE None
Released(p) == IF lock = p THEN None ELSE lock
Release(p) == lock' = Released(p)

\* What the command goes on with once it has an access session.
WithAccess(p, i) ==
  CASE proc[p].cmd = "exchange" -> Keep(p, "exchange", i)
    [] proc[p].cmd = "whoami" -> Keep(p, "userinfo", i)
    [] OTHER -> End(p)

Start(p, cmd) ==
  /\ At(p, "idle") /\ req[p].pc = "idle"
  /\ commands > 0 /\ commands' = commands - 1
  /\ proc' = [proc EXCEPT ![p].cmd = cmd,
       ![p].pc = IF cmd \in {"login", "logout"} THEN "lock" ELSE "read"]
  /\ UNCHANGED <<serverVars, item, fresh, lock, losses, failures>>

\* The read outside the lock.
Read(p) ==
  /\ At(p, "read")
  /\ IF Usable(item) THEN WithAccess(p, item) ELSE Keep(p, "lock", item)
  /\ UNCHANGED <<serverVars, item, fresh, lock, commands, losses, failures>>

\* Faulty variant: a lock anyone may enter.
Anyone(p) == TRUE
LockFree(p) == lock = None
Acquire(p) ==
  /\ At(p, "lock") \/ At(p, "name")
  /\ LockFree(p)
  /\ lock' = p
  /\ Goto(p, IF At(p, "lock") THEN "locked" ELSE "naming")
  /\ UNCHANGED <<serverVars, item, fresh, commands, losses, failures>>

\* ELOCKED once the retries are spent.
GiveUp(p) ==
  /\ At(p, "lock") \/ At(p, "name")
  /\ lock # None
  /\ End(p)
  /\ UNCHANGED <<serverVars, item, fresh, lock, commands, losses, failures>>

\* Faulty variant: the refresh works with the copy read outside the lock.
UnlockedCopy(p) == proc[p].copy
Reread(p) == item

LockedRead(p) ==
  LET i == Reread(p)
  IN /\ At(p, "locked") /\ proc[p].cmd \in {"access", "exchange", "whoami"}
     /\ \/ i.token = None /\ End(p) /\ Release(p) /\ UNCHANGED req
        \/ Usable(i) /\ WithAccess(p, i) /\ Release(p) /\ UNCHANGED req
        \/ /\ i.token # None /\ ~Usable(i)
           /\ Keep(p, "refreshing", i)
           /\ Receive(p, "refresh", i.token)
           /\ UNCHANGED lock
     /\ UNCHANGED <<binding, provider, item, fresh, commands, losses, failures>>

\* The user completes the login in the browser, or does not.
LoginRequest(p) ==
  /\ At(p, "locked") /\ proc[p].cmd = "login"
  /\ \/ Goto(p, "loggingIn") /\ Receive(p, "login", None) /\ UNCHANGED lock
     \/ End(p) /\ Release(p) /\ UNCHANGED req
  /\ UNCHANGED <<binding, provider, item, fresh, commands, losses, failures>>

LogoutRequest(p) ==
  /\ At(p, "locked") /\ proc[p].cmd = "logout"
  /\ IF item.token = None
     THEN Goto(p, "clear") /\ UNCHANGED req
     ELSE Goto(p, "revoking") /\ Receive(p, "revoke", item.token)
  /\ UNCHANGED <<binding, provider, item, fresh, lock, commands, losses, failures>>

\* prepareResourceClient exchanges the refresh token it got with the session; the
\* registry it asks first may end the command.
ExchangeRequest(p) ==
  /\ At(p, "exchange")
  /\ \/ Goto(p, "exchanging") /\ Receive(p, "exchange", proc[p].copy.token)
     \/ End(p) /\ UNCHANGED req
  /\ UNCHANGED <<binding, provider, item, fresh, lock, commands, losses, failures>>

\* The answer of the server.
Answered(p) ==
  LET issued == req[p].issued
  IN /\ req[p].pc = "answered"
     /\ Taken(p)
     /\ \/ /\ At(p, "refreshing") /\ req[p].ok
           /\ Keep(p, "store", [proc[p].copy EXCEPT !.token = issued, !.session = FALSE])
           /\ UNCHANGED lock
        \/ /\ At(p, "loggingIn") /\ req[p].ok
           /\ Keep(p, "replace", [NoItem EXCEPT !.token = issued, !.session = TRUE])
           /\ UNCHANGED lock
        \/ (At(p, "refreshing") \/ At(p, "loggingIn")) /\ ~req[p].ok /\ End(p) /\ Release(p)
        \/ At(p, "revoking") /\ Goto(p, "clear") /\ UNCHANGED lock
        \/ At(p, "exchanging") /\ End(p) /\ UNCHANGED lock
        \/ At(p, "idle") /\ UNCHANGED <<proc, lock>>    \* nobody waits for it
     /\ UNCHANGED <<binding, provider, item, fresh, commands, losses, failures>>

\* onRotation: the new refresh token is saved before anything is validated.
StoreRotated(p) ==
  /\ At(p, "store")
  /\ item' = proc[p].copy
  /\ Goto(p, "validate")
  /\ UNCHANGED <<serverVars, fresh, lock, commands, losses, failures>>

\* validateAccessToken, then the write of the session; a cancelled command or a
\* token that does not validate leaves the item without a session.
StoreSession(p) ==
  LET stored == [proc[p].copy EXCEPT !.session = TRUE]
  IN /\ At(p, "validate")
     /\ \/ /\ item' = stored
           /\ fresh' = fresh \cup {stored.token}
           /\ WithAccess(p, stored)
        \/ End(p) /\ UNCHANGED <<item, fresh>>
     /\ Release(p)
     /\ UNCHANGED <<serverVars, commands, losses, failures>>

\* keychain.set in mode "replace": macOS deletes the item first.
DeleteOld(p) ==
  /\ At(p, "replace")
  /\ item' = NoItem
  /\ Goto(p, "insert")
  /\ UNCHANGED <<serverVars, fresh, lock, commands, losses, failures>>

\* The write of a login, which stores no identity.
Insert(p) ==
  /\ At(p, "replace") \/ At(p, "insert")
  /\ item' = proc[p].copy
  /\ fresh' = fresh \cup {proc[p].copy.token}
  /\ End(p) /\ Release(p)
  /\ UNCHANGED <<serverVars, commands, losses, failures>>

\* The finally of logout.
Clear(p) ==
  /\ At(p, "clear")
  /\ item' = NoItem
  /\ End(p) /\ Release(p)
  /\ UNCHANGED <<serverVars, fresh, commands, losses, failures>>

\* whoAmI asks for the profile of the session.
UserInfo(p) ==
  /\ At(p, "userinfo")
  /\ Goto(p, "name") \/ End(p)
  /\ UNCHANGED <<serverVars, item, fresh, lock, commands, losses, failures>>

\* Faulty variant: the profile is stored with the session the command began with.
NameUnread(p) == proc[p].copy
SameSubject(p) ==
  item.token # None /\ item.session /\ Subject(item.token) = Subject(proc[p].copy.token)
NameRead(p) == item

Naming(p) ==
  LET subject == Subject(proc[p].copy.token)
  IN /\ At(p, "naming")
     /\ IF SameSubject(p) /\ item.identity # subject
        THEN /\ Keep(p, "nameStore", [NameRead(p) EXCEPT !.identity = subject])
             /\ UNCHANGED lock
        ELSE End(p) /\ Release(p)
     /\ UNCHANGED <<serverVars, item, fresh, commands, losses, failures>>

NameStore(p) ==
  /\ At(p, "nameStore")
  /\ item' = proc[p].copy
  /\ End(p) /\ Release(p)
  /\ UNCHANGED <<serverVars, fresh, commands, losses, failures>>
--------------------------------------------------------------------------------
\* Time: an access session is within a minute of its end.
Expire(t) ==
  /\ fresh' = fresh \ {t}
  /\ UNCHANGED <<serverVars, item, lock, proc, commands, losses, failures>>

Serve(p) == ServerStep(p) /\ UNCHANGED <<item, fresh, lock, proc, commands, losses, failures>>

Lose == losses > 0 /\ losses' = losses - 1 /\ UNCHANGED failures

\* A process dies, is cancelled or fails to write; a dead one's lock goes stale.
Die(p) ==
  /\ ~At(p, "idle")
  /\ Lose
  /\ End(p) /\ Release(p)
  /\ UNCHANGED <<serverVars, item, fresh, commands>>

\* logout hears nothing from the server.
Unheard(p) ==
  /\ At(p, "revoking")
  /\ Lose
  /\ Goto(p, "clear")
  /\ UNCHANGED <<serverVars, item, fresh, lock, commands>>

\* The server loses a request between two of its steps, or its database does.
ServerFails(p) ==
  /\ req[p].pc \notin {"idle", "answered"}
  /\ failures > 0 /\ failures' = failures - 1
  /\ Answer(p, FALSE)
  /\ UNCHANGED <<binding, provider, item, fresh, lock, proc, commands, losses>>

Step(p) ==
  \/ Read(p) \/ Acquire(p) \/ GiveUp(p) \/ LockedRead(p) \/ LoginRequest(p)
  \/ LogoutRequest(p) \/ ExchangeRequest(p) \/ Answered(p) \/ StoreRotated(p)
  \/ StoreSession(p) \/ DeleteOld(p) \/ Insert(p) \/ Clear(p) \/ UserInfo(p)
  \/ Naming(p) \/ NameStore(p)

Next ==
  \/ \E p \in Clients :
       \/ \E cmd \in Commands : Start(p, cmd)
       \/ Step(p) \/ Serve(p) \/ Die(p) \/ Unheard(p) \/ ServerFails(p)
  \/ \E t \in fresh : Expire(t)

Spec == Init /\ [][Next]_vars

\* Processes run, and the server answers within the timeouts of fetch and database.
FairSpec == Spec /\ \A p \in Clients : WF_vars(Step(p)) /\ WF_vars(Serve(p))
--------------------------------------------------------------------------------
\* A family has at most one token that is neither rotated nor revoked: a refresh
\* spends the token it answers, whatever else runs or fails.
SingleLiveToken ==
  \A t, u \in Tokens :
    Live(t) /\ Live(u) /\ Subject(t) = Subject(u) => t = u

\* Unless something is lost, the CLI never presents a refresh token it has already
\* spent, which the server would take for a theft and end the session: the item is
\* read again under the lock and the new token is saved before the lock goes.
NoSelfReuse ==
  losses = MaxLosses /\ failures = MaxFailures =>
    \A p \in Clients : req[p].kind = "refresh" => ~req[p].seen.rotated

\* Unless something is lost, no command is taken for a reuse, the token exchange of
\* one that got its session just before another refreshed it included.
NoneTakenForReuse ==
  losses = MaxLosses /\ failures = MaxFailures =>
    \A p \in Clients : req[p].pc = "lookup" /\ req[p].pending = {} => ~ReuseSeen(p)

\* Unless the server fails a request, a family is revoked as a whole once the requests that
\* may have bound or revoked its tokens are done: a refresh that binds its successor
\* while the family is being revoked takes it along.
RevokedTogether ==
  /\ failures = MaxFailures
  /\ \A p \in Clients : req[p].pc \notin {"familyCheck", "familyRevoke"}
  => \A t, u \in Tokens :
       Subject(t) # None /\ Subject(t) = Subject(u) => (binding[t].revoked <=> binding[u].revoked)

\* "You are not logged in" is said only when nobody is storing a login: the locked
\* read waits for the delete and insert of a replacing login.
NotLoggedInIsTrue ==
  \A p, q \in Clients :
    At(p, "locked") /\ item.token = None => ~At(q, "insert")

\* What was replaced or removed never returns: after a logout only a login stores
\* credentials again, and no refresh or whoami that was under way puts a spent
\* refresh token back.
NoResurrection ==
  [][item'.token \notin {None, item.token} =>
       /\ ~provider[item'.token].rotated
       /\ item.token = None => \E p \in Clients : proc[p].cmd = "login" /\ proc'[p] = Idle]_vars

\* Every command ends and lets the lock go, whoever else holds it for how long.
CommandsEnd == \A p \in Clients : ~At(p, "idle") ~> At(p, "idle") /\ lock # p
================================================================================
