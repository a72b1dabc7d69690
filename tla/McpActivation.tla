----------------------------- MODULE McpActivation -----------------------------
(***************************************************************************)
(* One session of the Goose extension: McpActivation of                    *)
(* goose-extension/src/activation.ts with native discovery, over the CLI   *)
(* it runs.  The host sends requests concurrently and may cancel them;     *)
(* discoveries, removals, choices of an account and results go through one *)
(* queue, while tool calls run their CLI process outside of it.  Meanwhile *)
(* accounts become ready or not, and another user signs in to the CLI.     *)
(*                                                                         *)
(* An action is what runs between two awaits.  A selector names a native   *)
(* resource, a connector, or a type with several connectors; the accounts  *)
(* of a connector are its connections.                                     *)
(***************************************************************************)
EXTENDS CliRunner

CONSTANTS
  Callers,              \* requests of the host, each in use for one at a time
  Queue,                \* the run of the request at the head of the queue
  Users,                \* who may be signed in to the CLI
  Resources, Connectors, Connections, ConnectorSelectors,
  KeyOf,                \* the connector of a connection
  KeysOf,               \* the connectors a selector names
  Requests,             \* the sets of selectors the host discovers
  None,
  MaxQueued, MaxWaiters, \* 16 in the code, both
  MaxRequests, MaxChanges \* bounds: of the host's requests, of changes around it

Sources == Resources \cup Connectors
Selectors == Resources \cup ConnectorSelectors

ASSUME RunsAreOfTheSession == Runs = Callers \cup {Queue} /\ Queue \notin Callers
ASSUME SelectorsResolve ==
  /\ KeyOf \in [Connections -> Connectors]
  /\ KeysOf \in [ConnectorSelectors -> SUBSET Connectors]
  /\ Requests \subseteq SUBSET Selectors
  /\ Resources \cap (Connectors \cup ConnectorSelectors) = {}
ASSUME NoneIsNobody == None \notin Users \cup Connections
ASSUME SessionBounds == {MaxQueued, MaxWaiters} \subseteq Nat \ {0} /\ {MaxRequests, MaxChanges} \subseteq Nat

VARIABLES
  user,      \* external: who is signed in to the CLI
  ready,     \* external: the connections that can be used
  identity,  \* nativeIdentity: whose routes these are
  bound,     \* sessionBindings: the account of each selector
  pending,   \* pendingDiscovery: selectors that wait for a choice, their request and accounts
  routes,    \* the published tools and resources of each source
  queue,     \* the tail of exclusive tasks, the running one first
  stage,     \* how far the head of the queue is
  caller,    \* the host's requests
  published, \* history: accounts published by this identity
  requests, changes  \* what is left of the bounds

vars == <<runnerVars, user, ready, identity, bound, pending, routes, queue, stage, caller,
          published, requests, changes>>

Route == [user : Users \cup {None}, conn : Connections \cup {None}]
NoRoute == [user |-> None, conn |-> None]
Pending == [request : Requests \cup {{}}, choices : SUBSET Connections]
NotPending == [request |-> {}, choices |-> {}]

\* open: it is the sharedDiscovery that equal requests join.
Task == [kind : {"discover", "remove", "select", "deliver"}, what : SUBSET (Selectors \cup Sources),
         choice : Connections \cup {None}, by : SUBSET Callers, open : BOOLEAN, aborted : BOOLEAN]
NewTask(kind, p) == [kind |-> kind, what |-> {}, choice |-> None, by |-> {p},
                     open |-> FALSE, aborted |-> FALSE]

\* route: the binding a tool call took when it began.
Caller == [pc : {"idle", "queued", "calling"}, route : Route]
NoCall == [pc |-> "idle", route |-> NoRoute]

TypeOK ==
  /\ RunnerTypeOK
  /\ user \in Users /\ ready \subseteq Connections
  /\ identity \in Users \cup {None}
  /\ bound \in [ConnectorSelectors -> Connections \cup {None}]
  /\ pending \in [ConnectorSelectors -> Pending]
  /\ routes \in [Sources -> Route]
  /\ queue \in Seq(Task) /\ Len(queue) <= MaxQueued
  /\ stage \in {"queued", "asked", "notifying"}
  /\ caller \in [Callers -> Caller]
  /\ published \subseteq Connections
  /\ requests \in 0..MaxRequests /\ changes \in 0..MaxChanges

Init ==
  /\ RunnerInit
  /\ user \in Users /\ ready \in SUBSET Connections
  /\ identity = None
  /\ bound = [s \in ConnectorSelectors |-> None]
  /\ pending = [s \in ConnectorSelectors |-> NotPending]
  /\ routes = [s \in Sources |-> NoRoute]
  /\ queue = <<>> /\ stage = "queued"
  /\ caller = [p \in Callers |-> NoCall]
  /\ published = {}
  /\ requests = MaxRequests /\ changes = MaxChanges

session == <<identity, bound, pending, routes, published>>
environment == <<user, ready, changes>>
--------------------------------------------------------------------------------
(* Requests of the host. *)

Queued(p) == caller' = [caller EXCEPT ![p].pc = "queued"]
Request(p) == /\ caller[p].pc = "idle" /\ requests > 0 /\ ~closed
              /\ requests' = requests - 1

\* sharedDiscovery is dropped, so later discoveries start over.
Unshared == [i \in DOMAIN queue |-> [queue[i] EXCEPT !.open = FALSE]]

\* exclusive, after sharedDiscovery was set or dropped: at the tail, or refused.
Enqueue(p, task) ==
  IF Len(queue) < MaxQueued
  THEN queue' = Append(Unshared, task) /\ Queued(p)
  ELSE queue' = Unshared /\ UNCHANGED caller

\* discoverShared: join an equal discovery that was not given up, or begin one.
Joinable(what) == {i \in DOMAIN queue : queue[i].open /\ ~queue[i].aborted /\ queue[i].what = what}
Discover(p, what) ==
  /\ Request(p)
  /\ \/ \E i \in Joinable(what) :
          IF Cardinality(queue[i].by) < MaxWaiters
          THEN queue' = [queue EXCEPT ![i].by = @ \cup {p}] /\ Queued(p)
          ELSE UNCHANGED <<queue, caller>>
     \/ /\ Joinable(what) = {}
        /\ Enqueue(p, [NewTask("discover", p) EXCEPT !.what = what, !.open = TRUE])
  /\ UNCHANGED <<runnerVars, session, stage, environment>>

\* Faulty variant: a removal leaves the shared discovery to be joined.
EnqueueOnly(p, task) ==
  IF Len(queue) < MaxQueued
  THEN queue' = Append(queue, task) /\ Queued(p)
  ELSE UNCHANGED <<queue, caller>>
EnqueueRemoval(p, task) == Enqueue(p, task)

DiscoverRemove(p, sources) ==
  /\ Request(p)
  /\ EnqueueRemoval(p, [NewTask("remove", p) EXCEPT !.what = sources])
  /\ UNCHANGED <<runnerVars, session, stage, environment>>

\* select_mcp_connection, which is offered while a choice is pending.
Select(p, c) ==
  /\ Request(p)
  /\ \E s \in ConnectorSelectors : pending[s] # NotPending
  /\ Enqueue(p, [NewTask("select", p) EXCEPT !.choice = c])
  /\ UNCHANGED <<runnerVars, session, stage, environment>>

\* call of a published tool: its process starts at once, outside the queue.
CallTool(p, s) ==
  /\ Request(p)
  /\ routes[s] # NoRoute
  /\ StartRun(p)
  /\ caller' = [caller EXCEPT ![p] = [pc |-> "calling", route |-> routes[s]]]
  /\ UNCHANGED <<session, queue, stage, environment>>

\* The host cancels: a discovery is left, and given up when nobody waits for it any
\* more; other requests are cancelled where they look at their signal.
Cancel(p) ==
  /\ \/ \E i \in DOMAIN queue :
          /\ p \in queue[i].by /\ ~queue[i].aborted /\ queue[i].kind # "deliver"
          /\ LET by == IF queue[i].kind = "discover" THEN queue[i].by \ {p} ELSE queue[i].by
                 given == queue[i].kind # "discover" \/ by = {}
             IN /\ queue' = [queue EXCEPT ![i].by = by, ![i].aborted = given]
                /\ IF given /\ i = 1 /\ stage = "asked" /\ Stoppable(Queue)
                   THEN StopRun(Queue)
                   ELSE UNCHANGED runnerVars
                /\ caller' = IF queue[i].kind = "discover" THEN [caller EXCEPT ![p] = NoCall]
                             ELSE caller
     \/ /\ caller[p].pc = "calling" /\ StopRun(p) /\ UNCHANGED <<queue, caller>>
  /\ UNCHANGED <<session, stage, environment, requests>>
--------------------------------------------------------------------------------
(* What the CLI's discover answers, from the accounts of the signed-in user and the *)
(* session's bindings.                                                              *)

\* The accounts the CLI is told of and whether there may be more: the list of
\* connections is full at 200.
Catalogs == [accounts : {ready}, full : {FALSE}] \cup [accounts : SUBSET ready, full : {TRUE}]

Candidates(s, catalog) == {c \in catalog.accounts : KeyOf[c] \in KeysOf[s]}
BindingsFor(s) == {b \in ConnectorSelectors :
                     bound[b] # None /\ (b = s \/ KeyOf[bound[b]] \in KeysOf[s])}
BoundAccounts(s) == IF bound[s] # None THEN {bound[s]}
                    ELSE LET accounts == {bound[b] : b \in BindingsFor(s)}
                         IN IF Cardinality(accounts) = 1 THEN accounts ELSE {}

\* The accounts a selector may be resolved with, once a choice was made or not: with a
\* full list the only candidate is not known to be the only account, and is asked for.
Chosen(s, choice) == choice # None /\ KeyOf[choice] \in KeysOf[s]
Accounts(s, choice, catalog) ==
  CASE BoundAccounts(s) # {} -> {c \in BoundAccounts(s) \cap catalog.accounts :
                                   Chosen(s, choice) => c = choice}
    [] BoundAccounts(s) = {} /\ Chosen(s, choice) -> {choice} \cap catalog.accounts
    [] OTHER -> IF catalog.full THEN {} ELSE Candidates(s, catalog)
Asks(s, choice, catalog) ==
  /\ BoundAccounts(s) = {} /\ ~Chosen(s, choice)
  /\ catalog.full \/ Cardinality(Candidates(s, catalog)) > 1

\* The account each connector of a request is resolved with; two selectors that
\* disagree leave it unavailable.
ResolvedBy(what, choice, catalog, c) ==
  {s \in what \cap ConnectorSelectors : Accounts(s, choice, catalog) = {c}}
Resolved(what, choice, catalog) ==
  {c \in Connections : /\ ResolvedBy(what, choice, catalog, c) # {}
                       /\ \A d \in Connections \ {c} :
                            KeyOf[d] = KeyOf[c] => ResolvedBy(what, choice, catalog, d) = {}}

\* Faulty variant: the extension trusts the account the CLI resolved.
Trusted(c) == TRUE
NotRebound(c) ==
  \A s \in ConnectorSelectors :
    bound[s] # None /\ KeyOf[bound[s]] = KeyOf[c] => bound[s] = c
--------------------------------------------------------------------------------
(* The queue. *)

\* The head of the queue is done, or has failed: its callers have their answer.
Finish ==
  /\ caller' = [p \in Callers |-> IF p \in Head(queue).by THEN NoCall ELSE caller[p]]
  /\ queue' = Tail(queue)
  /\ stage' = "queued"

AtHead(kind) == queue # <<>> /\ stage = "queued" /\ Head(queue).kind = kind

\* A request that was cancelled in the queue, or a choice that nothing waits for.
Offered(c) == {s \in ConnectorSelectors : c \in pending[s].choices}
Refuse ==
  /\ queue # <<>> /\ stage = "queued"
  /\ \/ Head(queue).aborted
     \/ Head(queue).kind = "select" /\ Offered(Head(queue).choice) = {}
  /\ Finish
  /\ UNCHANGED <<runnerVars, session, environment, requests>>

\* discoverNative up to its call of the CLI; a choice repeats the request it was
\* pending for.
Ask ==
  /\ AtHead("discover") \/ AtHead("select")
  /\ ~Head(queue).aborted
  /\ IF Head(queue).kind = "discover" THEN UNCHANGED queue
     ELSE \E s \in Offered(Head(queue).choice) :
            queue' = [queue EXCEPT ![1].what = pending[s].request]
  /\ stage' = "asked"
  /\ StartRun(Queue)
  /\ UNCHANGED <<session, caller, environment, requests>>

AskFails ==
  /\ stage = "asked" /\ run[Queue].pc = "failed"
  /\ run' = [run EXCEPT ![Queue] = NoRun]
  /\ Finish
  /\ UNCHANGED <<running, waiting, closed, session, environment, requests>>

\* resetRequired: another user is signed in.
Reset ==
  /\ identity' = None
  /\ bound' = [s \in ConnectorSelectors |-> None]
  /\ pending' = [s \in ConnectorSelectors |-> NotPending]
  /\ routes' = [s \in Sources |-> NoRoute]
  /\ published' = {}

\* The results are published, but for sources that could not be loaded or exceed the
\* limits (lost).
Publish(what, choice, catalog) ==
  \E lost \in SUBSET Sources :
    LET accounts == {c \in Resolved(what, choice, catalog) : NotRebound(c) /\ KeyOf[c] \notin lost}
        keys == {KeyOf[c] : c \in accounts}
        natives == (what \cap Resources) \ lost
        accountOf(k) == CHOOSE c \in accounts : KeyOf[c] = k
    IN /\ lost \subseteq {KeyOf[c] : c \in Resolved(what, choice, catalog)} \cup (what \cap Resources)
       /\ identity' = user
       /\ routes' = [s \in Sources |->
            CASE s \in keys -> [user |-> user, conn |-> accountOf(s)]
              [] s \in natives -> [user |-> user, conn |-> None]
              [] OTHER -> routes[s]]
       /\ bound' = [s \in ConnectorSelectors |->
            IF \E c \in accounts : s \in ResolvedBy(what, choice, catalog, c)
            THEN CHOOSE c \in accounts : s \in ResolvedBy(what, choice, catalog, c) ELSE bound[s]]
       /\ pending' = [s \in ConnectorSelectors |->
            CASE s \in what /\ Asks(s, choice, catalog) ->
                   [request |-> what, choices |-> Candidates(s, catalog)]
              [] \E c \in accounts : s \in ResolvedBy(what, choice, catalog, c) -> NotPending
              [] OTHER -> pending[s]]
       /\ published' = published \cup accounts

\* discoverNative from the CLI's answer to the notifications it awaits.
Discovered ==
  /\ stage = "asked"
  /\ ChildAnswers(Queue)
  /\ IF identity \notin {None, user} THEN Reset
     ELSE \E catalog \in Catalogs : Publish(Head(queue).what, Head(queue).choice, catalog)
  /\ stage' = "notifying"
  /\ UNCHANGED <<queue, caller, environment, requests>>


\* The choice of an account outlives the removal of its source.
RemoveSources ==
  /\ AtHead("remove") /\ ~Head(queue).aborted
  /\ LET sources == Head(queue).what
     IN /\ routes' = [s \in Sources |-> IF s \in sources THEN NoRoute ELSE routes[s]]
        /\ pending' = [s \in ConnectorSelectors |->
             IF s \in sources \/ \E c \in pending[s].choices : KeyOf[c] \in sources
             THEN NotPending ELSE pending[s]]
        /\ UNCHANGED bound
  /\ stage' = "notifying"
  /\ UNCHANGED <<runnerVars, identity, published, queue, caller, environment, requests>>

Notified ==
  /\ stage = "notifying"
  /\ Finish
  /\ UNCHANGED <<runnerVars, session, environment, requests>>

\* The result of a call waits in the queue; handed over there, or refused because its
\* binding was replaced meanwhile, it ends the call.
CallAnswered(p) ==
  /\ caller[p].pc = "calling"
  /\ user = caller[p].route.user
  /\ caller[p].route.conn \in ready \cup {None}
  /\ ChildAnswers(p)
  /\ IF Len(queue) < MaxQueued
     THEN queue' = Append(queue, NewTask("deliver", p)) /\ Queued(p)
     ELSE UNCHANGED queue /\ caller' = [caller EXCEPT ![p] = NoCall]
  /\ UNCHANGED <<session, stage, environment, requests>>

CallFails(p) ==
  /\ caller[p].pc = "calling" /\ run[p].pc = "failed"
  /\ run' = [run EXCEPT ![p] = NoRun]
  /\ caller' = [caller EXCEPT ![p] = NoCall]
  /\ UNCHANGED <<running, waiting, closed, session, queue, stage, environment, requests>>

Deliver ==
  /\ AtHead("deliver")
  /\ Finish
  /\ UNCHANGED <<runnerVars, session, environment, requests>>
--------------------------------------------------------------------------------
\* Another user signs in; a connection becomes usable, or stops to be.
Environment ==
  /\ changes > 0
  /\ changes' = changes - 1
  /\ \/ user' \in Users \ {user} /\ UNCHANGED ready
     \/ /\ \E c \in Connections : ready' = IF c \in ready THEN ready \ {c} ELSE ready \cup {c}
        /\ UNCHANGED user
  /\ UNCHANGED <<runnerVars, session, queue, stage, caller, requests>>

\* The runner's own steps, deadlines and the end of the session.
Runner ==
  /\ \/ \E r \in Runs : RunStep(r) \/ StopRun(r)
     \/ Close
  /\ UNCHANGED <<session, queue, stage, caller, environment, requests>>

Next ==
  \/ \E p \in Callers :
       \/ \E what \in Requests : Discover(p, what)
       \/ \E s \in Sources : DiscoverRemove(p, {s}) \/ CallTool(p, s)
       \/ \E c \in Connections : Select(p, c)
       \/ Cancel(p) \/ CallAnswered(p) \/ CallFails(p)
  \/ Refuse \/ Ask \/ AskFails \/ Discovered \/ RemoveSources \/ Notified \/ Deliver
  \/ Environment \/ Runner

Spec == Init /\ [][Next]_vars
--------------------------------------------------------------------------------
\* "A connector cannot switch accounts in this session": whatever was discovered,
\* chosen, removed and discovered again, under one identity a connector has been
\* published with one account, and every route is of that identity and account.
OneAccountPerConnector ==
  /\ \A c, d \in published : KeyOf[c] = KeyOf[d] => c = d
  /\ \A s \in Sources : routes[s] # NoRoute =>
       /\ routes[s].user = identity
       /\ s \in Connectors => routes[s].conn \in published /\ KeyOf[routes[s].conn] = s

\* The host's requests take effect in the order it sent them: a discovery is never
\* answered by one that was queued ahead of a removal, or of a choice, sent before it.
AnsweredInOrder ==
  [][\A p \in Callers, i \in DOMAIN queue' :
       caller[p].pc = "idle" /\ p \in queue'[i].by
         => \A j \in DOMAIN queue' : j > i => queue'[j].kind \notin {"remove", "select"}]_vars
================================================================================
