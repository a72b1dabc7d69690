# Formal models of Weldall

TLA+ specifications of the concurrent core of Weldall, model checked with TLC,
and theorems about them checked with TLAPS. Line numbers refer to the sources
under `src/`; `PROJECT.json` maps every definition to the lines it models.

## 1. The system and its components

Weldall gives people, agents and machines access to company services. The server
(`apps/weldall`, any number of processes over one PostgreSQL database) signs
users in, issues tokens, decides who may do what, keeps OAuth grants and service
credentials of connected services encrypted, and uses them on behalf of their
owners. The CLI (`apps/cli`) is any number of short-lived processes over one stored
device session; a Goose extension runs such processes for a session of the agent.
Resource servers use an SDK (`packages/sdk`) that verifies what Weldall signs.

| Component | State | Operations | What is hard | What makes it correct |
|---|---|---|---|---|
| Managed connections (`connectors/core/`) | Connection, ConnectionAuthorization, EncryptedValue rows; the provider's grants; audit entries | start, submit, callback, cancel, use/refresh, disconnect, delete | handlers hold snapshots across provider calls; tokens rotate; handlers die; nothing is retried | no ciphertext without a row, no grant lost, one exchange per attempt, no blind refresh, a blocked connection stays blocked |
| Connector configuration | Connector row and revision | save, delete | cascades under running handlers | as above |
| Shared connections | SCOPED Connection row, its credential | create, configure, rotate, enable, delete | a credential is rotated under its old id while in use | what is sent is what is stored |
| MCP broker and discovery (`mcp/`) | operations in flight, their counters | discover, call, read | coalesced loads run with one caller's authorization | limits hold; nothing listed with an old credential is served |
| MCP tool cache (`mcp/tool-cache.ts`) | map of entries, flights, two counters | getOrLoad | shared loads, time-outs, leaving callers | counters match, one load per key, nobody cancelled by others |
| Replay store (`oauth/replay.ts`) | ReplayMarker rows, `lastCleanup` per process | consume | three statements of every call interleave with the clock | a key is accepted once per validity |
| Machine tokens (`oauth/machine.ts`) | client, keys, access, resources, markers | assert, issue; mutations of each row | marker, reads and locks are separate transactions | one token per assertion, only for access in force at its commit |
| Resource-server SDK (`packages/sdk`) | cached key, fetch under way, replay memory | token, skills and protected endpoints | joined, throttled and failed refreshes; stalled requests | follows Weldall's key in bounded time, each proof once |
| Refresh families (`oauth/facade.ts`) | OAuthDeviceRefreshBinding rows beside the library's tokens | refresh, token exchange, revocation | binding follows rotation in a later transaction; reuse ends a session | one live token per family, revoked together |
| CLI device session | credential item, lock file, processes | login, logout, whoami, refresh, exchange | processes compete; a write is delete + insert on macOS | no self-inflicted reuse, no resurrection, every command ends |
| Sign-in and installation (`auth/`) | LoginInstallation, LoginProvider, LoginAttempt, Account rows, setup token | start, callback, setup, provider save/delete | provider and installation change while the user is away | installed once, login under an unchanged provider |
| Access policy, group providers (`policy/`, `group-providers/`) | provider and group rows, remote directories | effective scopes, exchange, subject check | memberships are fetched before the transaction that reads the grants | granted is justified, missing is certain |
| Administration (`domain/primitive-mutations.ts`) | scopes, assignments, resources, skills; open forms | save, delete | versions that recur; checks over several tables | an administrator remains, nothing unseen is overwritten |
| Configuration as code (`iac/`) | workspace revision, bindings, runners' plans | plan, apply, import, unmanage, move | apply's snapshot is older than its lock | an applied plan is the confirmed one |
| Skill catalogs (`skills/`) | catalog rows with leases | refresh, by hand or when due | leases are taken over from stalled refreshes; resources change meanwhile | no older edition is stored, a change is not put off |
| Goose extension (`goose-extension/`) | process slots, queue, bindings, routes | discover, choose, remove, call, cancel | results of what was cancelled, overtaken, or of another user | one account per connector, order kept, no slot lost |
| Envelope encryption, audit | keys of providers; audit rows | seal, open; append | remote failures | outcomes of the handlers above |
| UI, statistics, demo applications | little or none | rendering, reads | sequential | not modelled |

Handlers of the server interact through database rows only; the caches of the MCP
broker, the SDK and the Goose extension are memory of one process.
`PROJECT.json` lists every component with its status and the hazards with their
lines.

## 2. Modules

    ConnectionStore            shared tables, provider side, handler memory, Init
      ConnectionAuthorization    start, submit, callback, cancel, clean-up
      ConnectionUse              access, refresh, dispatch
      ConnectionDisconnect       disconnect, deletion, connector configuration
        ManagedConnections         all of them concurrently, time, scopes, crashes; the properties
          MCManagedConnections       instances for TLC
          ManagedConnectionsProofs   proofs: types, ciphertext, exchange, tokens, confirmation
    GrantCustody               abstract: what becomes of an OAuth grant
    McpToolCache, SharedConnections
      McpBroker                  operations over a connection and the cache; MCMcpBroker
        McpBrokerProofs            its proofs, which use FoldTheorems
    ReplayStore
      MachineTokens              issuance against administration
        ResourceServer             the other end: keys and proofs; MCMachineTokens
          MachineTokensProofs        proofs about all three
    AccessStore                scopes, grants, providers, resources, skills; mutations
      AccessPolicy               decisions in two stages
      ConfigurationAsCode        plan, apply, bindings
      SkillCatalogs              refreshes under leases
        AccessAdministration       all of them over the same tables; MCAccessAdministration
          AccessAdministrationProofs its proofs, which use FoldTheorems
    RefreshFamilies            the facade's side of a device session
      DeviceSession              CLI processes, item and lock; MCDeviceSession
        DeviceSessionProofs
    CliRunner                  slots for CLI processes
      McpActivation              one session of the Goose extension; MCMcpActivation
        McpActivationProofs
    LoginInstallation          MCLoginInstallation, LoginInstallationProofs
    FoldTheorems               lemmas about the folds of the community modules

Before the definition that a property depends on stands, where one is needed, a
faulty variant of it, which makes the property fail.

### Managed connections

A handler is a record `h[p]` with a program counter and the values the source
keeps in local variables across an `await`: the rows it read (`arow`, `row`,
`rows`), the connector revision, the credentials in memory. Every
`runConnectorTransaction` is SERIALIZABLE and never retried
(`connectors/configuration.ts:24`), so it is one action; a conflict is an
`Abort`. Provider calls, decryption and sealing are actions of their own with
every outcome the code tells apart. `vault[s]` is the value that row `s`
references. `grants[g]` is the provider's side: whether the grant is active, the
generation of its current tokens, and whether these were presented for a refresh
that got no answer (`spent`). Time is abstracted to what the code compares:
`age` is "live", "late" (past `expiresAt`, or a claim older than 30 s) and
"overdue" (30 s more, where a running exchange counts as interrupted).
`refreshBy` stands for the timestamp `refreshStartedAt`, of which the code uses
the identity and the age.

Abstractions: one owner and one connector; rows of others are never read. The
rate quota, renaming, listing and the client-id change of a connector are left
out. The limit of ten open attempts is `MaxOpen`, the batch of 50 in a clean-up
exceeds any instance. `EXPIRED` and `DISABLED` are statuses that only reads report
and are never stored.

### Abstract specification of a grant's custody

`GrantCustody` says what a careful operator expects of every grant: a handler has
it, or it is stored, until it is settled, that is revoked or given up on the
record, and a settled grant stays settled. `ManagedConnections!custody` is the
refinement mapping, `Custody == INSTANCE GrantCustody WITH Grants <- Grants,
custody <- custody` the instance, and `GrantsAccountedFor` says that the whole
system implements `Custody!Spec`. The mapping's `Recorded` names the traces the
code leaves: an audit entry of the step that gave the grant up, or an exchange that
is still `PROCESSING`.

### Shared connections and the MCP broker

JavaScript runs one callback at a time, so an action is what runs between two
awaits: the body of `getOrLoad`, the callback that stores a catalog, the `finally`
of a load, and each stretch of `executeMcpOperation` between two database or
session calls. `op` holds what an operation authorized and has in hand, `flight`
what a load took from the operation that began it. A write of an administrator is
one action that compares versions; the credential of a connection keeps its id
when it is rotated, while the row's version changes, which is what the cache's
keys are made of. There is one connection and one process: other processes change
only the database. The quota per minute, audit entries and the pages of a listing are left
out; any await may end an operation.

### Replay store, machine tokens and the resource server

`consume` is up to three statements, each an action: select of expired keys,
delete of those still expired, insert. `uses` is history. Keys are opaque; the
expiry of a proof is an instant of a bounded clock.

`MachineTokens` verifies an assertion against rows read without a lock, consumes
its marker through `ReplayStore`, and then takes the row locks of the issuance one
by one (`FOR SHARE`), reading each row again. Mutations exclude each other by the
configuration lock but not the issuance, so they also run row lock by row lock,
in the order of their statements; a deadlock is broken by aborting one side.

`ResourceServer` is one Node process with the SDK: `WeldallDiscovery` with its
cached key, its throttle and the refresh that others join, and the in-memory
replay store of its three kinds of endpoints. Microtasks run before time passes.
Weldall publishes one key, which a deployment may change.

### Refresh families and the CLI

A request of a CLI process is a record `req[p]` that goes through the statements
of `tokenFacadeWithAuditWriter`, `exchange` and `revocationFacade`: look-ups,
decision, the call into the library, binding, the look whether the family was
revoked. The library's tables (`provider`) are external and modelled from how the
facade reads them. `DeviceSession` adds the processes, the credential item and
the lock. `fresh` is the set of tokens whose access session has more than a
minute left. Every login is another user, named by the family of its tokens.
A lock held by a dead process goes stale after 15 s, so a dying process releases
it in the model; a process that waits too long gives up (`GiveUp`). A login waits
for its browser at most 120 s.

### Sign-in and installation

A request is a record `handler[h]`; a transaction holds its row and advisory
locks to the end and is one action. `seen` is the provider row a start read and
whose version and creation time go into the attempt. An issuer is named by its
provider and a user by the e-mail address, which are the keys the code looks
accounts and users up by.

### Access, configuration as code and catalogs

A mutation from the browser holds the configuration lock to its commit and is one
action of `AccessStore`. Rows that are addressed by id carry a version that never
recurs, so a late request for one changes nothing; assignments are addressed by
the e-mail address, whose versions do recur, so their open forms are state. A
transaction on a resource is serializable and takes its snapshot before it waits for
the lock, while skills are saved read committed: `unseen` has the resources that may
then be disabled or deleted although a skill depends on them.

`AccessPolicy` follows a request through its two stages: the enabled providers are
read and asked one by one, outside any transaction, each with success or failure;
then the grants are read in one transaction. `touched` and `stayed` are history:
the memberships that were true at some time, or all the time, of the request.

`ConfigurationAsCode` has runners that plan a manifest, keep the plan while their
user confirms it, and let the server apply it. The transaction's first statement
waits for the lock, so its snapshot is taken when it begins to wait ("waiting") and
its effects come when it gets the lock. `Conflict` says when PostgreSQL aborts it:
a row it writes was changed since, a key it creates exists, or what it read was
written by another serializable transaction. Imports, unmanagings and moves change
bindings only.

`SkillCatalogs` follows a refresh through its lookup, claim, fetch and the
statements of the transaction that stores the catalog, which holds the catalog's
row but not the resource's. Of versions and instants it keeps only whether they
are still current or have passed.

### The Goose extension

`CliRunner` has the counter of running processes, the waiting line and the
hand-over of a slot; a run may be aborted anywhere. `McpActivation` is one session
over it: discoveries, removals and choices pass one queue whose head runs the CLI,
equal discoveries are joined, results publish routes, and tool calls use a route
taken when they began. Meanwhile accounts become ready or another user signs in. The
CLI sees at most 200 connections: with a full list (`Catalogs`) some accounts are
missing from it, and it asks for a choice even where it found one candidate or none.

## 3. Runs

| Run | Instance | What it shows |
|---|---|---|
| `connections` | 3 handlers, 2 connections, 2 attempts, 2 grants, 1 name, 5 operations (3 where a connection exists), 1 crash; empty database, one connection, or one with a pending reconnect | racing setups, reconnects, uses, refreshes and disconnects with expiry, cancel, crashes and administration |
| `progress` | a connection and a pending reconnect, 2 handlers, 2 operations, no crash, fairness | every request ends, no row stays REFRESHING |
| `interrupted_exchange` | violation | section 6 |
| `device_session` | 2 processes, 3 tokens, 3 commands, 1 lost process or answer, 1 failed request, fairness | families, item and lock stay consistent; every command ends |
| `exchange_reuse` | violation, 4 commands, nothing lost | section 6 |
| `mcp` | 2 callers of 2 actors, 2 loads, 2 credentials, sizes 1 and 3 under a limit of 3, 2 entries, 2 in flight, 2 slots, 3 requests, 1 change; no connection yet, or a rotated one with an old catalog cached | limits, single flight, cancellation, and nothing stale is answered or sent |
| `login` | 2 handlers, 3 attempts, 1 provider, 1 subject, 2 e-mails, 2 tokens, 3 changes | installation once, login under the row it began with |
| `access` | 2 e-mails, 2 scopes, 1 provider, group, resource, skill, form and request, 1 move of a directory, 2 runners with 2 plans over 3 addresses, 2 refreshers with 3 refreshes and 1 new edition, 3 changes; four initial families | policy decisions, plans and refreshes against administration |
| `assignment_overwritten` | violation, 2 forms, 5 changes | section 6 |
| `scope_lost` | violation, 1 runner | section 6 |
| `machine_tokens` | 2 calls, 2 processes, 1 replay key, 5 instants, 2 mutations, 3 requests; 2 signing keys, 2 visits; four initial families | one token per assertion, under current access; the server follows the key |
| `activation` | 3 callers, 3 connections of 2 connectors, a type selector and a native resource, 1 slot and 1 waiting place, 1 retry, 3 queued, 2 joined, 3 requests, 1 change | accounts, order and slots |

The properties by name; the statement of each stands before its definition:

| Run | Properties |
|---|---|
| `connections` | `TypeOK`; `NoOrphanCiphertext`: a value is stored exactly while a row references it; `AbandonableHoldsNoTokens`: what a clean-up deletes holds no provider tokens; `OneExchangePerAttempt`; `NoBlindRetry`: a refresh that may have rotated the token is not repeated; `GrantsAccountedFor`: the refinement of section 2; `DispatchesCurrentCredential`; `ConfirmedMeansRevoked`: the audit says confirmed only of a grant revoked; `BlockedStaysBlocked` |
| `progress` | `RequestsEnd`, `RefreshSettles` |
| `device_session` | `SingleLiveToken`: a family has at most one token neither rotated nor revoked; `NoSelfReuse`: unless something is lost, the CLI presents no token it has spent; `RevokedTogether`: unless a request fails, a family is revoked as a whole; `NotLoggedInIsTrue`; `NoResurrection`: a late refresh or whoami brings nothing back; `CommandsEnd` |
| `mcp` | `WithinLimits`: counters of entries, bytes, loads and operations are what they count and within their limits; `NoOneAbandoned`; `SingleFlight`; `ServesWhatIsCurrent` |
| `login` | `NoSetupAttemptAfterwards`, `InstalledOnce`, `LoginByUnchangedProvider` |
| `access` | `AdministratorRemains`; `RequiredScopesKept`: a skill's scope exists, but for the finding of `scope_lost`; `GrantedIsJustified`, `MissingIsCertain`: both stages of a decision fit together; `OverwritesOnlyPlanned`, `AppliedIsDesired`: what a plan does is what was confirmed; `NeverGoesBack`: no older edition of a catalog is stored; `ChangeStaysDue`: no refresh from before a change puts off the one after it |
| `machine_tokens` | `AssertionBuysOneToken`, `OncePerWindow`, `IssuedUnderCurrentAccess`; `FollowsKey`: an old key ends and a new one is known in bounded time; `UsedOnce` |
| `activation` | `OneAccountPerConnector`, `SlotsAreHeld`, `AnsweredInOrder` |
| violations | `InterruptedExchangeReviewable`, `NoneTakenForReuse`, `SeenIsReplaced`, `RequiredScopesExist` |

### Bounds

Why they are enough to meet the cases: a race needs two handlers, and a third of
the same step only where two wait on one. `Fuel` bounds operations begun, not
their steps; five let two attempts for one name be set up, claimed and cancelled,
or a connection be completed, refreshed and disconnected. Two grants are one to
keep and one to replace it. One crash at any point already leaves every
intermediate state to the other handlers. Three changes of a login provider are
disable, delete and recreate, after which version 1 repeats. In `device_session`
three commands are a login and two that race; a fourth is used where the finding
needs it. In `mcp` the larger catalog fills the cache by itself, so evictions
happen; two loads are an abandoned one and its successor. In `access`
two scopes are one to replace the other, two e-mail addresses the smallest number
in which a last administrator differs from any; two plans can race or follow each
other; three refreshes are a stalled one, the one that takes its lease over and a
third that finds what these left. In `machine_tokens` an assertion is
presented three times around a clean-up that runs as often as the code allows
(`CleanupGap` 0), and the SDK's durations are the least that are distinct in
order. In `activation` every limit is reached: a full slot, a full line, a full
queue, a discovery joined by its limit of callers.

Initial families keep products of unrelated activity out: `connections` begins
empty or connected; `mcp` cold or warm; `machine_tokens` with mutations, with
concurrent requests, or with visits of a warm or a cold server; `access` fresh,
configured (every grant present), managed (bound by an earlier plan) or
publishing (a first catalog is due, or a second
refresh has taken the lease over from a stalled one). Where that does not suffice an action
constraint, `BoundedStep`, does:

- `MCManagedConnections`: at most two handlers run while an authorization is
  under way (`MaxAuthorizing`), all three otherwise;
- `MCMachineTokens`: Weldall does not change its key before the server has
  anything to do with it;
- `MCAccessAdministration`: once a plan has been applied, no request is decided and
  no mutation comes from the browser (they come before it, and while it waits); at
  most one runner is busy beside other mutations; a catalog is refreshed beside
  changes of its resource only; and a skill, which no request reads, exists only
  before the first request.

Each property comes with a faulty variant of one mapped definition, and TLC finds
the property violated in its own run when the variant takes the definition's
place (`PROJECT.json`, "mutants").

`CHECK_DEADLOCK FALSE` throughout: when operations, commands, changes, plans,
visits or the clock are used up and all requests are answered, nothing is left to
happen. Symmetry is used for interchangeable ids in runs without liveness.

### Fairness

`FairSpec` of the connections: weak fairness of every step of a running handler.
Provider requests are cut off after 10 to 30 s and transactions after 15 s, so a
step ends one way or another; beginning an operation, administration, time and
crashes are not fair. `FairSpec` of the device session: weak fairness of each
process's own steps and of the server's steps on its request (fetch and database
time-outs). Acquiring the lock needs no strong fairness because a waiting
process gives up with ELOCKED.

## 4. Proofs

For every value of the constants, from the named assumptions only:

| Module | Theorem | Establishes |
|---|---|---|
| `ManagedConnectionsProofs` | `TypeCorrect` | `Spec => []TypeOK` of the managed connections |
| | `CiphertextLife` | `Spec => []NoOrphanCiphertext` |
| | `CleanupDiscardsNoTokens` | `Spec => []AbandonableHoldsNoTokens` |
| | `SingleExchange` | `Spec => []OneExchangePerAttempt` |
| | `BlockedIsFinal` | `Spec => BlockedStaysBlocked`, an action property |
| | `NoTokenPresentedTwice` | `Spec => []NoBlindRetry` |
| | `DispatchIsCurrent` | `Spec => DispatchesCurrentCredential`, an action property |
| | `ConfirmedIsRevoked` | `Spec => ConfirmedMeansRevoked`, an action property |
| | `GrantsNeverLost` | `Spec => GrantsAccountedFor`: the refinement of `GrantCustody` |
| `DeviceSessionProofs` | `SessionTypesHold` | `Spec => []TypeOK` of processes, item, lock and families |
| | `OneLiveToken`, `OwnTokensAreNotReused` | `Spec => []SingleLiveToken`, `[]NoSelfReuse` |
| | `FamiliesAreRevokedTogether`, `NotLoggedInIsNeverWrong` | `Spec => []RevokedTogether`, `[]NotLoggedInIsTrue` |
| | `NothingResurrected` | `Spec => NoResurrection`, an action property |
| `LoginInstallationProofs` | `TypeCorrect` | `Spec => []TypeOK` of sign-in and installation |
| | `SetupEnds` | `Spec => []NoSetupAttemptAfterwards` |
| | `InstallsOnce`, `LoginsKeepTheirProvider` | `Spec => InstalledOnce`, `Spec => LoginByUnchangedProvider`, action properties |
| `McpBrokerProofs` | `TypeCorrect` | `Spec => []BrokerTypeOK` |
| | `LimitsHold`, `WaitersAreServed`, `OneFlight` | `Spec => []WithinLimits`, `[]NoOneAbandoned`, `[]SingleFlight` |
| | `AnswersAreCurrent` | `Spec => ServesWhatIsCurrent`, an action property |
| `AccessAdministrationProofs` | `ChangesStayDue`, `RequiredScopes` | `Spec => []ChangeStaysDue`, `[]RequiredScopesKept` |
| | `AdministratorsRemain` | `Spec => []AdministratorRemains` |
| | `PlansOverwriteWhatWasSeen`, `PlansLeaveWhatIsDeclared` | `Spec => OverwritesOnlyPlanned`, `AppliedIsDesired`, action properties |
| | `CatalogsGoForward`, `GrantsAreJustified`, `MissingScopesAreCertain` | `Spec => NeverGoesBack`, `GrantedIsJustified`, `MissingIsCertain`, action properties |
| `McpActivationProofs` | `TypeCorrect` | `Spec => []TypeOK` of the Goose session and its runner |
| | `SlotsHeld`, `AccountsStay` | `Spec => []SlotsAreHeld`, `[]OneAccountPerConnector` |
| | `InOrder` | `Spec => AnsweredInOrder`, an action property |
| `MachineTokensProofs` | `ReplaysRefused` | `Spec => OncePerWindow` of the replay store, an action property |
| | `MachineTypesHold` | `MachineSpec => []MachineTypeOK` of issuance and mutations |
| | `OneTokenPerAssertion` | `MachineSpec => []AssertionBuysOneToken` |
| | `IssuedUnderAccess` | `MachineSpec => IssuedUnderCurrentAccess`, an action property |
| | `MarksUsedOnce` | `ServedSpec => []UsedOnce` of the resource server |
| | `KeyIsFollowed` | `ServedSpec => FollowsKey`, an action property |

Assumptions: that null values are no ids (`NoneIsNothing`, `NoneIsNew`,
`NoneIsNobody`, `NoneIsNoRefresher`, `NoneIsNoToken`, `NoneIsNoKey`, `NoneIsNoObject`,
`NoCredentialIsNew`), that attempt and
connection ids differ (`IdsDistinct`), that bounds are numbers
(`BoundsAreNumbers`, `BoundsAreNat`, `NumbersAreNat`, `LimitsAreNat`,
`DurationsAreNat`, `VisitsAreNat`, `ChangesAreNumber`, `BoundsArePositive`,
`SizesArePositive`, `OperationsBounded`, `ChangesAreBounded`, `ChangesBounded`,
`PlansBounded`, `RefreshesBounded`,
`RunnerBounds`, `SessionBounds`); that the commands of a run are ones the CLI has
(`CommandsAreKnown`); that `weldall:admin` is no row of SystemScope (`AdminIsSystem`) and
the broker's scope is a reserved one (`McpIsReserved`); that the first login
provider is a provider (`FirstIsProvider`); that the cache's keys contain the pairs of versions that the
bounded number of writes reaches (`KeysAreVersions`); and what a CLI descriptor
fixes of its selectors (`SelectorsResolve`: a connection has one connector, and
names of resources, connectors and selectors of connectors do not collide). Of
plans, that the scopes and the logical addresses of a workspace are finitely many
(`ScopesFinite`, `AddressesFinite`: a version counts the scopes that a row loses, and
a pass goes over a manifest), and that an address says of which kind its object is
(`AddressesHaveOneKind`). No other set of processes, rows or ids is assumed to be
finite; where a counter counts, the counted set is proved to be finite.

### Managed connections

*Types.* `TypeOK` is not inductive: a handler in a phase that dereferences
`h[p].att` must have one. `TypeInv` adds, per phase, which ids and tokens the
handler holds (`GoodLocal`) and that a stored credential names a grant
(`GoodSecret`).

*Ciphertext.* One lemma per component shows that every step moves each attempt in
one of seven ways (`AttemptMove`) and each connection in one of three
(`ConnMove`), and all later proofs use only these moves. `NoOrphanCiphertext`
alone is not inductive, because a clean-up deletes a row by the status it saw in
an earlier transaction and a value by the reference it saw then. `SnapshotsLag`
says how far such a snapshot may lag behind: a row seen as cancelled stays so,
and had at least the value it has now. `PayloadByStatus` says which statuses go
with a value; CANCELLED is left open, because an interrupted disconnect leaves a
cancelled attempt with its value.

*Exchange.* `ExchangeInv` adds that an issued grant's attempt is past the
statuses from which a state can be claimed, and that a handler in the exchange is
alone there with an attempt that has no grant. `HandlerMove` and `GrantsMove`
reduce the 40 actions to the two that matter.

*Blocked.* Follows from `ConnMove` under `TypeInv`.

*Tokens.* That a refresh never presents spent tokens depends on four other things:
what the row of the connection has become since it was read, what is stored in
it, who claimed it, and where the grant belongs. `TokenInv` therefore says, of
every handler that remembers a row (`Remembers`), that the row is gone, has a
higher version or is the row remembered, and that in the last case the tokens in
hand are the stored ones; that tokens in hand or stored are of a grant whose home
is that connection, or of a callback that alone has them (`Owns`, `Receives`,
`StoredAtHome`); that a claim is still on the row, was fenced off for good, or
belongs to tokens that were replaced, and that no two claims share a grant
(`Refreshes`, `RefreshersDiffer`); and that a READY row's tokens are unspent. The
proof goes over the moves of rows (`RowMove`), grants (`GrantMove`) and of the
connector: versions only grow, which is what makes an old snapshot harmless.
`NoBlindRetry` and `DispatchesCurrentCredential` follow.

*Confirmation.* A disconnect reads the row, the attempts and the tokens, claims,
asks the provider once per credential and deletes, in different transactions.
`Follows` says what its memory is worth in between: as long as the row and an
attempt are as they were read, each stored credential is one it will ask for or
one that is revoked. A retained attempt only moves ahead (`Ahead`), so it cannot
come back to the status in which it was read with other tokens.

*Custody.* The refinement has two halves. First, `AccountInv`: an active grant that
is neither stored nor held is on the record (`Accounted`). That needs that tokens in
an attempt are of its own grant and have no home yet (`Places`), that a grant
with a home came from an attempt that is over (`Homed`), that a code is only
exchanged for an attempt that shows it or whose deletion was recorded (`Exchanges`),
that a handler without a place for its tokens knows whether they are revoked
(`Unstores`), and that a cancellation closes an attempt only as it read it
(`Cancels`). Second, the simulation. `Kinds` shows that every step is quiet, issues,
retains, closes, rotates, commits, revokes or deletes, each with what it changes.
`HolderGoesOn` and `HoldsMove` show that a handler only goes on with a grant it held
or that is stored in the row it claims. `OneGrant` and `ManyGrants` turn the moves of
single grants into one step of `Custody!Next`; no kind moves two grants in ways the
promise does not allow together.

### Sign-in and installation

`TypeInv` says what a request holds in each phase: that a login's provider was
enabled when the attempt was made, and that behind the second check of a setup
the identity has the address that the setup's starter named. `InstalledOnce`
then needs that an attempt in setup mode ends with the installation, which is
`NoSetupAttemptAfterwards`; the version and the creation time in the attempt are
compared in the commit, so the provider row is the one seen at the start.

### The MCP broker and its cache

`Inv` has five parts. `StoreInv`: the order has every stored key once and `bytes`
is the total of their sizes. `FlightsInv`: what can be joined runs for its key and
was not abandoned, a key that somebody loads is not stored, and the counter of
loads is the number of running ones. `CallersInv`: the waiters of a load are its
count. `OperationsInv`: the same for operations. `PinnedInv` and `FlightInv`: the
credential in hand, listed, in a flight or in the cache is, under the version it
was taken with, the stored one as long as the connection has that version; the
cache's keys are versions, so an entry is only found by operations of its own
version. Evicting is shown to end under both limits because an empty cache has
room for any catalog that is admitted.

The total of sizes is a fold. `FoldTheorems` proves what the folds of the
community modules compute by induction on finite sets: a smallest subset at which
a fact fails exists because strict inclusion is well founded there, a theorem of
the library that takes no operator. So a fold exists (`FoldExists`), is unique
(`FoldUnique`), and a walk along a sequence keeps what a filter keeps
(`FilteredProperties`).

### Access, configuration as code and catalogs

`PolicyInv` says what a request of the policy has been told: asked provider
versions are not ahead of the rows, and of the answers under the present
configuration, every membership was true at some time of the request and none
that stayed true is missing. `RequiredScopesKept` is inductive by itself, and
for any plan: nothing is assumed of what a plan does to the rows it works on.
`CatalogInv` orders editions: fetched ≤ published, stored ≤
fetched for the holder of the lease, and who stores holds the lease; a refresh
with the lease has read the resource as it is or the change counts as answered.

`AdministrationInv` is about the tables a plan works on: an assignment with
grants has a version (`Numbered`); what is bound is of its address's kind, exists,
and is bound once (`Bound`, which is why deletions leave tombstones); and a waiting
run has a manifest, a plan that is not blocked, and a snapshot in which all that
held (`RunInOrder`). The run `access` passes with it as an invariant too.

What a plan does is then computed without running it. A pass takes one assignment
after the other; `ConnectOne`, `StageOne` and `DeleteOne` say what it does to one of
them: it writes only rows that the manifest declares or the snapshot binds
(`Touched`, `Underway`), leaves the bindings of all other addresses alone (`Passed`),
and keeps what is already connected (`Connected`), because a declared object is bound
at no other address (`DeclaredApart`, from the plan not being blocked). `FoldInduction`
carries this over a whole pass in any order, and `ExecutedFacts` over all passes.
A scope that is dropped is granted by no row outside the plan and declared in none
(`RetiredFacts`, from `Referenced` and `ReferencesSafe`), so dropping scopes spoils
neither.

The commit writes over what others saved since the snapshot. `CommittedRows` says
that a row it writes is still the one of the snapshot, and that it is `Touched`;
with a version it was bound, so its version is in the plan, which is
`OverwritesOnlyPlanned`. `AppliedIsDesired` is `ExecutedFacts` behind that commit.
`AdministratorRemains` needs `ReadConflict`: the administrator whom
`assertFinalAdministratorSafe` relied on may have lost the scope while the transaction
waited, but then the plan takes that scope from nobody (`CommittedAdministrator`).

### The Goose extension

`RunnerInv`: the waiting line has every waiting run once, the counter is the number
of runs with a slot, and nobody waits while a slot is free; the lemmas
`HandOver` and `RemoveAtProperties` carry it through hand-over and cancellation.
`QueueInv`: a request waits in one task, and a discovery that may still be joined
has no removal and no choice behind it, which is `AnsweredInOrder`. `RoutesInv`: what
is published is bound by a selector, so a second account of a connector would
need a second binding.

### The device session

`Inv` says what a process has in each phase and that what it holds the lock for is
still so (`Client`), and what a request has found and been given (`Serving`).
`NewTokens`: a token that was issued and not stored yet is in the hands of one
request or one process, and nobody knew it before. `Chains`: a family's tokens are all
rotated but one, and of two refreshes with the same token only one is past the
library's rotation. `Revocations`: a family revoked in part has a request that is
about to look at it again, as long as no request of the server failed. `Lossless`: as
long as no answer was lost, the stored token is rotated only while the process that
presented it is about to store the successor. `SingleLiveToken` follows from `Chains`,
`RevokedTogether` from `Revocations`, `NoSelfReuse` is a part of `Lossless`, and
`NotLoggedInIsTrue` follows from the lock in `Client`. Steps of a process change its
record, the item and the lock and leave the families alone (`Effect`); the steps
of the server are grouped by what they do to bindings (`Serves`).

### Machine tokens and the resource server

An assertion buys one token because of the replay store: `MarkersKept` says that each
accepted key has a marker at least as late as the accepted expiry as long as that
has not passed (a clean-up deletes only what is expired at its own, earlier
clock reading), `Bought` that a token was issued only for a key that was
accepted, and `Redeems` that one request at most is between accepting it and issuing.

For `IssuedUnderCurrentAccess`, `LockInv` says which rows a request has locked at each
step and that no mutation holds one of them, and `CoverInv` that what a mutation
will commit differs from the committed rows, as far as a token depends on them, only in
rows that it has locked or will lock. A mutation that is about to
commit has locked all of them, so what a request decided under its locks still holds.

The resource server's memory drops what has expired; `Remembered` says that a proof
that was used is marked until it is no longer acceptable. `FollowsKey` bounds how long
an old key is used and needs the whole timetable of `KeysInv`: when keys
were last published (`Published`), that a refresh is answered within the time-out and
with a key of a moment since it was asked for (`Fetching`), that a changed key is
cached no longer than time-out and time to live after that (`Cached`), how the
throttle relates to the cache's expiry (`Throttled`), and that who waited for a refresh
goes on at the instant it arrives (`Prompt`).

## 5. What is only model checked

Liveness under fairness (`RequestsEnd`, `RefreshSettles`, `CommandsEnd`) and
ENABLED are out of the prover's reach and stay with TLC. Folds can be
proved about (section 4), but the prover cannot expand `SelectSeq`, whose
definition is recursive in the standard module, so a module with theorems does without it.

## 6. Where the code and its documentation disagree

1. *A disconnect confirms what it cannot know* (`interrupted_exchange`). A process
   dies after the provider issued a grant and before its tokens are retained. Once
   the attempt is overdue, a disconnect of the connection deletes it and reports
   `disconnect.deleted_revocation_confirmed` (`connections.ts:1274`), although
   `connections.ts:921` says that expired interrupted exchanges require
   administrator review of the provider grant.
2. *A token exchange taken for a theft* (`exchange_reuse`). The exchange presents a
   refresh token that was read without the lock; if another process refreshes
   before the server looks it up, the session of both is revoked.
3. *A form of another assignment is saved* (`assignment_overwritten`). Removing the
   last scope of an address deletes its row, and the next assignment of the address
   starts at version 1 again; a form opened on the first one still fits
   (`primitive-mutations.ts:526`), although a changed assignment is to be refused
   (`primitive-mutations.ts:531`).
4. *A plan deletes a scope that a skill requires* (`scope_lost`). The snapshot of
   the transaction that applies a plan is older than the lock it waits for
   (`iac/service.ts:129`). A skill saved while it waits is not seen, no foreign key
   and no serialization conflict stops it, and the scope is deleted, which
   `primitive-mutations.ts:181` refuses and the lock's comment
   (`domain/configuration.ts:8`) rules out.

## 7. Plan

Done: managed connections with abstract custody, replay store,
device session, sign-in; then shared connections and the MCP broker over the tool
cache, machine tokens over the replay store, the resource server, access policy with
administration and configuration as code, skill catalogs, and the Goose extension;
then the proofs of section 4. Next:

1. configuration as code: operation ids that are repeated, login providers prepared
   before the transaction, connectors and machine clients among the objects;
2. the CLI's catalog caches and its registration of connectors;
3. tokens of users at a resource server, and the threads of the Python SDK.

## 8. Not modelled, and why

Cryptography and token contents (a ciphertext is its plaintext, a signature
verifies); requests to resources and providers beyond their outcomes; user
interface, routes, documentation, demo applications, seeds and build files, which
are most of the lines of the repository and keep no state of their own;
statistics and logs; the display of plans and of explanations; parsing and validation of
forms, claims, manifests and protocol messages, which are pure and sequential.

Three effects are below the grain of the models. A statement of PostgreSQL at READ
COMMITTED is atomic here, so a family revocation does not miss a row inserted while
it runs (`facade.ts:539`). A server that dies between the binding of a successor
and the look at its family (`facade.ts:496`) leaves a live token in a revoked
family; `RevokedTogether` is stated for behaviours without failed requests. And
clocks of different processes agree.
