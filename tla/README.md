# Web3 Lab: a TLA+ verification of the backend and its pages

Web3 Lab is a Go backend (`backend/`) that lets users log in with a wallet, an
email address or Google, links several identities to one account, acts as the
login and consent provider of an OAuth2 server (Ory Hydra), keeps a registry of
OAuth2 clients and of sign-in message templates, and drives ERC-4337 smart
wallets; and a React application (`frontend/`, in four copies) from which users
sign in, mint tokens and log out.  The backend keeps no state of its own in
memory: request handlers run in one goroutine each and meet only in PostgreSQL,
Redis, Ory Kratos, Ory Hydra and the chain.  What can go wrong is therefore the
order in which the calls of several handlers, or the redirects of several pages,
reach these stores, and calls that fail before or after they took effect.  That is
what these modules describe: **one TLA+ step is one call to one store** (or one
redirect), and between any two of them everybody else may run.

Contents: [inventory](#inventory) · [plan](#plan) · [modules](#modules) ·
[runs](#runs) · [fairness](#fairness) · [proofs](#proofs) ·
[findings](#findings) · [limits](#what-is-not-modelled)

## Inventory

| component | state | operations | hard behaviour | properties | module |
|---|---|---|---|---|---|
| Account and identity store (`services/account_service.go`, `database/postgres.go`, `query/identities.sql`, migration 000001) | `accounts`, `account_identities` (soft delete by `unlinked_at`, two unique indexes) | create account with identity, link, look up, count, soft-delete | lookups filter soft-deleted rows, the indexes do not; check-then-act without locks | one row per wallet and per Kratos identity; one primary per account; last identity | `AccountIdentities` |
| Wallet nonces (`nonce_service.go`) | Redis `nonce:<wallet>` with TTL | `Generate` (SET), `Verify` (GETDEL) | replay, overwriting, expiry, lost reply after GETDEL | a nonce proves once | `AccountIdentities` |
| Wallet login (`siwe_service.go`, `wallet_auth_service.go`, `auth_service.go`) | none; calls nonces, accounts, Kratos, Hydra | `GenerateNonce`, `Verify`, `Authenticate`, `LinkEOA`, `VerifyAndLogin` | first logins race; Kratos identity created before the row | a login speaks for its wallet; orphans come from errors | `AccountIdentities` |
| Unlinking (`account_service.go`, `account_handler.go`) | `unlinked_at` | `SafeUnlinkIdentity`, admin `UnlinkIdentity` | count, owner and delete are three statements | last identity needs an overlap; own account only | `AccountIdentities` |
| Bearer authentication (`server/middleware.go`) | none | `jwtAuthMiddleware` | the identity may be unlinked after it | an unlinked identity serves no later request | `AccountIdentities` |
| Registration webhook (`oauth2_handler.go`, Kratos configuration) | account store | `HandleRegistrationWebhook` | repeated, concurrent or lost delivery; a discarded error | one row per registration | `AccountIdentities` |
| OAuth2 provider (`oauth2_handler.go`, `hydra_client_service.go`, `kratos_admin_service.go`) with the pages that redirect to it (`HomePage`, `LoginPage`, `CallbackPage`, `DashboardPage`) | Hydra's remembered login, Kratos' session, tokens in the browser | `HandleLogin`, `HandleConsent`, `HandleLogout`, `autoAcceptConsent`, logging out, switching the wallet | two cookies, best-effort revocation, logins of one application during the logout of another, pages that redirect to each other | who logged out stays out; redirects end | `SingleSignOn` |
| App client registry (`app_client_service.go`, `client_handler.go`) | `app_clients`, Hydra clients, Redis configuration and CORS set | `CreateClient`, `UpdateClient`, `DeleteClient`, `GetCachedClient`, `SyncToCache` | three stores, no transaction, ignored errors, no TTL | stores agree; cache holds committed data; deleted stays deleted | `AppClients` |
| Message templates (`message_template_service.go`, handler) | `message_templates`, Redis `msg_tmpl:<id>` (1 h) | create, get, update, delete | read-through cache against invalidation, read-modify-write through the cache, count-then-delete | fresh when undisturbed; lost updates need an overlap; no dangling reference | `MessageTemplates` |
| Smart wallets and user operations (`smart_wallet_handler.go`, `smart_wallet_service.go`, `bundler_service.go`, contracts `erc4337/`) | wallet nonces and code at the EntryPoint, the nonce and the pooled transactions of the one bundler account | `ExecuteTransaction`: `GetInitCode`, `BuildUserOperation`, `SignPaymasterData`, `SubmitToBundler`; `handleOps` | four reads of the chain before the operation runs, one account for all requests, lost answers | losses have causes; wallets count operations; the pool has no gaps; a ledger | `UserOps` |
| Minting (`DashboardPage.tsx`, `storage_service.go`, `Web3LabERC721.sol`) | images and metadata in MinIO by token number, the contract's counter | `handleSubmitWithUpload`: search for the next number, upload, metadata, mint | the number is guessed long before the mint; overlapping attempts; swallowed failures; the ends of the search | tokens show what their mint stored; guesses never skip; attempts end | `Minting` |
| Authorization (`spicedb_service.go`), server start and shutdown, health, configuration, price service, deployments | SpiceDB, pools | single calls | see [limits](#what-is-not-modelled) | | |

Interaction: handlers call services, services call stores; the only messages
that come back unasked are Kratos' registration webhook and the browser
redirects of Hydra.  For the backend's modules the pages are arbitrary clients;
`SingleSignOn` and `Minting` model the pages themselves.  The hazards of all this,
each at its line, are in `PROJECT.json`.

## Plan

The order was: the account store and its abstract registry, then the two caches,
then the smart wallets with their abstract ledger, then the pages (sign-on,
minting) against the stores they share, and for each module the proof of its
properties.  All of it is done.  What would come next, and why it was left, is
under [limits](#what-is-not-modelled).

## Modules

| module | stands for |
|---|---|
| `AccountIdentities` | login, linking, unlinking and registration, step by step |
| `IdentityRegistry` | the abstract registry that `AccountIdentities` implements |
| `AppClients` | the client registry in PostgreSQL, Hydra and Redis |
| `MessageTemplates` | template CRUD and cache |
| `UserOps` | `POST /wallet/execute`, the pool of the bundler account and the EntryPoint |
| `OperationLedger` | the abstract ledger that `UserOps` implements and `Minting` builds on |
| `SingleSignOn` | one browser, several applications, Hydra's and Kratos' sessions |
| `Minting` | the dashboard's ERC-721 form, object storage and the token counter |
| `...Proofs` | the theorems about the module of that name |
| `MC...` | constants and symmetry for TLC |

**How a handler is modelled.**  A request `r` has a program counter `pc[r]` that
names the store call it makes next, or its answer.  It is served once, so what
its handler creates (an account, an identity, a client, a Kratos identity) is
named `r`: this stands for `uuid.New()`.  `Arrive...` actions are the routes with
their argument checks; the other actions are the calls.  A call that changes a
store either succeeds, fails before it takes effect (`Fail`) or takes effect and
loses its reply (`Reply`), the latter two also standing for a client that
disconnects (the request's context is cancelled) and for a crashed pod.  Nothing
is restarted: a retry is a new request.  Where the code ignores or logs an error,
the step goes on (`Stumble`).  `raced`, `faulty` and the like are history: which
clients, templates or requests saw an overlap or a failure.  They let a property
say exactly when an inconsistency is excused.

**`AccountIdentities`.**  `nonce` is Redis, `rows`, `unlinked` and `accounts` are
PostgreSQL, `kratos` and `sessions` are what Kratos and Hydra hold.  Every handler
lower-cases addresses, so a wallet is a value.  `challenge` records which wallet a
nonce was issued to.  A request presents a nonce with a message and a signature
that pass the checks of its handler or do not (`signed`, any of the two): for SIWE
and EIP-712 the nonce is read from the message that was signed; the legacy
`VerifyAndLogin` takes nonce and message apart and never compares them, so there a
message signed earlier passes with a new nonce.  An account's
creation with its identity is one step because it is one transaction; the insert
either meets both unique indexes or rolls back.  `user` is the pair of
`provider_id` and `provider_user_id`.  Verifying a nonce and the signature is one
step because only the first touches a store.  The read of the account and the
unchecked `UpdateLastLogin` after an adopted identity change nothing here.
`VerifyAndLogin`, `SIWEService.Verify` and `Authenticate` make the same calls and
share their actions (the first is of the kind `"verify"`).  `counted` is what
`SafeUnlinkIdentity` counted; `proved` and `gone` are history: the requests whose
nonce and signature were accepted, and what was unlinked before each request came.

**`AppClients`.**  `db`, `hydra`, `cache` and `cors` are the four places a
client's configuration lives in; a configuration is a value with a set of
origins.  The actions of `DeleteClient` and of `SyncToCache` keep their order and
their ignored errors.

**`MessageTemplates`.**  A template is a name and a content, enough for one update
to undo another.  No handler writes `app_clients.message_template_id`; `LinkClient`
is the operator's SQL, held to the foreign key.  The entry's hour is a
nondeterministic `CacheExpires`.

**`UserOps`.**  A handler reads whether the wallet has code, its nonce, the chain
id and the bundler account's next nonce, then broadcasts.  An error of a read has
the effect the code gives it: no `initCode`, nonce 0, chain 31337.  `fate` is what
the node and the chain make of the transaction: pending, executed, reverted,
replaced by another with the same nonce, or forgotten (`Evict`).  `Mine` validates
as the EntryPoint (`Valid`, external) and the paymaster (`Sponsored`) do; the order of blocks is the order of the
bundler account's nonces.  The wallet's address follows from the account id, so a
request names its wallet.  `OperationLedger` forgets nonces, pool and handlers: a
history per wallet that grows at its end.

**`SingleSignOn`.**  `page[a]` is the step at which the browser is in application
`a`, from the home page through Hydra and the backend back to the dashboard, and
the same for logging out; `flow[a]` is the subject the chain of redirects is
about.  Hydra's own part (which subject a login request skips, when the cookie is
set, when it asks for a logout) is external and modelled from how the backend and
the pages use it.  A wallet login goes through `autoAcceptConsent` without Hydra's
cookie; when that shortcut fails the browser takes both redirects.  `out` is who
logged out and proved nothing since, `loose` whose logout failed in part or
overlapped a login.

**`Minting`.**  `range[a]` and `nextId[a]` are the locals of
`getNextTokenIdForERC721`, `image` and `meta` the objects under each token number.
What happens to the mint after it was sent is `OperationLedger`'s, of which
`Minting` is a client: the wallet's operation number `i + 1` creates token `i`.
Two simplifications are in that sentence: the wallet that owns the collection
executes mints and nothing else, and no mint reverts inside its operation.  A third
is that all images have the same file extension, which is part of an object's key.
`misled` is the attempts with a probe that failed for a token that exists, or with
no number left; `bare` those that mint without metadata.

**Variants.**  Some definitions are followed or preceded by a form marked
*Variant* that no action uses: the shape of a plausible mistake in that code
(GET for GETDEL, an index that ignores unlinked rows, a forgotten invalidation).
Putting a variant in place of the definition breaks the property that
`PROJECT.json` lists beside it; they show that each property depends on the code.

## Runs

The bounds are sizes of constant sets; the only numbers are nonces, which cannot
exceed the number of requests, and `Last`.  Deadlock is not checked: requests are
served once, and when all have been answered the system has stopped (in
`SingleSignOn` a user may always go on, but need not).  Interchangeable constants
are symmetry sets in the runs without liveness.

| run | instance | shows |
|---|---|---|
| `identities` | 3 requests of all kinds, 1 wallet, 1 registration, 2 nonces; 138 k states | the invariants, what an unlink bars, and the refinement |
| `unlinking` | 4 requests: webhooks, links, unlinks; 1 registration, 1 wallet, no symmetry; 340 k states | the last identity, and that every request is answered |
| `app_clients` | 3 requests, 2 configurations with disjoint origins; 51 k states | agreement, committed cache, no resurrection |
| `templates` | 3 requests, 2 names, 2 contents; 876 k states | freshness, references, lost updates |
| `user_ops` | 3 requests, 2 wallets; 884 k states | losses, counting, the pool, and the refinement |
| `sso` | 2 applications, a wallet subject and an email subject; 95 k states | who logged out stays out, redirects end |
| `minting` | 3 attempts, numbers 0 and 1; 914 k states | what tokens show, guesses, the end of attempts |

Why these are enough to see the interesting cases: three requests for one wallet
hold two racing first logins and a third that unlinks, replays or arrives
later; two nonces are a live one and an overwritten one; one registration with two
webhooks is a repeated delivery.  More wallets only multiply independent rows,
since no step relates two of them except through an account, which `link` does
with a registration's account.  `unlinking` needs four: an account, a second
identity and two overlapping unlinks.  In the two caches a race needs a filler, a
writer and a creator.  In `user_ops` two requests race for one wallet while the
third shares only the bundler account with them, which takes a replaced, a
reverted and a waiting transaction.  In `sso` a login of one application overlaps
the logout of the other, and the two subjects are the two ways to have a session.
In `minting`, `Last = 1` stands for the 10000 of the code: the third attempt may
find no number free, the second searches while the first mints, and both ends of
the range are tried.  The theorems remove all of these bounds from the safety
properties.

The remaining runs are the [findings](#findings).

What the properties say, beyond their comments in the modules:

- `OneRowPerKey`, `LoginSpeaksForWallet` and `OnePrimaryPerAccount` together are
  what a check-then-act handler can break; the unique index and the rollback keep
  them, and the variants of both show it.
- `NonceProvesOnce` is about nonces, not about messages: on the legacy route an old
  message may prove a wallet again, with a nonce drawn for it.
- `UnlinkBarsLaterRequests` says what an unlink is worth although sessions are
  granted several calls after the lookup and are not revoked: a request that comes
  after it finds the identity neither by its wallet nor by a token that still names
  it.  A request that was running may finish, and the session it then opens is one of
  those tokens.
- `LastIdentityNeedsOverlap` is the strongest statement `SafeUnlinkIdentity`
  supports: it says which of its interleavings loses an account's last identity.
- `UndisturbedStoresAgree` and `UndisturbedCacheIsFresh` say that every path of the
  handlers, early returns included, leaves the stores in agreement when nothing
  overlaps and nothing fails; `CacheWasCommitted` and `DeletedStaysDeleted` hold
  without that excuse.
- `LossesHaveCauses` is the same kind of statement about operations, and
  `WalletsCountOperations`, `PoolHasNoGaps` and the ledger hold without it.  The
  ledger says in particular that an operation whose request gave up before sending
  never executes, and that one answered 500 after a lost reply may: a user who
  tries again may then have it twice.
- `TokensShowTheirMint` lists everything that makes a token show another's image:
  overlapping attempts, a probe that failed, a collection beyond the search, or a
  mint without metadata over what an abandoned attempt stored.  `GuessesNeverSkip`
  holds without excuse, so no wrong guess waits for a later token.

## Fairness

`FairSpec` of `AccountIdentities` and `AppClients` assumes weak fairness of each
handler's steps, not of arrivals, of failures, or of an operator: `net/http` gives
each request its own goroutine, which is scheduled until it answers, and every
outgoing call returns, fails or is cut by a timeout.  No strong fairness is needed
there, because a handler that is at a call stays able to make it.

`SingleSignOn` assumes weak fairness of what a browser does by itself (following
redirects, effects of a loaded page) and strong fairness of `AcceptCookie`: whoami
may fail now and then, but not each time while there is a session; without this
assumption the login page and `HandleLogin` could send the browser back and forth.
`RedirectsEnd` is moreover conditional on `SessionSettles`: a session that comes
and goes for ever may always be in the wrong state when asked for.  Nothing is
assumed of users, of `Break`, or of the expiry of sessions.

`Minting` assumes weak fairness of the page's calls, of no failure and of nothing
at the backend.  `UserOps` and `MessageTemplates` state safety only and need none.

## Proofs

Every safety and action property of the passing runs is also a theorem, for any
values of the constants that meet the assumptions of its module.  The theorems say
more than the runs list: the properties marked + are stated in the modules and
proved, and hold on the instances of the runs as well, where those that are a part
of an `IInv` that a run checks (++) are checked again each time.

| module | assumptions | proved |
|---|---|---|
| `AccountIdentitiesProofs` | `DistinctNames` (UUIDs and addresses of different origin differ, absent values are not values), `FiniteRequests` (`Cardinality` counts) | all invariants (`UnlinkBarsLaterRequests` among them), `LastIdentityNeedsOverlap`, the refinement of `IdentityRegistry`; `UnlinkStaysInAccount`+, `ProofsComeFirst`++, `HandlersAdvance`+ |
| `IdentityRegistryProofs` | none | of any registry, and so of the stores: `BoundOnce`+, `OpenedOnce`+, `NothingFromOutside`+, `BindingsAreForGood`+, `LinksJoinAccounts`+ |
| `AppClientsProofs` | `ConfigsHaveOrigins` | all invariants and `DeletedStaysDeleted`; `CorsWasCommitted`+ |
| `MessageTemplatesProofs` | `TemplateConstants`, `NoneIsNothing` | all invariants and `LostUpdateNeedsOverlap`; `NamesAreUnique`+, `DeletedTemplatesStayDeleted`+ |
| `UserOpsProofs` | `SetsOfRequests` | all invariants and the refinement of `OperationLedger`; `SuccessIsHonest`+, `BundlerNoncesAreUsedOnce`++, `HistoriesFollowNonces`+ |
| `OperationLedgerProofs` | none | of any ledger, and so of wallets and collections: `HistoriesAreExact`+, `NothingIsDoneTwice`+, `HistoriesOnlyGrow`+, `OutcomesAreFinal`+ |
| `SingleSignOnProofs` | `SubjectsAreSome` | `TypeOK`, `LoggedOutStaysOut`; `LogoutIsComplete`+, `SignedInAsSomebody`++ |
| `MintingProofs` | `NumbersToTry`, `AttemptsAreSome` | `TypeOK`, `GuessesNeverSkip`, `TokensShowTheirMint`; `PredictionsComeTrue`++, `UndisturbedShowsAll`+, `UsesLedger`+, `OneTokenPerAttempt`+, `TokensKeepTheirMinter`+, `SearchHalves`+ |

**Along the refinements.**  What an abstract module promises is proved of the
abstract module, where it takes a few lines, and transferred.  `IdentityRegistryProofs`
knows bindings and nothing of handlers; `AccountIdentitiesProofs` takes its
theorems through `Implementation` (`Facts == INSTANCE IdentityRegistryProofs ...`
and the lemma `StoresAreARegistry`): that no user is bound twice, that nothing an
interleaving does takes an identity back or moves it to another account
(`StoresSafety`, `StoresGrow`, `StoresLinks`).  In the same way `UserOpsProofs`
takes from the ledger that an operation executes once, in its own wallet, and that
no outcome is reversed (`HistoryTruth`, `HistoryGrowth`, `OutcomeFinality`).
`Minting` was written on top of the ledger's actions; `LedgerUse` proves that every
one of its steps is a step of the ledger or none, so it may use them
(`OneTokenSafety`, `TokensStay`), and what it relies on is what `UserOps` implements.

The properties are not inductive alone.  Each module has an `IInv`, a conjunction
of named parts, and its proof one lemma per part (`...Step`) with a case per action
or group of actions; `Invariance` puts them together with PTL, and the other
theorems follow from it.  The parts, and what each is for:

- **`AccountIdentities`.**  `HandlersConsistent`, `ArgumentsConsistent`: which kinds
  of request reach which step, with which locals; without them a state in which an
  unlink is about to insert a row would have to be considered.
  `NoncesConsistent`: a nonce that proved something is not in Redis any more, so a
  second proof would have to find it.  `RowsConsistent`: a row carries the id of
  the request that inserted it, which has passed that step.  `KratosConsistent`: a
  Kratos identity named after a request was made by it.  `UnlinkersConsistent`: an
  unlink that reaches its delete counted at least two identities and owns its
  target; `LastIdentitySafety` picks the other counted one (`AnotherElement`).
  `ArrivalsConsistent`: what was unlinked when a request came still is, which with
  the unique indexes makes the row a handler finds or inserts no unlinked one, and so
  `UnlinkBarsLaterRequests` inductive.
  `ProofsComeFirst` is a property and a part: the proof of possession of a request
  precedes each call it makes for the wallet, so identities and sessions trace back
  to one.  `Implementation` shows that each step is `Open`, `Join`, `SwitchOff`, `LogIn` or a
  stutter of the registry.
- **`AppClients`.**  `Handlers` as above; `Births`: nothing but Hydra knows a client
  before its row was inserted, which is why an update or a delete cannot meet a
  creation half-way; `Commits`: what goes to Redis was in PostgreSQL; `Deletions`:
  a row that a delete removed stays away; `Overlaps`: two handlers on one client
  know of each other; `OnCourse`: what the three stores hold after each call of the
  *only* handler on a client.  With the last two, agreement when nothing was
  disturbed is the end of that course.  `CorsWasCommitted` follows from `Commits`
  and from `stored` being a history.
- **`MessageTemplates`.**  The same shape with two stores: `Handlers`, `Births`,
  `Overlaps`, `OnCourse` (in particular, what an update holds is the row).  `Writes`
  sums up what a call may do to PostgreSQL; both `NamesAreUnique` and
  `DeletedTemplatesStayDeleted` follow from it.
- **`UserOps`.**  `Bound`, `Racing` (requests open for one wallet know of each other),
  `Reads` (what an undisturbed request has read is still so), `Slots` and `NoGaps`
  (how the nonces that requests hold relate to the pool).  `Implementation` follows
  from `Counts`, which makes the history of a wallet well defined.
  `BundlerNoncesAreUsedOnce`: the blocks used the nonces of the shared account up to
  `mined`, each once, and the pool has one transaction per nonce; that is why a
  transaction that was overtaken is "replaced" and never mined later.
- **`SingleSignOn`.**  `LogoutsAreAlone`: a logout that is not excused has nothing
  else under way about its subject, and after the revocation Kratos has no session
  of it.  `LogoutIsComplete` is what remains true of the sentence that the run
  `logout` refutes: the logouts that Hydra asks the backend about do revoke all.
- **`Minting`.**  `Sent`, `Searches` (the loop invariant of the binary search, while
  the collection grows under it), `Racing`, and `Ahead`: what an undisturbed attempt
  found and stored is about the next token until that token is its own, hence about
  no token of anyone else.  `PredictionsComeTrue` says what `Ahead` leads to.

Only model-checked: liveness (`RequestsAreAnswered`, `RedirectsEnd`,
`AttemptsEnd`), since fairness and `ENABLED` are outside the prover.  What can be
proved of it is the measure: `HandlersAdvance` (each step of a handler, and no
step of another, takes it nearer to its answer; a request takes six steps at most)
and `SearchHalves` (each probe halves what is left).  `RedirectsEnd` has no such
measure, since its pages may redirect to each other as long as the session comes
and goes.  Nothing is proved by induction over data, and no module uses a recursive
operator.

## Findings

Each is a run that ends in a counterexample to a sentence of the repository's own
specifications or comments; `PROJECT.json` quotes the sentence.

| run | what happens |
|---|---|
| `last_identity` | two unlinks overlap and the account has no identity left |
| `relogin` | an unlinked wallet can never log in again: the index still has it |
| `stale_config` | two updates of one client overlap, the first to write PostgreSQL is the last to set Redis, and its configuration is served for ever (under fairness, with no call that failed, on a client whose creation had ended) |
| `cors_origins` | an origin taken from a client by an update stays allowed, with no overlap and no failure |
| `logout` | a logout in which nothing failed leaves a Kratos session that logs the next visitor in |

Some observations are plain from the source and have no run.

- `SafeUnlinkIdentity` may unlink the primary identity and promotes none.
- A delete overtaken by the `SetConfig` of an update, or of a creation that has not
  ended, leaves the configuration of a deleted client in Redis in the same way.  A
  login does so only if it found Redis empty, that is, during the creation or after
  the creation's SET failed.
- `DeleteClient` deletes the whole set of allowed origins and nothing rebuilds it
  (the comment above says so), so the other clients' origins are refused until their
  next update.
- `VerifyAndLogin` checks the nonce and the signature, and not that the signed
  message contains the nonce (see `AccountIdentities` above).
- A Hydra client may outlive its row, or precede it without one: `DeleteClient` and
  the rollback of `CreateClient` ignore Hydra's answer.
- The template named `default` can be renamed or deleted; `ResolveTemplate` ignores
  the client's own template; `DeleteTemplate`'s 409 branch compares with a text
  `Delete` never returns.
- `UpdateTemplate`'s "Apply partial updates" writes every field of the template it
  read, perhaps from the cache; `LostUpdateNeedsOverlap` says when that loses one.
- The access tokens of other applications survive a logout, which ends sessions
  and revokes no token.
- `switchWallet` clears the local storage only, so while Hydra or Kratos remembers
  a subject the browser returns as the same one.
- A login that Hydra skips for an identity unlinked meanwhile succeeds, and its
  token is refused by every protected route.
- The form for ERC-1155 tokens takes the token id from the user, so nothing is
  guessed there, and nothing prevents two mints under one id from replacing each
  other's metadata.

## What is not modelled

- Wording and layout of messages, signatures, ABI and JSON: a signature fits or
  does not, an operation carries `initCode` or does not.  Reads that change nothing
  (lists, `GetMyIdentities`, balances, health).
- `UpdateLastLogin`, audit logs and `account_sessions`: written or kept nowhere
  that these handlers read.  `SetPrimaryIdentity`, `UpdateAccountIdentity` and
  `DeleteAccountIdentity` have no caller.
- Gas, deposits of the paymaster and `setVerifyingSigner`: no handler reads them
  before it submits.  The token contracts are thin subclasses of OpenZeppelin; of
  theirs only the ERC-721 counter is modelled.
- Authorization: each handler is one call to SpiceDB, keeps nothing, and no other
  handler asks.  Start and shutdown of the server: a fixed sequence; its effect on
  running requests, calls that fail at any moment, is in every backend module.
- The pages' forms, portfolio and rendering, the price service (fixed prices),
  deployments, charts, chain and explorer configuration, generated queries.
- `.obsidian/plugins/dataview/main.js` is the bundled release of a third-party
  plugin for the notes, which no part of the system loads.  It is two thirds of the
  repository's JavaScript and TypeScript; three of the four copies of the React
  application are most of the rest.  The program's own logic is in Go, SQL and
  Solidity, which is what most of the map refers to; of the TypeScript, the parts
  with state that others share, signing in, logging out and minting, are modelled
  from `frontend/app`.
