# Sharp OAuth in TLA+

Sharp OAuth (`src/`) is an OAuth 2.0 authorization server and OpenID Connect
provider: one Rust process (axum, sea-orm) over one PostgreSQL database. The
process keeps no state between requests except its configuration and signing
keys; everything else is rows, and every request is a short sequence of SQL
statements that interleaves with those of all other requests. That is what these
modules model: the statements, their transactions and locks, and what is read at
one moment and used at a later one.

Line numbers below refer to files under `src/src/`.

## 1. Inventory

| Component | Code | State it keeps | Operations |
|---|---|---|---|
| Token endpoint | `oauth/services/token.rs`, `oauth/repo/authorization_codes.rs`, `token/services/refresh.rs`, `token/repo/refresh_tokens.rs` | `oauth_authorization_codes` (`used_at`, `expires_at`, bindings), `oauth_refresh_tokens` (`family_id`, `revoked_at`, `rotated_to_id`) | redeem a code, rotate a refresh token, revoke a family on a replay |
| Revocation endpoint | `oauth/services/revocation.rs` | the same refresh tokens | find, revoke the family |
| Authorization endpoint, consent | `oauth/services/authorization.rs`, `consent.rs`, `oauth/repo/consents.rs`, `oauth/controllers/authorize.rs` | `oauth_consents` (one row per user and client, a set of scopes), codes; the parameters of the request travel in the browser (return address, hidden fields) | decide, answer the consent page, issue a code |
| Browser sessions | `authentication/services/session.rs`, `authentication/controllers/pages.rs`, `authentication/repo/sessions.rs`, `middlewares/auth.rs` | `user_sessions` (`revoked_at`, `expires_at`, `created_at`), one cookie per browser | sign up, sign in, sign out, resolve the cookie |
| Client registry, portal | `oauth/services/client.rs`, `developer/` | `oauth_clients` (secret hash, redirect URIs, allowed scopes, owner) | register, edit, rotate the secret, delete with cascades, authenticate |
| Accounts | `authentication/services/user.rs`, `password.rs` | `users` with a unique email | sign up, authenticate |
| Access and ID tokens, userinfo | `token/services/access.rs`, `oidc/` | none: signed, self-contained, 15 minutes | sign, verify, read claims |
| Signing keys, JWKS | `pkg/jwt_manager.rs`, `main.rs` | key files, the key set loaded at start | generate a key, load, sign, verify, publish |
| Parsing and validation | `oauth/services/params.rs`, `scope.rs`, `pkce.rs`, `client.rs` | none | pure functions |
| CSRF double submit | `middlewares/csrf.rs` | one cookie per browser | issue, compare |
| Pages, routing, configuration, migrations, example client | the rest | none at run time | - |

How they interact. A browser opens `/oauth/authorize`; the handler resolves the
session cookie, reads the client, reads the consent, and either answers with a
code, or with a page that carries the whole request along and comes back later as
another request. The client app redeems the code at `/oauth/token`, gets a
refresh token when `offline_access` was approved, and rotates it there. All of
this is invalidated from three sides: `/oauth/revoke`, a second use of a code or
of a rotated token, and the deletion of the application, whose foreign keys
cascade to codes, tokens and consents.

What is hard:

* **Interleaving at READ COMMITTED.** Nothing in the code raises PostgreSQL's
  default isolation. The correctness of redemption and rotation rests on one
  conditional `UPDATE`, one `SELECT ... FOR UPDATE`, and what a waiting statement
  sees when it gets its lock.
* **State read before and used after.** The client is read before the transaction,
  the session before the consent, the consent before its upsert; a page is
  rendered minutes before its answer.
* **Commit on some error paths, roll back on others**, inside one handler
  (`token.rs:152-182`).
* **Lost responses and retries.** A retried refresh is indistinguishable from a
  replayed one and ends the family. `docs/security.md` accepts that.
* **Lock cycles** between rotation, redemption, family revocation and cascade.

What makes each component correct is listed with the properties below; what could
go wrong, line by line, is `hazards` in `PROJECT.json`.

## 2. Modules

| Module | Models | Extends | Proofs |
|---|---|---|---|
| `GrantLedger` | what the token endpoint promises, without transactions or locks | - | - |
| `TokenEndpoint` | both grants, revocation, deletion with its cascades, as statements and transactions; implements `GrantLedger` | - | `TokenEndpointProofs`, `GrantProofs` |
| `AccessTokens` | the access tokens that come with the grants, and time | `TokenEndpoint` | `GrantProofs` |
| `Authorization` | sessions, sign-in, `decide`, the consent page, codes | - | `AuthorizationProofs` |
| `Portal` | the developer portal and `create-client` | - | `PortalProofs` |
| `Accounts` | sign-up, sign-in and the anti-forgery token | - | `AccountsProofs` |
| `SigningKeys` | key files, the command, replicas, JWKS copies, key rotation | - | `SigningKeysProofs` |
| `Params` | texts, and how a parameter is read | - | - |
| `RequestValidation` | parsing, validation and the travels of an authorization request | `Params` | `RequestFlowProofs` |
| `TokenResponses` | the app's requests after the code: PKCE, tokens, scopes of refreshes, claims; discovery | `RequestValidation` | `RequestFlowProofs` |
| `ClientAuthentication` | who a token or revocation request comes from | `Params` | `ClientAuthenticationProofs` |

`MC*` modules hold the constants of the small instances. Each configuration says
what its instance is. Operators whose comment begins with "Variant:" are not part of
any specification: each is a definition with a plausible mistake in it, kept so that
every property can be shown to fail for at least one.

How they compose. `AccessTokens` is `TokenEndpoint` with every step extended by what
it does to access tokens. `TokenResponses` goes on where `RequestValidation` ends, with
the code, and `MCRequestValidation` runs the two and `ClientAuthentication` side by
side: they share `Params` and no state, so one run does for all. `TokenEndpoint` and
`Authorization` meet in the code that the second issues and the first redeems
(`IssueCode` in both), `Portal` and the two in the deletion and the
edit of an application; each side is modelled where it has state to lose. A session
as `Authorization` has it begins where `Accounts` ends (`StartSession`).

## 3. `TokenEndpoint`

**State.** `clients`, `codes` and `tokens` are the committed tables; `expired`
holds the rows whose `expires_at` has passed; `delivered` the refresh tokens that
reached an app. `pc`, `req`, `held`, `new` and `seen` are one request each: its
next statement, its parameters, the rows its open transaction has locked, the row
it has inserted and not committed, and the rows the `UPDATE` of a revocation found
when it started. Nothing uncommitted is visible to another request except as a
lock, which is what READ COMMITTED gives.

**Actions.** One per statement, or per group of statements between which no other
request can tell a difference:

| Handler | Actions |
|---|---|
| `exchange_authorization_code` (token.rs:127-221) | `StartExchange`, `Claim` or `ClaimMisses`, then `UnknownCode`, `ReplayedCode`, `RejectBindings`, `IssueFirst`, `IssueNoRefreshToken`, `CommitExchange` |
| `exchange_refresh_token` (token.rs:259-360) | `StartRefresh`, `LockToken`, then `UnknownToken`, `RefuseRefresh`, `ReplayedToken`, `Rotate`, `CommitRefresh` |
| `revoke` (revocation.rs) | `StartRevoke`, `FindToRevoke` or `FindNothingToRevoke`, `RevokeFamily` |
| `revoke_family` (refresh_tokens.rs:65-79), used by all three | `VisitRow` for each row, `CommitRevocation` |
| `client::delete` with its cascades | `StartDelete`, `LockClient`, `CascadeRow`, `CommitDelete` |
| any | `Abort` (failure, dropped connection, deadlock victim), `Respond`, `LoseResponse` |

Abstractions. A family is named by the id of its first token. `redirect_uri`,
`code_verifier` and `scope` are compared once and read nowhere else, so the
comparison is a choice. A code row is pinned by the foreign key of an uncommitted
token only while its client is pinned too, so one pin stands for both. JWTs are
not data of the model; that signing may fail is in `Abort`.

**Properties** (with the code each rests on):

* `OneLiveTokenPerCode` - one usable refresh token per sign-in, at all times. Rests
  on `used_at IS NULL` in the claim and on `FOR UPDATE` in the rotation.
* `FamilyIsALine` - rotation never forks and never changes family, code or client.
* `CodeIsRedeemedOnce`, `RefusedCodeIsSpent` - the error paths of a redemption that
  commit and those that roll back are the right ones.
* `OnlyLiveTokensRotate`, `RevokedFamilyStaysRevoked` - order of `check_usable`,
  and no refresh that overtook a revocation brings a family back.
* `RevocationReachesItsSnapshot` - a family `UPDATE` waits for locked rows instead
  of passing over them.
* `NothingOutlivesItsClient` - deletion also ends grants that are being issued.
* `DeliveredTokensAreStored` - no response before its commit.
* `EveryRequestEnds` - lock cycles included.
* `ImplementsLedger` - the refinement below.

**The abstract specification.** `GrantLedger` has one entry per sign-in: opened,
redeemed once for one token, moved from token to token that was never issued before,
ended for good; every change is one step, and any set of entries may end at once.
`Ledger == INSTANCE GrantLedger WITH ...` maps an entry to the committed row of its
code and to the live tokens of that code. What is uncommitted, locked, in flight or
lost maps to nothing, so `ImplementsLedger` says that the statements of a handler look
like one step to everybody else, at their commit.

**Runs.** `token_endpoint`: two handlers, two clients (owner and stranger), one
code, two tokens, with the access tokens of `AccessTokens` (section 4).
`token_family`: a family of three tokens, three handlers, and the refinement.
`token_liveness`: `EveryRequestEnds`. `token_revoke_race`: the finding below.
Two concurrent handlers already give every pair of statements in every order, and
each handler serves any number of requests one after the other; three add a second
waiter on a row, so that a revocation and a refresh meet a third writer. Three tokens
give a head, a middle and a last token of a family. `FamilyNext` (`MCTokenEndpoint`)
bounds the product of the two: an id is free while three handlers are at work
(`ThreeHandlersOrThreeTokens`), and one row of a behaviour expires (`OneRowExpires`; a
claimed code's expiry is not read again, and two expired tokens are refused one by one;
`token_endpoint` lets every row expire).
Symmetry is used where only safety is checked: requests, clients, codes and tokens
are never named by the specification. The ids of `token_family` are numbers drawn in
ascending order (`LowestIdsFirst`), which is cheaper than permuting them.

`CHECK_DEADLOCK FALSE` everywhere: once every application is deleted, or every id
is used, the server has nothing left to do. That no request gets stuck is
`EveryRequestEnds`, which is stronger.

**Fairness** (`FairSpec`). Strong fairness of a request's own steps: PostgreSQL
queues the waiters of a row, so a request whose row becomes free again and again
gets it. Weak fairness of `BreakDeadlock`: PostgreSQL's deadlock detector aborts
one transaction of every cycle of waits after `deadlock_timeout`. `OutOfIds` is the
bound on token ids. No request need arrive and nothing need fail.

**Finding.** `RevokeReachesTheFamily` states what revocation.rs:12 promises and is
violated: a revocation that starts while a refresh of the family is uncommitted
waits for the old row, but the successor is not in its snapshot and stays live.
What does hold is `RevocationReachesItsSnapshot`.

## 4. `AccessTokens`

**State.** `access` is, for each sign-in, the time left of the youngest access token
an app received; `carried` the one in a response that is still being made; `ended`
the ticks since the grant ended.

**Actions.** `ReadClock` is the start of either grant: the handler takes `now` there,
before it opens its transaction and waits for a connection, a lock or its commit.
`Receive` is the arrival of a granted response, `Tick` the passing of time between
any two statements, `OtherStep` everything else of `TokenEndpoint`.

**Property.** `EndedGrantsFade`: a sign-in that has ended, in whichever way, opens
`/oauth/userinfo` for at most one lifetime of an access token (access.rs:40, "its
lifetime is the window"). It is not obvious: a response may be granted before the
revocation and arrive long after, a refresh may hold the row lock while the
revocation waits. It holds because `exp` counts from the first statement's clock and
because a commit grants only what has not ended. The run has `Lifetime = 1`, so that
a token that counted from a later moment would outlive the bound at once; the theorem
is for every lifetime.

## 5. `Authorization`

**State.** `sessions`, `clients`, `allowed`, `consents` are tables (`sessions`
keeps the user of each active row: a revoked and an expired row are both invisible
to `find_active_by_hash`, and an unreferenced one is reused); `aged` says which
sessions are too old for a request with `max_age`; `cookie` is the browser's;
`approved` is a history of what each user said yes to. Each tab has a `page` and at
most one request in flight: `op`, `req`, `sent` (the cookie's session when it was
sent), `who` (the user it resolved to), `read`, `made`, `answer`, `pc`. The field
`via` of a request records where it came back from.

**Actions.** Nothing here runs in a transaction, so every statement is an action:
`Resolve` (the extractor), `Authenticated`, `AskToSignIn`, `LoginRequired`,
`SkipConsent`, `ConsentRequired`, `AskConsent` (`decide`); `SessionEndedMeanwhile`,
`Deny`, `Approve`, `ReadGranted`, `Upsert` (`/oauth/consent`); `IssueCode` and
`ClientIsGone`; `Retire`, `Create` (`start_session`); `Logout`; `Respond` and
`LoseResponse`; `Fail` at any statement; `Expire`, `Age`, `UpdateDetails`,
`DeleteClient` from outside. Errors, shown or redirected, end the flow (`Refuse`). An
edit that takes away the redirect URI of the requests is the empty set of allowed
scopes. Requests that `validate` would refuse every time are not in `Asks`.

**Properties.**

* `NothingBeyondApproval` - consents and codes never exceed what that user approved
  for that application, over account switches, edits, deletions and races.
* `SilentRequestsShowNothing` - `prompt=none` never reaches a page.
* `ReturnFromSignInIsFinal` - a request that comes back from a sign-in leads to
  another one only if its session has ended (or, from a consent page that was left
  open, is too old again).
* `EveryFlowEnds` - once sessions stop ending under it and nothing fails, no round
  of sign-in, authorize and consent goes on forever. Fairness: the server finishes
  what it started (weak, one task per request), and a user who is shown a page answers
  it or leaves. One tab only: with two, a schedule in which each tab signs in just
  before the other one's return can repeat, and no code could prevent it.

**Runs.** `auth_flow`: one tab, four kinds of request (`prompt=login` with `max_age`,
`max_age` alone, `prompt=consent` for two scopes, `prompt=none`), two session ids.
The safety properties over several tabs are theorems, for any number of them; what two
tabs of one browser can do to each other is run by the two races below.

**Findings.** `auth_consent_race`: two overlapping approvals lose one
(consent.rs:26 says it adds). `auth_sign_in_race`: two overlapping sign-ins leave an
active session that no cookie names (pages.rs:169 says the previous one is retired).

## 6. `Portal`

**State.** `rows` is `oauth_clients`; `generated`, `shown` and `lost` follow every
secret from its generation to the one page that shows it or failed to. Each tab has
one request: `req`, the row `find_owned` gave it (`read`), the secret it has stored
and is about to show (`made`).

**Actions.** One per statement: `CountApps`, `LimitReached`, `FindOwned`, `NotFound`,
`ValidateDetails`, `RefuseForm`, `Insert`, `WriteDetails`, `NothingToRotate`,
`WriteSecret`, `Delete`, `ShowPage`, `Fail`. No handler opens a transaction, and the
writes name the row by id alone.

**Properties.** `LimitOvershootIsBounded` makes the comment at apps.rs:82 precise: the
limit may be passed by one for each further request in flight, never by more, also
with deletions in between. `CurrentSecretIsKnown`: of two overlapping rotations the
one that is stored is in somebody's hands, or its page failed (the code promises nothing
against that failure, and the property allows for it by name). `SecretsMoveForward`: a
replaced secret never comes back, and the type of a client never changes, though an
edit writes a row it read long ago. `OnlyTheOwnerChanges`. The run `portal` has two
tabs, two developers and a limit of one, the least at which two creations overshoot
it; the theorems cover every number.

## 7. `SigningKeys`

**State.** `files` is `SIGNING_KEYS_DIR`: a file is absent, empty (created and not
written), whole or deleted. `job` is each run of `generate-signing-key`, `replica`
each server process with the keys it loaded, its active key and its
`SIGNING_ACTIVE_KID`. `left` is the time left of the youngest token of each key,
`cache` the copy of the JWKS an app holds, with its age. `stage`, `old`, `todo` and
`waited` are the operator's place in the rotation.

The operator follows `docs/security.md:156-161` and `jwt_manager.rs:29-33` in their
order: the new key is generated (1), the old one is pinned in every replica while the
JWKS copies are renewed (2), the pin is taken away (3), the old file is deleted (4).

**Actions.** `ContainerStart` with `AlreadyPresent`, `Missing`, `Name`, `Open`,
`Write` (the command, step by step: `create_new` and `write_all` are two), `Die`;
`Load`, `Stop`, `Sign`, `Fetch`; `Tick`; and the operator's `Begin`, `Generate` and
`Discard` (1), `Generated` and `Restart` (2), `Published` and `Restart` (3), `Retire`
and `Restart` (4), `Retired`. Any replica may stop and come back at any moment of the
procedure, with the settings it was last given.

**Properties.** `TokensVerifyUntilTheyExpire` is "Key rotation without breaking tokens"
(jwt_manager.rs:24): every replica that serves and every app with a fresh JWKS has the
key of every good token. It is violated (below). `OnlyEarlyTokensFail` is what does
hold, and is as much of it as does: the only good tokens that may not verify are those
of the new key while the rotation is in its first two stages, in which only a replica
that came back unpinned signs with it. `RestartsAreNotRefused`: no replica is ever pinned to
a key that is not there. `ReplicasComeBack` and `RotationsEnd` are the liveness of
both. Fairness: a process that runs goes on, a stopped container is restarted
(`compose.yaml`, `restart: unless-stopped`), the operator goes on with a rotation once
begun, time passes. `Generate` and `Discard` are strong, since container starts keep
taking the one run of the command the instance has.

**Run.** `signing_keys`: two replicas, so that one restarts before the other; one app;
three ids, so that a run of the command can be stopped half way and repeated; a tick
is five minutes (JWKS for one, tokens for three). `rotation_race`: the finding.

**Finding.** `rotation_race` violates `TokensVerifyUntilTheyExpire`: after step 1 a
replica crashes, comes back (`compose.yaml` restarts it) before step 2 has pinned it, and
takes the newest key (jwt_manager.rs:155). Its tokens do not verify at a replica that has
not restarted, nor with a fresh JWKS from there. That is the only way: the theorem
`RotationBreaksNoToken` says that the property holds in every behaviour in which no
replica comes back early (`ComesBackEarly`). An operator who pins the old key in every
replica before the new file is added rules that out.

## 8. `Accounts`

**State.** `users`, with the email each row is stored under and the password its hash
verifies; for each browser its `sharp_csrf` cookie; for each tab its page with the
hidden token, the form it posted, the cookie that request carried, what it has read,
and the response with its cookie.

**Actions.** `Visit`, `Submit`, `SignOut`, `Receive`, `Lose`, `Reopen` (the browser);
`Issue`, `VerifyCsrf` (csrf.rs); `CheckAccount`, `Insert` (`sign_up`); `StartSignIn`,
`Find`, `VerifyPassword` (`authenticate`); `StartSession`; `Fail`. Emails are
mailboxes in a spelling, and `NormalizeEmail` is what decides which two meet.

**Properties.** `OneAccountPerMailbox`: spellings of one mailbox that sign up at the
same moment get one account, since every row is stored under the normalised email and
`UNIQUE (email)` decides. `SignedInWithItsPassword`: the loser of that race is not let
into the winner's account. `SpellingsMeet`: the sign-in finds the account in whichever
spelling it was made. `OpenTabsKeepWorking` (csrf.rs:41): once a browser has a cookie and
none of its requests was sent without it, no response that any tab gets, loses or
overtakes replaces it, and every form of every tab carries its value, also one that is
shown again after an error. `TryingAgainHelps`: "Go back, reload the
page and try again" is true - a tab that reloads and submits gets past the check,
whatever the other tab does to the shared cookie. Fairness: handlers run (weak);
responses do not get lost for ever, and the user keeps doing what the page says
(strong, because the other tab may make a page stale in between).

**Run.** `accounts`: two tabs of one browser that is closed once, one mailbox in two
spellings, two passwords, five forms that take every path. `Token` is large enough for
`Fresh` always to exist (`MaxCookies`).

## 9. `RequestValidation`, `TokenResponses` and `ClientAuthentication`

Mostly pure code: one request, judged. They are state machines here because the
authorization request is written out and parsed again on its way: from the query to
the return address of the sign-in page, from there to the hidden fields of the consent
page, from there into the row of the code, and from that row into tokens, the row of
a refresh token, and claims.

**Actions.** `FromParams`, `ToPairs`, `WithoutReauthentication`, `Passes` and
`CheckErrors` (the fourteen checks of `validate` and what each answers, in their
order), `Grant` (what `issue_code` stores) and `Decide` are the code's; texts are sequences of words, so that a repeated, empty or missing
parameter, a doubled space and an unknown word are all told apart. `Redeem` compares
the redirect URI and the PKCE verifier, spends the code either way and signs; `Refresh`
signs for the scopes it names and keeps the original ones in the successor's row;
`UserInfo` takes an access token and no other, and tells what its scopes allow.
SHA-256 is a function without collisions, lengths and alphabets are classes: a
challenge may be well-formed and its verifier too short. One client makes these calls,
one after the other and in time; who else may call, and when, is `TokenEndpoint`'s
subject.

**Properties.**

* `TokensAreForTheRequest` compares the tokens in an app's hands, and what it proved to
  get them, with what it wrote into its first query, read by a reference definition
  that does not use the parser: client, redirect URI, verifier, nonce.
* `ScopesAreAsNamed` - over any sequence of refreshes the scopes of a response are those
  its own request named, or all the user approved. The code keeps two scope sets at
  that point (token.rs:330), and access token, ID token, refresh token and claims must
  each follow the right one.
* `PromisesAreKept` - `Metadata` is the discovery document; a request that keeps to it is
  not refused, and nothing outside it is granted or told.
* `AnswersAreAddressed` - no redirect to an address that was not registered.
* `OnlyTheUserCanStillRefuse` - a request that was accepted once is accepted in every
  form it is written in: after a page has been shown only the user can end it.
* `SignInIsAskedOnce` - `prompt=login` and `max_age` do not send the user round.
* `TakenForItsSender` compares `Judge`, the order of checks in the handlers, with a
  statement of RFC 6749 2.3 that has no order (`IsFrom`).
* `FailuresAreAlike` - a failure is the same for a client that exists and one that
  does not.

**Run.** `request_validation` takes the usual request with every pair of deviations
from it (`Deviations`: each parameter with other, absent, empty, repeated and doubled
values), in every state of the session, and after each code any sequence of
redemptions, refreshes (`RefreshScopes`) and userinfo requests; and every token or
revocation request over two confidential, one public, one inactive and one unknown
client. Pairs suffice because every check looks at one parameter, and only the order
of two failures, or of a failure and a repetition, can matter. The calls of the app
need no bound: their state is what the rows and the last response hold.

## 10. Runs

| Run | Instance | Time |
|---|---|---|
| `token_endpoint` | 2 requests, 2 clients, 1 code, 2 tokens, access tokens | 2 min |
| `token_family` | 3 requests, 3 tokens, not all of both at once | 2 min |
| `token_liveness` | 2 requests, 2 tokens, with fairness | 2 min |
| `token_revoke_race` | violation | seconds |
| `auth_flow` | 1 tab, 4 requests, 2 sessions, with fairness | 1 min |
| `auth_consent_race`, `auth_sign_in_race` | 2 tabs, violations | seconds |
| `portal` | 2 tabs, 2 developers, limit 1, 3 secrets | 2 min |
| `signing_keys` | 2 replicas, 1 app, 3 keys, with fairness | 2 min |
| `rotation_race` | 2 keys, violation | seconds |
| `accounts` | 2 tabs, 1 browser, 5 forms, with fairness | 3 min |
| `request_validation` | every pair of deviations, any sequence of calls after the code; every set of credentials | 1 min |

`CHECK_DEADLOCK FALSE` is set where the system may really stop: every application is
deleted, every id is used, or the one request has been judged. That nothing gets stuck
before is a liveness property where there is something to be stuck on.

## 11. What is proved

Every theorem is for all values of the constants, and from the named assumptions of
the module it is about. Each argument is an inductive invariant; each was checked by
TLC first, on the instance of its module's run.

| Module | Invariant | What it adds to the properties it proves |
|---|---|---|
| `TokenEndpointProofs` | `IInv` | locks exclude each other, a locked row still is what its holder read, an uncommitted token has an id of its own, a stored token names a used code of its client |
| `GrantProofs` | `GrantRowsInv` | the shape of the committed rows (`RowsHold`), and what a request's answer is based on until it is given (`AnswerHolds`) |
| | `FadeInv` | time left and time since the end of a grant never add up to more than a lifetime (`Clocks`), also in responses being made (`Tracks`) |
| `AuthorizationProofs` | `ApprovalInv` | a handler past its check has a user and stays within that user's approval with what it has read and will write |
| | `FlowInv` | what every page, hidden field and return address may still ask for, and what has become of the session a request was sent with |
| `PortalProofs` | `PortalInv` | requests that have counted and not inserted, what a read row can still be relied on for, secrets are distinct |
| `AccountsProofs` | `AccountsInv`, `TypeOK` | rows are keyed by normalised emails; what a request found stays true until it answers |
| | `CookiesHold` | a response sets a cookie only when its request carried none, and its form carries the value the request did |
| `SigningKeysProofs` | `KeysInv` | stage by stage, the keys that everybody has (`Known`), who must have them, and that a retired key has nothing left to verify |
| | `OldKeySigns` | before the pin is taken away only the old key signs, in behaviours without an early return |
| `RequestFlowProofs` | `FlowInv` | every copy of the request says what the app said, a copy that was shown validates and asks for no further sign-in, and the answer fits the first query |
| | `ResponsesInv` | what the app has proved, what it holds, what the refresh token keeps and what the last reply told all fit the grant |
| `ClientAuthenticationProofs` | `JudgedInv` | nothing: the answer is the judgement, and the work is in the lemmas about `Judge` |

`OneLiveTokenPerCode` shows why a strengthening is needed: that a commit adds no second
live token depends on what its transaction read before, so `IInv` has to say that a
locked row does not change. Each action is shown to keep the conjuncts it can disturb;
the action properties follow from what a step can do to a row (`RowSteps`,
`CodeSteps`) and from who can do it (`TokenWriters`, `GrantIsCommit`).

`Refinement` proves `ImplementsLedger`: initial states map to initial states
(`InitLedger`), and each step to a ledger step or to none (`LedgerStep`). The commits
of a redemption, a rotation, a revocation and a deletion are the steps that count; the
case that needs `IInv` is the rotation, whose old token must be the one current token
of its entry and whose new token must be new to the ledger. `FadeInv` uses
it: that an ended grant stays ended is read off the ledger, not off the rows.

`WithinApproval` is stable under the steps of other tabs because approvals only grow
(`ApprovalsOnlyGrow`); that the consents themselves do not, as the consent race shows,
does not matter for it. In `FlowInv` the fact that carries the proof is that a session
id is not used again while a request still names it (`EndedStaysEnded`).

`LimitOvershootIsBounded` counts: stored applications plus creations past their count
never exceed the limit by more than the other tabs. Only a count can admit a new one,
and it is below the limit then, so at most every tab has one.

`RequestFlowProofs` is about data: texts of any length, any usual request and any
deviation from it, where the run has lists of them. `RoundTrip` (a request that is
written out parses to what was written), `Reauthentication` (the return address loses
`login` and `max_age` and nothing else) and `StillPasses` (no check minds that) say what
one link of the chain keeps, and `FlowInv` carries it along the chain. That is why
`OnlyTheUserCanStillRefuse` and `SignInIsAskedOnce` hold: a copy that was shown has
neither `none` nor `login` in its prompt, and validates. Dropping `login` is a recursion
over the words (`WithoutLogin`); what it leaves is proved by induction. The library's
induction theorems take an operator, so `LeastNumber` gets a least element from `WFMin`
and `NatLessThanWellFounded`, which speak of sets, and `Induction` follows for sets of
numbers; `WithoutLoginRecursion` uses it to show that the recursion has a solution.
`PromisesAreKept` rests on `AnnouncedIsValid`: a query that says only what `Metadata` has
passes the fourteen checks because the usual one does.

The proofs of `ClientAuthenticationProofs` take a request apart by where its credentials
are (`SenderInHeader`, `SenderInBody`) and compare it with itself under another name
(`RenamedRequest`); the parameters of the grant play no part in either.

**Assumptions.** The theorems of `SigningKeysProofs` assume `OneCommand`, that runs of
the command do not overlap: without it they are false (section 13).
`AccountsTypeCorrect` assumes `EnoughTokens`, that the bound on anti-forgery tokens is
not reached; every choice in the run `accounts` has one. Those of `RequestFlowProofs`
use `Parameters` (what the app sends are texts, and `None` is none), `UsualIsAccepted`
(what `Usual` means; only `PromisesKept` needs it) and `ResponseParameters`; those of
`ClientAuthenticationProofs` use `Identifiers`: the four kinds of clients are
disjoint, and a text, a payload, a header and an error are different things. Both say
of constants what their being texts says of the code's values; TLC evaluates them in
`request_validation`. The theorems of the other modules assume only the `ASSUME`s of
their modules.

Only model-checked: liveness (`EveryRequestEnds`, `EveryFlowEnds`, `ReplicasComeBack`,
`RotationsEnd`, `TryingAgainHelps`), since the prover has no fairness and no `ENABLED`.
Every invariant and action property of a passing run is a theorem. The types of
`Accounts`, `SigningKeys` and `RequestValidation` are proved and not listed as invariants
of their runs.

## 12. Findings

Four runs violate what a comment of the code says. Three are short interleavings of
two requests, one is a restart between two steps of an operator.

* `token_revoke_race` (revocation.rs:12): a revocation that overlaps a refresh leaves
  the family a live token.
* `auth_consent_race` (consent.rs:26): of two approvals that overlap, one is lost.
* `auth_sign_in_race` (pages.rs:169): of two sign-ins that overlap in one browser, one
  session stays active without a cookie.
* `rotation_race` (jwt_manager.rs:24, docs/security.md:158): a replica that restarts
  after the new key is added and before the old one is pinned signs tokens that other
  replicas and fresh JWKS copies cannot verify.

## 13. Limits

What the models leave room for, or the instances rule out, and a reader should know:

* **Deletion and access tokens.** The portal says "Application deleted. Its tokens no
  longer work." (apps.rs:46). That is true of refresh tokens at once and of access
  tokens after at most fifteen minutes, which access.rs:40 says and `EndedGrantsFade`
  bounds.
* **A first start that is interrupted.** `write_private_file` creates the file and then
  writes it (main.rs:201). Stopped in between it leaves an empty file that
  `--if-missing` takes for a key (main.rs:132) and the server refuses to load, until
  somebody removes it: `Discard`, which the fairness of `ReplicasComeBack` assumes.
* **Two first starts at once.** Both find no key and write one each (main.rs:134). A
  server that started between the two has only one of them. `compose.yaml` runs the
  command once, before the server; the run has one process of the command (`Job`) and
  the theorems assume it (`OneCommand`).
* **Two first tabs.** Two pages opened at once without the cookie get a cookie each,
  and the later one invalidates the earlier form (csrf.rs:41 promises the opposite for
  tabs opened one after the other). `OpenTabsKeepWorking` begins where they have one
  cookie; `TryingAgainHelps` says that a reload is enough until then.
* **`max_age` on the way.** `max_age` and `prompt=login` are judged when the request
  arrives (authorization.rs:446). A consent page may stay open for longer than
  `max_age`, and its answer is not judged again (authorization.rs:483); an app that
  sent `max_age` is told to check `auth_time` (id_token.rs:11).
* **Time.** Codes, sessions and refresh tokens have expired or not; only access tokens,
  JWKS copies and the rotation count ticks. Which side a tie falls on is not modelled.
* **Bounds in guards.** `OutOfIds`, `OutOfSessions` and an empty choice in `Portal`'s
  `Insert` make a statement fail when an instance has no id left; `MaxRestarts`,
  `MaxLost`, `Deaths` and `LastKid` limit how often something outside the server
  happens.

## 14. What is not modelled

Pages, routing and response headers (no state). Configuration, start-up and migrations:
they run before any request; the constraints of the schema are in the models that use
the tables. Password hashing, signatures and JWT encoding are library calls, taken at
their word. The rules for names and registered URLs (`validate_details`) are a function
of one input with unit tests beside it; what it accepts is a set here. The React
example client is not part of the server; the mailer is an empty file. The connection
pool is not modelled, since no handler asks for a second connection while it holds one.
