# Kerghan in TLA+

Kerghan is a web application: a NestJS backend over MySQL, a React frontend, a
caching PHP proxy and a shell client that installs and runs the whole. This
directory holds TLA+ models of the parts with state that concurrent requests,
callbacks or messages fight over, the TLC runs that check them on small
instances, and TLAPS proofs for every instance: of every safety invariant and
action property that the runs check.

    tlc -workers 2 -config AuthTokens.cfg MCAuthSessions     # one run
    tlapm AuthSessionsProofs.tla                             # one proof module

`PROJECT.json` lists the components, the runs, what each definition models
(`map`), the findings, the hazards and the theorems.

## The system

Every backend handler is an `async` method on Node's event loop. One operation
runs in a transaction (`insertWithinCap`, under a lock on a row of its owner);
everywhere else any other handler may run between two awaited database
statements, and a handler may die after any statement (a database error, a
restart). A guard that must hold under a race is a guarded `UPDATE` or `DELETE`
whose affected-row count decides, or a unique key; everything else is
read-then-write. In the browser one callback runs at a time,
and answers arrive in any order.

| Part | State | Operations | What is hard | What makes it correct |
| --- | --- | --- | --- | --- |
| Refresh tokens and sessions (`auth/token.service.ts`, `session.service.ts`, `auth.service.ts`) | `auth_refresh_tokens`: one row per token, a session is a chain of rotated rows | login, refresh (rotate, replay detection), logout, status, revoke, revoke-others, pruning | two refreshes of one token, a failure between rotate and insert, pruning against replay detection | one live token per session; an ended session stays ended; replays stay detectable |
| Accounts and administration (`account`, `user-update`, `admin`) | `auth_users`: status and password | register, account edit, admin edit, approve, deny | an entity read before an `await` and saved after it | a denied user has no session; a changed password ends the old sessions |
| Password reset (`password-reset.service.ts`) | `auth_password_reset_tokens` | recover, recovery link, reset | find, set, mark, revoke are four statements | a token sets one password |
| Default user (`default-user.service.ts`) | one managed account | boot sync, automatic login | a crash inside the sync; a long way round to the account | only a boot changes it |
| Device authorization (`authorization-request*.ts`) | `auth_authorization_requests` | create, poll with claim, authorize, deny | polls racing for the claim, writes by id from an old read, caps and lockouts counted before the write | sessions only for approvals; the status machine |
| Account-edit lockout (`account-edit-abuse-guard.service.ts`) | `auth_account_edit_lockouts` | check, failure, reset | insert race of the first failure, lost update | no failure is lost before there is a row |
| Integration store (`integration-store.service.ts`, `integrations.service.ts`) | `integrations` rows with an encrypted secret | create, rename, replace, delete | cap and unique label under concurrent creates | the cap holds |
| Connection test (`integration-connection-test.service.ts`, `-cooldown`) | `last_tested_at`, status of a row | claim, probe, record, lazy re-encryption | two tests at once; a replace during the test | tests of a row are a cooldown apart; a new secret stays |
| Key rotation (`integrations-key-rotation.service.ts`, `cli/integrations-keys.ts`) | the key id of each row | batches of re-encryption | rows replaced, inserted and deleted between the read of a batch and the rewrites | no readable row is left behind, no old secret comes back |
| Credential lockout (`integration-credential*.ts`) | `integration_credential_lockouts` | reserve, release, reset | concurrent attempts share one counter; a crash keeps a reservation | a lock is earned by the user's own attempts |
| GitHub clients and type strategies (`github-*.ts`, `types/*`) | none | validate, test | a rate limit is a 403 too; several calls per validation | only rejections count; an issued token is returned or revoked |
| OAuth-App and GitHub-App flows (`types/oauth-app`, `types/github-app`) | single-use redirect states, staged | start, callback, select | two callbacks with one state, pruning by an old read, a token that is issued and not stored | a state is consumed once, by its user, at its stage |
| Frontend API client, header, awaiting-approval view | cookies, what the header shows, calls in flight | call, 401, refresh, retry, status check, login, logout | concurrent 401s refresh twice; lost and reordered answers | a call rotates once; a signed-out user is told |
| Login modal and poller (`LoginModalController.js`, `AuthorizationRequestPoller.js`) | mode, panel, timers, calls in flight | open, close, switch, submit, tick, expiry | the expiry timer against a late answer; an answer after the modal went away | one truthful callback; silence after stop; the wait ends |
| Integrations page (`IntegrationsController.js`) | rows, cooldown timers, selection | load, landings, select, rename, replace, test, remove, create, leave | answers out of order, timers after a redraw | a disabled button wakes; the list agrees with the server |
| Mail, health, proxy, migrations, client script | none, or I/O | | | |

The parts meet in few places. Every authenticated call passes `JwtGuard`, which
looks up the session's live refresh row. Device authorization mints through
`TokenService#issueTokens`, the entry that login and register use. An edit, a
reset, a deny and a boot revoke through `TokenService#revokeUserTokens`. The
redirect flows and the pasted credentials share the store of integrations and
the credential lockout. In the browser the poller closes the modal through
`LoginModalEvents`, and every call that changes who is signed in tells the
header through `AuthEvents`.

## Modules

| Module | Models |
| --- | --- |
| `AuthSessions` | accounts, refresh tokens, password resets, default user, their handlers |
| `AuthorizationRequests` | device authorization on the server |
| `RequestStatus` | the status machine that device authorization promises; abstract |
| `AccountEditLockout` | the cool-off around account edits |
| `Integrations` | store, pasted credentials, connection test, deletion, key rotation |
| `RedirectFlows` | both redirect flows; extends `Integrations` and composes with its handlers |
| `GithubAnswers` | operators: from GitHub's answers to the results of validation and test |
| `CoolOffs` | the credential lockout around every call to GitHub; extends `GithubAnswers` |
| `DeviceLogin` | login modal and poller in the browser |
| `BrowserSession` | API client, header and cookies against the auth routes |
| `IntegrationsPage` | the page's controller, timers and landings |
| `MC...` | TLC instances: pools, symmetry, which handler takes which calls |
| `AuthSessionsProofs`, `AuthorizationRequestsProofs`, `AccountEditLockoutProofs`, `CoolOffsProofs`, `DeviceLoginProofs`, `BrowserSessionProofs`, `IntegrationsPageProofs` | the proofs about the module of that name |
| `RedirectFlowsProofs` | the proofs about `Integrations`, and then about `RedirectFlows` |

On the server the modules have one shape: tables as functions from a pool, a
function of handlers in flight (a slot with a program counter and the locals of
the method), and one action per awaited statement with the code around it.

### AuthSessions

`users`, `tokens` and `resets` are the tables, `jwt` the latest access token
of each session, `req` the handlers in flight with their locals (`user`, `tok`,
`ses`, the loaded entity `snap`, the revocation reason `why`). `refresh` is
`RefreshFind`, `RefreshLoadUser`, `RefreshRotate`, `IssuePrune`, `IssueInsert`,
with `RefreshReplay` and `RefreshRevokeDenied` on its error paths. `Abort` kills
a handler between two statements. `Boot` may come at any instant, drops all
handlers and holds requests back until the sync is through.

What is abstracted:

- a token is its plaintext and its hash; a password is its digest;
- usernames and e-mails are the account, so uniqueness is the id's;
- `cred` (the password a session was opened with), `uses` (the passwords a
  reset token has set) and the columns of pruned rows are history;
- `repository.save(user)` reads the row again and writes the columns in which
  the entity differs, so a save from an old read writes old columns back:
  `ApplyUserUpdate` writes the whole `snap`;
- counts that a handler awaits together take effect in one step;
- the client address of the automatic login is allowed or not, at random;
- the account-edit lockout in front of `updateAccount` is a module of its own:
  here it can only refuse a call.

### AuthorizationRequests and RequestStatus

`rows` is the table, `hs` the handlers, `users` the status of the known users.
`minted` counts sessions per request and `approvals`, which is history, the
approving updates. `create` is the limit check, the cap's count, find and
evictions, and the insert; `poll` is the read, then expire or claim, load and
mint; `authorize` and `deny` are a read and a write by id.
`FollowsStatusMachine` is `RequestStatus!Spec` under `status = rows[_].st`.

### AccountEditLockout

One user's counter. An edit checks the lock, fails or succeeds, and a failure
is `RegisterFailure` (the read), then `InsertFirstFailure` or `ApplyFailure`
(the write of a state computed from the read). The insert may lose the race for
the primary key, which `RecoverFromInsertRace` answers by reading again.

### Integrations and RedirectFlows

`rows` are the integrations, `cli` is the key-rotation command with its batch
and position, `hs` the handlers. A secret is a model value, drawn fresh by each
validation that succeeds; its encryption is the id of the key and whether the
ciphertext still authenticates. A label is its normalised form. The insert
within the cap is one step, for its transaction holds the owner's lock, and
meets the unique label. `RedirectFlows` adds the table of states: the two tables
have the same columns and code but for the select stage, and are one here, told
apart by type. `dropped` (tokens whose revocation was asked), `consumed` (how
many callers a state let through), `proven` and `claimed` are history. GitHub
itself is which installations a user's account sees (`Access`), and whether it
accepts.

### GithubAnswers and CoolOffs

A response is its status, whether a header tells of a rate limit, and what its
body comes to; `ResponsesTo` gives the classes each call can meet, none at all
included. The operators are the classifications of the clients, the strategies
and the error types. `CoolOffs` follows one attempt call by call (exchange,
user, pages of installations, revocation, lookup and mint of an installation),
with the SQL of reserve, release and reset as one step each, and a crash between
any two. `kept` counts what the counter should hold; it is history.

### DeviceLogin

A request has at most one poller; `tick` and `timer` are the armed timers,
`call` the HTTP call in flight, `current` the controller's poller, `closing` the
success handlers that await the status re-check. The server is one step per
call: it answers at any time, in any order, or never; answers are lost, and the
browser's clock is not the server's.

### BrowserSession

`jar` holds the cookies, `rows` is the table of refresh tokens, `shown` what the
header shows, `asked` whether the login modal was opened, `call` the calls. A
request carries the cookies of the moment it is sent, an answer's cookies
replace the jar's when it arrives. The refresh route reads the row and then
rotates it on a condition, as `AuthSessions` proves it must; here it is these
two steps. A session may end elsewhere and the access cookie may expire at any
time.

### IntegrationsPage

`list` is what the page holds and `here` the server's rows, `shownNext` and
`until` give each button's end of cooldown, `timer` the armed timers, `drawn`
the time of the last drawing, `call` the requests in flight. A button shows what
was true when the page was last drawn, so that a timer that is missing shows as
a button that stays disabled.

## Runs

| Run | Instance | Shows |
| --- | --- | --- |
| `AuthTokens` | 1 user, 3 tokens, 2 sessions, 2 handlers, clock 0..2, failures | the session chain under login, refresh, logout, revoke, revoke-others |
| `AuthReset` | an admin, a newcomer under approval, 2 passwords, 1 handler | a reset token sets one password, older sessions end, a denied user is signed out |
| `AuthAccount` | a default user and an admin (both administrators), 2 passwords, 1 handler, boots, automatic login | the default user is managed; a password change keeps the right session |
| `AccountEdit` | 3 edits at once, limit 3 | the insert race of the first failure loses neither of two failures |
| `DeviceRequests` | 3 requests, a known and an unknown user, one device (with the polls that expire a row), 2 pollers that claim, failures, clock 0..2 | sessions never exceed approvals, only owners approve, cap, limit and lockout hold, the rows implement `RequestStatus` |
| `LoginModal` | 2 requests of one browser | one truthful callback, no orphaned wait, and the end of every poller |
| `IntegrationSecrets` | 1 user, 2 rows and a third to create, 2 handlers (replace and delete; create, rename and test), rotation in batches of one, cooldown 1, clock 0..3 | no re-encryption brings an old secret back, a finished rotation is complete, tests are a cooldown apart |
| `RedirectFlows` | 2 users, 3 installations of which one user sees 2, 2 states, 2 tokens, 2 handlers, caps of 1 | a state lets one caller through, pending states are bounded, the cap holds, installations are proved, tokens are accounted for |
| `CoolOffs` | 2 attempts at once (every flow beside pasted tokens), limit 2, 2 pages, 2 installations, crashes | a lock is earned, only rejections count, a token is returned or revoked, validation and test agree |
| `BrowserSession` | 3 calls, lost and reordered answers | a replay has one of two causes, a call rotates once, a signed-out user is told |
| `IntegrationsPage` | 2 rows, 2 requests in flight, 4 in all, clock 0..2 | a disabled button has a timer; the list agrees with the server once all is answered |
| `ParallelRefresh` | 2 calls | the finding below |

**Bounds.** Two handlers give every pairwise race; the third edit of
`AccountEdit` is there because the recovery from an insert race reads again and
races once more. Three tokens let a session rotate twice, or two sessions exist
while one rotates. Two ticks cross every expiry (TTLs are 0, 1 or 2), three let
one row be tested three times. A batch of one makes the rotation read between
any two rewrites. A cap of one integration and one pending state is the cap at
its limit with two handlers at it. Two pages are a full one and the last one.
Three calls of a browser are the two that race and the one that changes the
cookies in between; four requests of the page are a load, two actions and an
action after them. Pools of tokens, sessions, rows, states and calls are
consumed, never recycled, so a run ends when they are empty: that is why the
configurations switch the deadlock check off. The `Ops` and `Serves` constants
restrict which endpoints are called by whom; they keep one question's state
space small and change no action. Symmetry is over pools that no definition
tells apart, and no run with symmetry checks liveness.

**One handler at a time.** `AuthReset`, `AuthAccount` and the device of
`DeviceRequests` are sequential because their properties are false otherwise:
see "Behaviours no run demands". What of the sequence each property needs, and
that it needs no more, is said by the theorems of "Under a hypothesis". A boot kills the handler of `AuthAccount`
between any two statements, so that run also has the denied user whose sessions
are still there, and the refresh or status call that ends them.

**Fairness.** Only `DeviceLogin` assumes any: the browser's clock goes on and
an armed expiry timer fires (`WF` of `Due` and `Expiry`, which `setTimeout`
gives). Nothing is assumed of the server, the network or the user, so
`PollerEnds` rests on the expiry timer alone. `expiresAt` is always a date
here, as the server sends one; the code would arm no timer for anything else.
The other modules have no liveness property: what a handler promises is
promised only if it survives, and the page's timers are stated as an invariant
(`TrackedButtonWakes`: disabled implies armed).

**Mutants.** Every property of a passing run has a mutant in `PROJECT.json`: a
plausible slip in one definition, under which the same run finds the property
violated.

## Findings

`ParallelRefresh`: `handleUnauthorized` refreshes per call, without a lock. Two
calls that are both answered 401 present the same refresh cookie; the second
refresh finds it rotated, takes it for a replay and ends every session of the
user. The comment of `ApiClient` promises that it "transparently recovers from
an expired access token" (`TransparentRecovery`). The Integrations page makes
such a pair of calls on every load. What does hold is `ReplayExplained`: a
replay comes from two refreshes of one browser that overlap, or from a refresh
whose answer was lost, and from nothing else.

## Behaviours no run demands

These behaviours are in the models. No property excludes them, because the code
does not prevent them and in most cases promises nothing. The name in
parentheses is a definition to check where one exists. The name in brackets is
the hypothesis that excludes the behaviour in a theorem (see "Under a
hypothesis").

Server, accounts and sessions:

- An edit that loaded the user before a deny saves it after, and the denied user
  is approved again (`user-update.service.ts:62`; `user.entity.ts:20` calls
  denied "final") [`FreshSaves`].
- A login that compared the old password before a reset inserts its token after
  the reset's revocation (`OldPasswordSessionsEnd` with two handlers)
  [`MintsApart`].
- Two resets in flight use one token (`ResetTokenSingleUse` with two handlers)
  [`ResetsApart`]; so do two in a row, if the first dies before it has marked
  the token [`MarkFollows`].
- A password change keeps the row with the presented hash. A refresh that
  rotates between the guard and the revocation gives the current session a new
  row, which is then revoked: the user is logged out of the page they are on
  [`InsertsApart`].
- A boot sync that dies between the save of the new password and the
  revocation leaves the old sessions alive; the next boot compares the new
  password, sees no change and revokes nothing [`RevocationsFollow`].
- `session.controller.ts:66` says the access token of a revoked session "stays
  valid until it expires"; `JwtGuard` looks the session up and refuses it at
  once. `Admits` models the code.

Server, device authorization:

- An authorize from an old read sets a claimed request back to approved, and
  the next poll mints a second session (`OneSessionPerRequest`)
  [`WritersApart`]. What does hold always is `SessionsBackedByApprovals`: each session has its own password-checked
  approval by the owner.
- A `deny` can be overwritten by an `authorize` that read the row while it was
  open, and the reverse; and a poll that read an expired open row writes
  `expired` over an approval or a login of an authorize that had read it in
  time. With two writers the rows leave the status machine, and an expiring poll
  is a writer: hence it shares the device's slot in `DeviceRequests`
  [`WritersApart`]. The ledger is proved for every sharing out of the calls.
- Two wrong authorize passwords at once count as one failure, and a failure
  counted from an old read can shorten a lock. An authorize that read the row
  before the failure that locks it approves the locked row [`AuthorizesApart`].
- Two creates at once pass the open cap by one each [`CreatesApart`].
- With `KERGHAN_AUTHORIZATION_REQUEST_MAX_OPEN_PER_USER` at 0, which
  `getNumberConfig` admits, a create finds nothing to evict and inserts: the cap
  is in force from 1 on.

Server, integrations:

- A release sets `locked_until` to NULL and takes one off the counter as it is
  then. After a reset in between it takes off another attempt's reservation, so
  failures are lost (`FailuresStayCounted`, with `Serves <- Pasted`; compare
  `integration-credential-abuse-guard.service.ts:29-32`).
- The outcome of a connection test is written by id: after a replace during the
  test it is recorded on the new secret.
- An OAuth replace finds its row, and the row is deleted before the update: the
  token it holds is neither stored nor revoked (`TokensAccounted`, with
  `Serves <- TwoOauth`) [`ReplacesApart`].

Browser:

- The answer to a creation call starts a poller although the modal was closed
  meanwhile (`NoTimerOnceClosed`). It ends by itself at `expiresAt`
  (`PollerEnds`), but an approval before that logs the browser in.
- An answer that clears the cookies arrives after a newer login has set them,
  and signs the user out again.
- A row that a landing or a selection puts in the list gets no timer, so its
  Test button stays disabled until something else draws the page
  (`ButtonWakes`; `githubAppFlow.js:49`, compare `CooldownTimers.js:1-4`).
- A selection made while the list is loading: a list served before it and
  answered after it drops the new row.

## Proofs

All are for any finite or infinite pools, any number of handlers (a finite
number in `AuthorizationRequests`, `CoolOffs` and `RedirectFlows`, where they
are counted), any TTLs and limits, under the named assumptions of the modules.
Most of the assumptions say that null values are not members of their pools,
that numbers are naturals, and that TTLs, lock times, caps and batches are
positive (as the configuration enforces or a constant of the code says). The
default user is one of the accounts of the first state, because a boot creates
it. One assumption says more: `TestsAreShort`, a connection test ends within the
cooldown that it claimed (by default 30 seconds, against two calls that are cut
at 10 each). `TestsSpaced` rests on it, and nothing else does.

- **Types** (`TypeCorrect` of each proof module that is about one). In
  `AuthSessions` `TypeOK` alone is not inductive: a step inserts a row with the
  user and reason of its handler. `TypeInv` adds `UsersBound`: issued rows and
  busy handlers have a user, and a handler on its way to a revocation has a
  reason other than `rotated`.
- **The session chain** (`AuthSessionsProofs!ChainsHold`). `ChainInv` adds that
  beside an unrevoked row of a session there are only rotated ones, that a
  handler which has rotated a row and will insert the next finds every row of
  its session rotated and of its own user, and that no two handlers do so for
  one session. The guarded rotation is where it is used: its affected-row count
  makes one of two refreshes the only one to go on. From it follow `OneLiveToken`,
  `EndedStaysEnded` (a refresh in flight cannot revive an ended session: whoever
  ends it finds a row to revoke, or every row rotated and then nothing to end),
  `IdentityKept`, `ReplayDetectable` and `RevocationPermanent`.
- **The default user** (`AuthSessionsProofs!DefaultUsersManaged`). `Managed`: it
  is approved, so that the guarded updates of register and approve miss it, and
  no handler on its way to an unguarded write of an account has it as its user.
  The second half is what `assertNotDefaultUser` establishes some statements
  before the write; a boot drops every handler, which is why no write from
  before it can come after it.
- **revokeOthers** (`AuthSessionsProofs!RevokeOthersKeepCurrent`). `KeepsSession`:
  between its two statements the handler holds the session of the token it was
  called with, and a row, once issued, never changes its session. Hence the
  update spares that session also after a refresh has rotated the token.
- **Approvals** (`AuthorizationRequestsProofs!LedgerHolds`). Per request,
  sessions minted plus polls between claim and mint plus one for a claimable row
  never exceed the approvals. The guarded claim moves one unit from the row to
  the handler; the mint moves it to a session. `SessionsAreApproved` and
  `OwnersApprove` follow.
- **The poller** (`DeviceLoginProofs!PollersHold`). `PollerInv` ties timers to
  live pollers, callbacks to stopped ones, a creation in flight to the absence
  of a poller, and an answer in flight to the row. `FirstOutcomeStands` needs it
  to know that a poller that has run a callback is stopped, `OutcomesTruthful`
  that the late answer still matches a row that is over. `WaitingAlive` is
  inductive with the types.
- **The first failures of an edit** (`AccountEditLockoutProofs!FirstFailures`).
  Until a reset, the row counts at least one failure once it exists, nothing was
  recorded before it exists, and a handler about to write a count has read one
  of at least one, also after a lost insert: so it writes two or more.
- **The credential lockout** (`CoolOffsProofs!LocksJustified`). The counter never
  exceeds what is kept plus the reservations of attempts in flight, each counted
  once: a reservation becomes kept when its attempt fails or dies, and is given
  back otherwise. A lock is set only by a counter at the limit.
- **Tokens** (`CoolOffsProofs!TokensReturnedOrRevoked`). At each program counter
  the token is not yet issued, in hand, returned or revoked, and the counters
  after which an attempt ends leave only the last two.

- **What counts, and test against validation** (`CoolOffsProofs!RejectionsOnlyCount`,
  `!ValidationsAgreeWithTests`). `AnswerInv` ties the result
  that an attempt carries to the answer it came from, at each program counter
  until it is settled, past the revocation and any number of pages: a result
  that counts came from a conclusive answer, and that of a pasted token or of a
  token that is kept is the client's reading of the last answer. The rest is two
  facts about the operators, for every response.
- **The store of integrations** (`RedirectFlowsProofs!TypeCorrect`, `!CapsHold`,
  `!ReplacementsWin`, `!RotationsComplete`, `!TestsAreSpaced`). `StoreInv`: ids are
  given in order; a live row has an owner and a secret of its type; what a
  handler or the batch of the rotation has read of a row is still that row's,
  if its secret, key and ciphertext are. From it, `CapsHold` (the count is taken
  in the step that inserts, for the owner's lock is held) and `ReplacementsWin`
  (a rewrite is conditioned on the columns that were read, so it misses a
  replaced row). `RotateInv`: a readable row under a previous key is past the
  cursor and, while a batch is at hand, in it or past it with another batch to
  follow; rows inserted meanwhile are under the current key. `TestInv`: a handler
  that tests holds the latest claim on its row, and the claim is no later than
  the time the row keeps; a replace moves that time forward only.
- **The redirect flows** (`RedirectFlowsProofs!StatesSingleUse`,
  `!InstallationsProven`, `!PendingsBounded`, and the five above again with
  callbacks among the writers). `UseInv`: a state that is not gone has let nobody
  through, so that the delete's affected-row count decides. `FlowInv`: the
  candidates of a pending state, and the installation that a handler is about to
  store, have been listed for that user by GitHub. `PendingInv` is the one that
  is hard to find: every start reads what it may prune, deletes it and inserts,
  in three statements, and nothing says of a single handler that its read is
  still enough. But of any set of handlers that are about to prune, one has read
  what leaves room for all of them (the last one to read).
- **The browser session** (`BrowserSessionProofs!RotationsOncePerCall`,
  `!NoSilentSignOuts`, `!ReplaysExplained`). `CallInv`: the answers and cookies
  that are possible at each step of a call, and that a call that has rotated
  does not ask again. `SignedInv`: while nothing has crossed, a sign-in,
  sign-out or migration is alone, and what shows or will show a user has a
  cookie or a modal behind it. `TokenInv`: unless refreshes overlapped or a new
  token was lost, a token is in one place, and a rotated token stays in the jar
  only until the answer with its successor arrives; so nobody presents it again.
- **The Integrations page** (`IntegrationsPageProofs!TrackedButtonsWake`,
  `!ListsAgree`). `WakeInv`: no end of a cooldown that the last drawing showed is
  later than the row's timer, for the two ends (from the row, from a 429)
  separately. `KnownInv`: no row is known to the page before it exists.
  `AgreeInv`: which requests can be in flight in each phase; the list is asked
  for alone; a row that the list lacks is in an answer that will add it, a row
  that it has too many in an answer that will drop it; and a created row is
  nobody else's until its answer is there.

### Under a hypothesis

Ten theorems are about properties that fail when two named statements
interleave, or when a handler dies between two. The run that checks such a
property leaves the race out by giving the calls to one handler; the theorem
leaves out nothing but the race. Its hypothesis is a formula over the handlers
in flight, assumed of every state (`[]`) or of every step (`[][...]_vars`): the
number of handlers, the calls they serve and all their other interleavings are
free. The hypotheses that keep statements apart are true whenever a handler is
alone; `MarkFollows` and `RevocationsFollow` as long as it does not die (a
failure or a restart) at that one place; and `NoSessionKept` says of a
property about all sessions that one is not kept on purpose. So runs with one
handler have behaviours that satisfy each, and each but the last excludes an
entry of "Behaviours no run demands".

| Theorem | Property | As long as | Invariant |
| --- | --- | --- | --- |
| `ResetTokenOnce` | `ResetTokenSingleUse` | `ResetsApart`: no two requests in flight reset with one token. `MarkFollows`: after the password is set the handler marks the token next, and does not die | `ResetInv`: a token that has been used is marked, or its handler is about to mark it |
| `PasswordChangeKeepsCurrent` | `PasswordChangeKeepsCurrentSession` | `InsertsApart`: no row of a user is inserted while a change of their password is in flight | `KeepInv`: of the unrevoked rows of the user, exactly that of the presented token is of its session |
| `OldPasswordsEnd` | `OldPasswordSessionsEnd` | `MintsApart`: no session is minted for a user while a handler that has changed their account has still to revoke. `FreshSaves`: an edit saves the entity as it still is in the table. `RevocationsFollow`: a handler that owes a revocation does not die before it. `NoSessionKept`: no change of password that keeps the presented session (which was opened with the old one, and is meant to stay) | `CredInv`: an unrevoked row has the current password or its user's revocation is owed; a handler about to mint has the current one |
| `DeniedSignedOut` | `DeniedUserSignedOut` | the first three of these | `DenyInv`: a denied user has no unrevoked row, or their revocation is owed; nobody is about to mint for one |
| `StatusMachineFollowed`, `OneSession` | `FollowsStatusMachine`, `OneSessionPerRequest` | `WritersApart`: no two handlers are between the read of one open row and their write of it | `MachineInv`: what a handler is about to overwrite is still open; one handler at most has won the claim of a row, which is then logged and has no session yet |
| `LockedRowsNotApproved` | `LockedRowNotApproved` | `AuthorizesApart`: no call with the right password is between its read of a row and its update while one with a wrong password is | `ApproverNotLocked`: the row that a handler is about to approve is not locked |
| `OpenCap` | `OpenCapHolds` | `CreatesApart`: no two creates of one username in flight; and the cap is positive | `CapInv`: a create about to save has room below the cap, one about to evict has it without the row that it evicts |
| `CreateLimitKept` | `CreateLimitHolds` | `CreatesApart` | `LimitInv`: no window that begins with a row holds too many, and a create that has passed the check has room in the window that ends now |
| `TokensAreAccounted` | `TokensAccounted` | `ReplacesApart`: while an OAuth callback is between reading its row again and writing it, nobody else replaces or deletes that row | `TokenInv`: an issued token is with a handler, on a row, or given for revocation; the token that a replace or a delete has read is the one that it removes |

Why the hypotheses are needed: nothing in the code enforces them. The statements
they keep apart are milliseconds apart on one event loop, and the actors are
mostly one person with one browser; so they describe the normal course, and the
theorems say that a violation of one of these properties has one of these races
or failures in it, and no other cause.

`StatusMachineFollowed` is the refinement proof: the initial states map to
initial states of `RequestStatus`, and under `MachineInv` each statement of each
handler maps to a step of it or to a stutter. An update by id is a step because
the row is still as it was read; an expiring poll likewise; the claim is one
because its `UPDATE` is guarded, whatever else is in flight.

Only model-checked: `PollerEnds`, which is liveness.

## Plan

Done: the core (sessions, accounts, resets, device authorization), the two
lockouts, integrations with rotation and redirect flows, the browser's half
(device login, API client and header, Integrations page), and the proofs of
every safety property the runs check, with the hypothesis where one is needed.
Left: an abstract session store (open, continue, end) that `AuthSessions`
implements. `EndedStaysEnded`, `OneLiveToken` and `IdentityKept` say its parts.

## Not modelled

Mail, health, logging, configuration parsing, cookies' attributes, DTO
validation, views and string predicates keep no state. The cipher and bcrypt
are external and appear by their results only; GitHub appears by its answers.
Migrations are history; the unique keys they create are used. The other pages
(recovery, reset, accounts, sessions) make one request and show its answer. The
proxy rewrites headers. The shell client and the deploy scripts drive other
programs, and their state is those programs'.
