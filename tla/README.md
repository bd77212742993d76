# Formal models of Splice

Splice collects a user's bank and crypto accounts. A NestJS backend
(`src/backend`) links accounts through providers (Plaid, on-chain wallets), keeps
their balances in Postgres through TypeORM, receives Plaid's webhooks, records a
daily balance snapshot per account, and converts balances between currencies. A
browser client (`src/frontend`) talks to it with short-lived access tokens.

The backend is one Node process. A request handler is atomic between two
`await`s and nothing else: almost no two queries share a transaction, there are
no locks, `save` writes back the entity that was read, and `eventEmitter.emit`
starts listeners without waiting for them. The models therefore take **one
action per await-to-await step**, and let any steps of different requests, jobs and
listeners interleave.

Paths below are relative to `src/backend/src` unless they start with `frontend`.

## 1. Inventory

| Component | State it keeps | Operations | Hard behaviour | What makes it correct |
|---|---|---|---|---|
| Link sessions: `bank-link.service.ts` (`initiateLinking`, `handleLinkCompletionWebhook`, `createAccountsFromLinkCompletion`), `webhook-event.service.ts` (pending events), Plaid's link and exchange calls | `webhook_event` rows with PENDING, COMPLETED, FAILED; `bank_link` and `account` rows | initiate, SESSION_FINISHED webhook, mark completed, mark failed | redelivered and overlapping webhooks; three separate saves; a crash after Plaid gave up a public token | nothing stored twice; COMPLETED means stored; every finished session is settled |
| Update webhooks: `handleWebhook`, `verifyWebhook`, `handleUpdateWebhook`, `tryAcquireWebhook` | one cached key of Plaid; deduplication rows (`webhookId` = key and timestamp) | verify, receive, acquire, sync | requests share the cached key; check and insert are two queries; the row is COMPLETED before the work; window boundaries | a genuine webhook is accepted; duplicates only from overlap; a change is dropped only if it is close to an acquired one |
| Bank link row: `handleStatusWebhook`, `syncAccounts` (institution info), `backfillPlaidItemIds` | `bank_link` status, institution, `plaidItemId` | status webhook, sync, backfill | three writers read the row, await, and save the whole entity | a writer never undoes another's column |
| Accounts: `createAccountsFromLinkCompletion`, `upsertAccountsFromAPI`, `OwnedCrudService.remove` | `account` rows | insert on link, upsert on sync, delete | lookup and save are two awaits without a unique constraint; slow syncs | one row per external account; balances never go back; they catch up with the provider |
| Balance snapshots: `balance-snapshot.listener.ts`, `balance-snapshot.service.ts` | `balance_snapshot` rows, unique per account and day | listener of account events, upsert | listeners that race or finish late, midnight, swallowed errors | newest snapshot = account's balance; past days do not change |
| Scheduled jobs: `bank-link.scheduled.ts`, `currency-exchange.scheduled.ts` | none | hourly and daily syncs of accounts and of rates | overlap with requests | every link keeps being synced |
| Plaid provider: `plaid.provider.ts` | a user token in `user.providerDetails` | link token, exchange, accounts, webhook parsing and verification | partial failures of `Promise.all`, a user token that exists at Plaid but is not stored | as above; the user can always link again |
| Crypto provider: `crypto.provider.ts`, `crypto-balance.service.ts` | none | validate wallet, fetch balance | a wallet linked twice; amounts in wei | amounts converted exactly |
| Refresh tokens: `auth.service.ts`, `user.service.ts`, `user.controller.ts` | `refresh_token` rows | login, refresh (rotation), logout, logout everywhere | two refreshes with one token; rotation is read, revoke, insert | one live token per session; a session ends only by logout or age |
| Browser refresh: `frontend/src/api/axios.ts`, `lib/auth.ts` | in-memory queue of requests behind one refresh | intercept 401, refresh, replay | queued requests when the refresh fails | every request settles; one refresh at a time |
| Users: `user.service.ts`, `frontend/src/routes/_authed/settings.tsx` | user row with jsonb settings and provider details; the form | register, log in, update settings, store the Plaid user token | read-merge-save of jsonb columns; a page that saves its whole form | no update lost but to a stale save; the currency is announced |
| Exchange rates: `currency-backfill.service.ts`, `currency-exchange.service.ts`, listener, cron jobs | `exchange_rate` rows, unique per pair and day | daily and hourly sync, backfill per user, ensure a rate for a snapshot, rates of a range | keys of existing rates, gaps, inverse pairs, tasks that overlap | every pair needed has a rate for each day that has data |
| Balance query: `balance-query.service.ts`, `balance-query.controller.ts`, `types/MoneyWithSign.ts` | none | read accounts, snapshots and rates; fill days; convert | tables written between its queries; both ends of the range; rounding | an answer shows what was stored, on every day |
| Transactions and categories, owned-CRUD base classes | one table each | create, update, remove | an update of a removed row; a foreign key beside its loaded relation | updates are stored; removed rows stay away |
| Front end views: `frontend/src/lib`, `components` | none | totals, changes, charts, the account modal | signs of liabilities, missing conversions | what is shown adds up |
| HTTP layer, modules, config, logging, provider registry | none | wiring, validation | none | not modelled |

**Interactions.** A SESSION_FINISHED webhook makes the link-session handler write
`bank_link` and `account` rows. Update and status webhooks are verified, acquire a
deduplication row and call `syncAccounts`, as do the jobs and the sync-all request. Every saved
account is an event to the snapshot listener; every saved snapshot and every change of the currency
is one to the listener of the exchange rates. The bank link row is shared by status webhooks, syncs and the backfill,
the user row by settings requests and link initiation. The balance query reads what all of them
write, and the pages compute from its answer. The browser client and the auth service share
only refresh tokens.

The hazards of the code are listed at their lines in `PROJECT.json`, with the properties
that would notice each going wrong.

## 2. Modules

| Module | Models | Role |
|---|---|---|
| `LinkSession` | what linking promises | abstract specification |
| `LinkCompletion` | the webhook handler and the pending event | implements `LinkSession` when requests do not overlap |
| `WebhookDedup` | `tryAcquireWebhook` and update webhooks, with the clock | |
| `WebhookVerification` | signatures and the cached key, in front of `WebhookDedup` | EXTENDS `WebhookDedup` |
| `BankLinkStatus` | the writers of one `bank_link` row | |
| `AccountSync` | linking, syncing, deleting accounts | |
| `BalanceSnapshots` | `AccountSync` composed with the event listener | EXTENDS `AccountSync` |
| `RefreshTokens` | the server's refresh tokens: login, rotation, revocation | |
| `BrowserSession` | a page's cookies, flag and 401 queue | EXTENDS `RefreshTokens` |
| `RecordUpdates` | find, change and save of rows through the ORM | |
| `UserRecord` | the user row: registration, login, settings, the Plaid user token; a transaction beside it | EXTENDS `RecordUpdates` |
| `SettingsPage` | the form of the settings page | EXTENDS `UserRecord` |
| `CurrencyPairs` | directions of pairs and what providers quote | shared definitions |
| `RateSync` | the tasks that fetch and store rates | EXTENDS `CurrencyPairs` |
| `RateRange` | rates of the days of a range | EXTENDS `CurrencyPairs` |
| `Money` | amounts, rounding, conversion | EXTENDS `CurrencyPairs` |
| `BalanceQuery` | a request for balances beside the writers of its tables | EXTENDS `Money`, `RateRange` |
| `BalanceView` | what the pages compute from an answer | EXTENDS `BalanceQuery` |
| `MC...` | instances for TLC | |
| `...Proofs` | theorems and their proofs | |

Definitions whose comment begins with "Mutant" are not part of any specification: they are
plausible mistakes in the operation that follows, and each shows that one
property would notice it.

### LinkCompletion

A token (`webhookId` = Plaid's link token) goes `none -> issued` when Plaid
returned it, `-> offered` when the PENDING event is stored and the link URL is out, and
`-> finished` when the user is done; it is `lost` if the process failed in between.
`pc[h]` is the await a webhook request is at:

| step | code | action |
|---|---|---|
| find | `findPendingByWebhookId` | `FindPending`: no pending event, answer 200 |
| exchange | `processLinkCompletion`, `exchangeToken`, `getAccounts` | `ExchangeToken`, `ExchangeRefused`, `GetAccounts` |
| saveLinks | `repository.save(bankLinks)` | `SaveBankLinks` |
| saveAccounts | `accountRepository.save(accounts)` | `SaveAccounts` |
| completeFind, completeSave | `markCompleted` | `FindForCompletion`, `SaveCompleted` |
| failFind, failSave | `markFailed` in the catch block; the error is rethrown | `FindForFailure`, `SaveFailed` |

`CallThrows` is an exception inside the try block, `RequestThrows` one outside it,
`Crash` the death of the process. Two rows for one item are counted, not
overwritten, so that storing twice is visible. `OneUse` is the assumption that Plaid refuses
a public token it has exchanged before (Plaid documents it; the code relies on it:
only the status check and this refusal keep a redelivery from storing twice).

`LinkSession` has two variables: the session's status and the set of items
that have accounts. The refinement reads them off the database: `status` is the
event's column, `linked` the items with account rows.

### WebhookVerification and WebhookDedup

`gate[h]` is a request on its way through `verifyWebhook`: `Arrive` parses the token and takes the cached key if
`isCacheValid`, `FetchKey` asks Plaid for it and caches it, and `Accept` or `Refuse` follows from the signature
and the age of the token. Every request shares `cache`. Plaid signs each delivery anew and goes over to another key
(`RotateKey`). A signature is a key id: one that Plaid made verifies with the key it was made with.

In `WebhookDedup` a key is an item and a type. `Deliver` takes the `Date.now()` from which `windowStart`
is computed, `FindRecent` is the lookup (`completedAt > windowStart`), `InsertRow`
the insert. `completedAt` and the timestamp inside `webhookId` are one `Date.now()`,
taken when the lookup answered, so an insert of the same key and
timestamp hits the unique `webhookId`. The sync that follows is reduced to a version fetched from Plaid and
stored. Not modelled: the lookup compares `webhookId` by prefix, which could match a
longer key; Plaid's item ids have one length.

### BankLinkStatus

`row` is the `bank_link` row cut to status, institution info (a version) and whether
it has an item id. A writer's `entity` is what it read; `save` writes the entity with the
writer's own column changed. TypeORM's `save` reads the row again and writes the columns
that differ from it, which gives the same row. Status webhooks
read the row in `findByPlaidItemId`, before the two awaits of the deduplication.

### AccountSync and BalanceSnapshots

A call is a link being made (identified by its bank link) or a sync. The provider's
balance is a version number, so "older" has a meaning. `FindExisting` looks external ids
up over all of the user's links, and where several rows match keeps any of them: the
query has no order. `SaveAccounts` updates, moves and inserts in one transaction; an
entity whose row was deleted meanwhile is inserted again, as `save` does.
`emitted` holds the events of the last step, and `BalanceSnapshots!Emit` starts a
listener for each in that same step. The listener has the code's awaits: timezone, lookup, save.
`(accountId, snapshotDate)` is unique and `accountId` a foreign key, as the entities
declare; the migrations in the repository do not create these tables, so the decorators are the source.
`Overlap` says whether a call may start while another runs; `Drained`, whether calls
start only after earlier listeners are done.

### RefreshTokens and BrowserSession

`tokens` holds the `refresh_token` rows in the order they were inserted, each with the login it
descends from (`owner`, history only). A rotation has the awaits of `rotateRefreshToken`
and of the lookup of the user after it: find, revoke, insert, user. A call ends `granted` or
`refused`; the browser takes the answer in an action of its own, so that a logout, a second login or
the expiry of a token can come in between. A refresh call is named by the request that leads it.

| interceptor | action |
|---|---|
| 401 while `isRefreshing` | `Enqueue` |
| 401 otherwise | `Lead` (`_retry` is `retried`) |
| refresh answered | `Refreshed`: cookies set, queue and leader sent again |
| refresh failed | `RefreshFails`: all rejected, flag cleared, page left, with the answers its login or logout form waited for (`unheard`) |
| anything else | `Answered` |

A request carries an access token if it was sent while the cookie was there (`fresh`); tokens and cookies
expire together. There is one page, so `isRefreshing` is one variable.

### RecordUpdates, UserRecord and SettingsPage

The code has one way to change a row, in `OwnedCrudService.update` and in `user.service.ts`: find it, change the entity,
`save` it. `Find` is the first await, `Reread` the SELECT with which TypeORM's `save` begins, and `UpdateRow`,
`UpdateNone`, `InsertRow` and `InsertClash` the statement that follows. `save` writes the columns
in which the entity differs from the row it just read, inserts the entity if there is none, and takes a foreign key
from the relation that was loaded with the entity (`Joins`). These are properties of TypeORM, which is not under
`src/`: they are modelled from how the code uses it. A column is what is written as a unit: the settings are two
fields of one jsonb column. `stale` remembers that some row was saved that had been written since it was found:
that is the only loss the code's way of saving has, and the properties say so.

| code | action |
|---|---|
| `register`: `findOne` of the email, hash, insert | `BeginRegister`, `FindEmail`, then `InsertRow` or `InsertClash` |
| `login` | `Login` |
| `updateSettings` and its event | `BeginSettings`, the save, `Emit` |
| `initiateLinking`, `createUserToken`, `updateProviderDetails` | `BeginLink`, `ReadDetails`, `CreateUserToken` (or `LoseUserToken`), `CreateLinkToken`, the save, `CreatePending` |
| `TransactionService` and the owned-CRUD `create`, `update`, `remove` | `Create`, `BeginUpdate` and the save, `Remove` |
| the effect that fills the form, the inputs, `handleSave`, `onSuccess` | `ReadMe`, `Edit`, `Save`, `Saves` |

### CurrencyPairs, RateSync and RateRange

A pair is stored in one direction (`Canonical`: towards USD, otherwise alphabetical). A rate is not a number but
the direction it prices: `price = pair` means that the number is the right way round, and `InversePrice` turns it.
`task[t]` is one of four kinds of task; its `pc` is the await it is at:

| `pc` | code | action |
|---|---|---|
| user | the user's settings are read | `ReadUser`, `EnsureRate` |
| owned | accounts or snapshots are read, pairs derived and grouped | `ReadAccounts` (cron jobs), `ReadSnapshots` (backfill) |
| keys | `getExistingRateKeys`, one base after the other | `ReadKeys` |
| fetch | the provider's call for one base | `Fetch` |
| find, save | the two awaits of `upsertRate` for each answered rate | `FindRate`, `SaveRate` |

`QueryThrows` throws where the code's `try` blocks catch or do not catch; `Fetch` may leave rates out, as providers do on
holidays; `Crash` ends all tasks. `missed` is history: what a task asked for in vain, so that the properties can tell a
rate that failed from one that was forgotten. `RateRange` has no state: the three queries and the choice of the closest
rate are operators on the set of days that have a row.

### Money, BalanceQuery and BalanceView

An account's report is an entry of the constant `Reports`; accounts, snapshots and answers carry its version, and
`Money!Balances` is what the code makes of it. Floats are rationals over the common denominator `Parts`; rounding is
`Math.round`. `BalanceQuery` has an action for each of the request's seven queries
(`ReadUser` to `ReadFutureRates`), `QueryFails` for the `try` around the rates and for the others, and the writers of the
tables as single steps (their own interleavings are in `BalanceSnapshots` and `RateSync`). What the code computes without an
await, from `findSnapshotForDate` to `buildAccountBalanceResult` and on the page, is operators on `query`.

## 3. Runs

| Run | Question | Properties |
|---|---|---|
| LinkOverlap | Two sessions (of two items and one), two overlapping requests, one fault | `AtMostOnce`, `CompletedMeansUsable`, `FinishedIsSettled` |
| LinkSerial | The same sessions, requests one at a time, two faults | `ImplementsLinkSession`, `FinishedIsUsable` |
| DedupOverlap | Two requests that overlap from their verification on, two keys of Plaid's, an unknown item, one fault or restart | `OnlyOverlapsDuplicate`, `GenuineAccepted` |
| DedupSerial | One request at a time, two types, window of 2 in 4 time units | `Spaced`, `OnlyCloseChangesDropped` |
| StatusWriters | A status webhook, a sync and a backfill in every order, two webhooks | `LastAcquiredShows`, `StatusIsWebhooks`, `OnlySyncsLoseItemId` |
| AccountOverlap | The linking call and two syncs, two balances, a fault, a deletion | `CopiesBounded`, `BalancesCatchUp` |
| SnapshotSerial | Calls one at a time, two accounts, two listeners, midnight, a lost listener, a deletion | `SnapshotTypeOK`, `UniqueAccounts`, `NewestIsCurrent`, `NoRollback`, `PastStays` |
| SessionPage | Two requests of a page, two logins, a fault, an expired access token, and a logout from elsewhere or an expired refresh token | `OneLivePerLogin`, `LiveIsHeld`, `BouncedOnlyWhenOver`, `EveryRequestSettles` |
| UserRecord | Three requests of any kind on the user row and a transaction, beside the settings page, one fault, one edit | `RegisteredCanLogin`, `TokenKept`, `SettingsAnnounced`, `FreshSavesUpdate`, `RemovedStays`, `OnlyEditsChange` |
| RateSync | Two users, three tasks, two at a time, two days, three currencies, one fault | `TypeOK`, `RowsForward`, `NothingForgotten`, `CryptoCovered` |
| RateSkipped | One user with accounts in two currencies and a third to convert to, one day, no fault | `FiatCovered` (violated) |
| Balances | A card in dollars and an investment in ether, three days, one write while a request is in progress, a failing query, ids of a manual and of no account | `TypeOK`, `HistoryFaithful`, `RateNotStale`, `ShownIsReported`, `DashboardAddsUp`, `GreenIsGood`, `LastSynced` |

All pass but `RateSkipped`, which shows that the code does not do what a comment of it says: the daily fiat sync merges the
keys of stored rates of all bases and leaves the base out of the key (`currency-backfill.service.ts:91`), so a target
that has today's rate with one base is skipped for every other, although the comments
say that all required rates are synced and that only pairs with a rate are skipped (lines 52, 56). Two pairs with a common
target and one stored rate suffice. The type invariants of the modules with a theorem of it are not run properties.

Behaviours met while modelling which no run claims:

- `markCompleted` and `markFailed` check the status in one query and save in another (`webhook-event.service.ts:92`), so one
  overlapping request overwrites the other's final status, although the comments at lines 69 and 98 speak of a pending event;
  a session whose banks are all stored can end as FAILED.
- The deduplication row is COMPLETED before the sync (line 178): if the sync throws, Plaid's retry is refused and the update is lost;
  for the same reason a status whose save fails is not stored by the retry.
- Two overlapping syncs, or a sync and the linking, both insert an account (`bank-link.service.ts:627`), where the comment
  at line 600 promises an upsert; of an account linked twice a sync refreshes one row only.
- Two listeners both find no snapshot (`balance-snapshot.service.ts:106`); the second
  insert hits the unique constraint, the error is logged and the newer balance dropped.
- A sync that stores new institution info writes back the status it read before a webhook changed it. A status that flaps
  within a minute (ERROR, LOGIN_REPAIRED, ERROR) ends as OK, because the second ERROR is a duplicate of the first.
- No code reads `expiresAt` of a webhook event or assigns EXPIRED (`webhook-event.entity.ts:35`): a session that is never
  finished stays PENDING.
- A logout (or a logout everywhere) that comes between a rotation's lookup and its insert
  leaves the session alive, with its new cookies; a refresh of an ended session that is answered after the
  next login replaces that login's cookies, or clears its flag; two pages of one browser refresh with
  one token, and the second is sent to the login form.
- Of two requests that save the user row at once, one may take back what the other stored in the same column. The settings page sends its
  whole form and fills it again whenever the settings read differ: it overwrites what another page set, and drops edits not saved.
- If Plaid created the user and the answer or the save failed, the token is lost and the user can never link (`plaid.provider.ts:235`).
- `TransactionService.update` changes `categoryId` and not the loaded `category`, and `save` takes the relation: the category
  stays as it was, although `transaction.service.spec.ts:310` expects it to change (its repository is a mock).
- The balance query collects currency pairs from the accounts as they are now (`balance-query.service.ts:281`): a snapshot in a currency
  that the account no longer has is not converted. One pair without any rate leaves every balance unconverted.
  `calculateEffectiveBalance` takes the current balance where the comment at line 415 says available.
- A wallet's balance goes through a float on its way to wei, and one of more than 9.22 ETH does not fit a
  `bigint` column: the save fails and the account keeps its old balance.
- A hovered point of the net worth chart is shown as USD in whatever currency it is. An overpaid liability counts as if it were
  owed (`frontend/src/lib/balance-utils.ts:85` takes the absolute value; the comment above it only says "typically positive").

**Bounds.** Faults, deletions, days, lost listeners, balance versions, webhooks, keys, edits, started tasks
and the clock are bounded in the guards of the actions that consume them; nothing
else is. The hazards are races of two actors over one row, so two concurrent actors per kind
and one contended row show them; a third would only
repeat the role of one of the two. A session of two items is needed for a half-done `Promise.all`; a clock that passes
the window by two shows both of its ends. One fault at any
point reaches every error path, two reach a failure of the retry.
Two requests give a leader and one that is queued or comes late; two logins, one session after another.
`UserRecord` has three requests because a registration, a save and one that meets it are the
longest story there is; they are symmetric, and no liveness is checked. `RateSync` starts three tasks and has two at once: a snapshot's and a
backfill pass each other, and a third finds what they left; a crypto currency, a fiat one and USD are each kind of base and
target. Three days give `Balances` a day before, in and after the range, with a rate on some; one write
while the request runs is enough to come between any two of its queries. Money is small (`PerMajor` 10 and 5, `MaxBigint` 100)
so that roundings and the overflow of a column happen. Deadlock is not checked in the runs whose bounds
end (requests and tasks are used up); `Balances` checks it: every request is answered.

**Fairness.** `LinkCompletion` assumes Plaid redelivers SESSION_FINISHED until it gets a
2xx (strong fairness, because the model's pool of handlers may be busy in between; a
real server accepts any number of requests) and that a request which was accepted keeps running.
Nobody owes the user's steps and no fault is owed. `AccountSync` assumes that syncs of a
link are started again and again: the scheduled job does so hourly for crypto
links (`bank-link.scheduled.ts`), and for Plaid links update webhooks and the user's
sync-all do. `BalancesCatchUp` allows any finite number of failures. `BrowserSession` assumes that the server
finishes the calls it was given or fails them, and that a page runs the callbacks of answers; users
log in and out as they like. The other runs check safety only: what must eventually happen there (a task that ends, a request that is
answered) follows from the progress of one actor that waits for nobody.

## 4. Theorems

TLAPS proves them for every set of sessions, items, users, requests, tasks, accounts, days and bounds.
Every safety invariant and action property of the passing runs is stated by one of them.
Assumptions are named formulas over constants: `OneUse` (Plaid exchanges a public token once),
`Serial` and `OneHandler` (at most one handler), `OneBackfill`, `~Overlap`, `OneLink`, `Drained`
(calls start after the listeners of earlier ones), `SteadyCurrency` (no report changes an account's
currency). A theorem with one of them is about what the property's comment claims, and none of them
can go: on instances like those of the runs TLC finds the property broken without it.

| Theorem | States |
|---|---|
| `TypeCorrect` of `LinkCompletionProofs`, `WebhookDedupProofs`, `BankLinkStatusProofs`, `AccountSyncProofs` and `SessionProofs`; `GateTypeCorrect`, `SnapshotTypeCorrect`, `UserTypeCorrect`, `RatesTypeCorrect`, `QueryTypeCorrect` | `[]TypeOK` of the module, `[]GateTypeOK`, `[]SnapshotTypeOK` |
| `CompletedIsUsable`, `AnswersAreSettled` | `[]CompletedMeansUsable`, `[]AckedIsSettled`, whatever overlaps or fails |
| `LinkedAtMostOnce` | with `OneUse`: `[]AtMostOnce` |
| `AccountsFollowLinks` | `[]AccountsHaveLinks`, also if a public token is exchanged twice |
| `SettledStays`, `Implementation` | with `Serial`: `SettledIsFinal`, and the handler implements `LinkSession` |
| `DuplicatesOverlap`, `SerialSpaced`, `SerialDropsOnlyClose` | `[]OnlyOverlapsDuplicate`; with `Serial`, `[]Spaced` and `[]OnlyCloseChangesDropped` |
| `VerifiedDuplicatesOverlap`, `GenuineIsAccepted` | the same with the verification in front; `GenuineAccepted` |
| `ItemIdLostToSyncs`, `StatusFromWebhooks` | `OnlySyncsLoseItemId`; with `OneBackfill`, `StatusIsWebhooks` |
| `LastAcquiredIsShown` | with `OneHandler` and `OneBackfill`: `[]LastAcquiredShows` |
| `NeverBack`, `NoDuplicates` | with `~Overlap`: `NoRollback`; with `OneLink` too, `[]UniqueAccounts` |
| `CopiesAreBounded` | `[]CopiesBounded`, whatever overlaps, fails or is deleted |
| `SnapshotsImplementSync`, `PastIsFixed` | `SnapshotSpec => Spec`, so what is proved of `AccountSync` holds with listeners; `PastStays` |
| `NewestCurrent` | with `~Overlap` and `Drained`: `[]NewestIsCurrent` |
| `OneLive` | `[]OneLivePerLogin`, whatever fails, expires or is logged out |
| `BouncedWhenOver`, `LiveHeld` | `BouncedOnlyWhenOver`, `[]LiveIsHeld` |
| `RegisteredLogIn`, `TokenIsKept`, `SettingsAreAnnounced` | `[]RegisteredCanLogin`, `[]TokenKept`, `[]SettingsAnnounced` |
| `SavesStoreUpdates`, `RemovedRowsStay`, `OnlyEditsChangeSettings` | the action properties `FreshSavesUpdate`, `RemovedStays`, `OnlyEditsChange` |
| `RatesForward`, `CryptoIsCovered`, `NoSnapshotForgotten` | `[]RowsForward`, `CryptoCovered`, `[]NothingForgotten` |
| `QueriesSuffice` | for any rows and range, the three queries of a rate range find what a search of all rows would |
| `HistoryIsFaithful`, `RatesAreCurrent` | `[]HistoryFaithful`, `[]RateNotStale`, whatever is written between the request's queries |
| `ShownWasReported`, `ModalAgrees`, `GreenGoesUp` | `[]ShownIsReported`, `[]LastSynced`, `[]GreenIsGood` |
| `PageAddsUp` | with `SteadyCurrency`: `[]DashboardAddsUp` |

How they go:

- **LinkCompletion.** `CompletedMeansUsable` is not inductive: `IInv` adds what a handler knows at each
  step (the tokens it holds belong to its session and were exchanged, and after a save the rows are there).
  `AtMostOnce` needs `OnceInv`: an item no handler holds has no right to
  get rows, at most one handler holds an item, and rows exist only for exchanged
  items. That is where `OneUse` enters. `AccountsHaveLinks` does not need it: `CountInv` counts the handlers
  between the two saves, each of which stands for a bank link row without accounts. For the refinement, `SerialInv` says that while the only handler
  works past the lookup the event is still PENDING, so each save of it is a step of `LinkSession`.
- **WebhookDedup and the verification.** `StartedBefore`: a lookup's timestamp is not in the future and a row's `completedAt`
  is not after its `createdAt`; a row inserted between lookup and insert is therefore at least as new as the lookup.
  `DropInv`: without overlap the provider's latest change is stored, or was dropped or failed as the property allows,
  or is in a webhook not yet answered, or the sync that runs fetches it.
  The verification touches none of this, so its steps are stutters of that argument; `GenuineAccepted` follows from what a request
  knows at its await: the key it fetched is the one its webhook names, whatever the shared cache holds by then.
- **BankLinkStatus.** `HoldsItemId`: an entity found by its item id still has it. `Calm`: until
  the institution changes nobody is about to save it, and while the row has no item id no status
  webhook can be past its lookup, so the backfill holds the current status. `ShownInv`: the one handler's row is the latest
  when it is inserted, so the row of the table shows the latest but while that handler has yet to save it.
- **AccountSync.** `OrderInv`: without overlap what the running sync fetched is at least as
  new as every row, and ids are never reused. `RowInv`: a row exists only once the link does,
  and a sync that found nothing is about to insert the only row.
  `CopiesBounded` counts: `Charged` is an injection from the ids of an account's rows, and of the deleted rows a sync may
  bring back, into the calls that have no insert left; an insert spends the call it is charged to, and nothing else needs a charge.
- **BalanceSnapshots.** Every step is one of `AccountSync` or a stutter of it. `NewestInv`: listeners of one account are never
  two, an event under way has the row's present balance (`EventsCurrent`), no snapshot of its account is of a later day than its date
  (`DatesLast`), a save that found nothing still would (`FoundNone`), and each account is in its newest snapshot or in an event.
- **Sessions.** `LiveInv`: a login that has not inserted owns no row, a rotation about to revoke holds its
  owner's only live row, and one about to insert knows there is none. It rests on `LeaderOK`, a part of `TypeOK`: the page has
  one refresh at a time, so no rotation disturbs another. `GoodInv`: until a call fails, the token that the page holds or has sent
  is live and not expired, or its session is over, or the rotation in progress has revoked it; a refused token is of a session
  that is over. `Holds`: at most one login, whose live row is the cookie's or the one a rotation carries.
- **UserRecord.** `RecordInv`: a request that saves holds the row it found with its update in it, and while that row was not written
  since (`fresh`), the table still has it; `FreshSavesUpdate` and `RemovedStays` follow from one step. For the others the state of
  the requests under way is added: `PasswordsOK` (a registration that is done left its password in the row, and whoever
  is about to save the row found it with that password), `TokenSafe` with `Carrying` (a token Plaid gave is in the row or in the
  hands of a request about to save it), `SettingsTold` with `Telling` (settings that differ from the last event are
  in the hands of a request about to emit them). For the page, `PageOK` and `SavingOK`: a form not edited equals what was
  read, and what was read equals the row until somebody writes it.
- **RateSync.** `Sound` says what a task holds at each await and that it asks for one base at a time. `Owes` are the keys of
  its remaining jobs and of the quotes not stored; `Keeps`, proved once per action, is that a step leaves each key it owed
  stored, missed or still owed, except in the daily fiat sync (see `RateSkipped`). Then `CoverInv`: the rate of every snapshot in another currency than its user's
  is stored or missed, or some task owes it, or has yet to read the table it would learn it from. For the crypto sync `AskedOK` is
  the same about the set of pairs it asked for. An overlapping `upsertRate` cannot make two rows of one key, because the table's unique
  index refuses the second.
- **RateRange.** The earliest day and the closest rate exist because every non-empty set of naturals has a least
  member (`NatMin`, from well-foundedness, without an induction over data).
- **Balances.** `BalanceInv` says of each query of a request what it returned: rows of a time between the request's start and
  now (`SnapsRead`, `RatesRead`), of which none is missed, because snapshots of a day are replaced by newer ones and rates only
  added. `HistoryFaithful` and `RateNotStale` compare what is computed from those rows with the tables at both ends.
  `ShownIsReported` is arithmetic: a rounding is off by half a unit (`RoundIsNear`), and errors add up through a conversion
  (`ErrorsCompose`). The sums of the page are folds over a set of accounts in any order; that they are sums, that they
  split into assets and liabilities and do not depend on the order is shown by a smallest set for which it would fail
  (`SmallestSubset`, from well-foundedness).

Only checked by TLC: liveness (`FinishedIsSettled`, `FinishedIsUsable`, `BalancesCatchUp`, `EveryRequestSettles`), which like
ENABLED is out of the prover's reach, and that `FiatCovered` fails (`RateSkipped`).

## 5. Plan

1. Lemmas that the temporal properties rest on and that are safety: no handler, queued request or task is stuck
   without a step of its own to take.
2. Sessions: a second page with its own `isRefreshing`, and a run on what remains of an ended session.
3. A link that is made twice over the same account, once the code decides what should happen.

Runs will stay few: modules that share a question share a run.

## 6. Not modelled

- Cryptography: signatures, hashes and JWTs are valid or not; the webhooks modelled are those Plaid signed and their replays in time.
- The provider registry (a constant map), webhook URL updates (no state here), categories and the filters of lists.
- The HTTP layer, configuration and logging, the generated API client, the layout of the front end, and the pages that only show lists.
- `getRate` (`currency-exchange.service.ts:239`) and `base-crud.service.ts`, which nothing calls.
- The rounding error of a float: `Money` takes floats as exact fractions of a bounded denominator.
- Clients other than one page of one browser.
- A query that commits and then reports an error: a failed call has not written, except in
  `UserRecord`, where a failing save may have been stored or not.

Postgres is taken at READ COMMITTED with one statement or one `save` as the unit (`UserRecord` splits a `save` in
two); several processes would interleave like several requests of one. What TypeORM, Plaid and the rate provider do is
modelled from how the code uses them and marked external in the map.

## 7. Reproducing

    tlc -workers 2 -config LinkOverlap.cfg MCLinkCompletion
    tlapm LinkCompletionProofs.tla
