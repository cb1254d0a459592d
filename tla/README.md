# Verification of the Nano marketplace

TLA+ specifications of the Nano marketplace backend (`src/app`, Python, FastAPI,
async SQLAlchemy on PostgreSQL, Redis, Meilisearch, MinIO), model-checked with
TLC and proved with TLAPS.

## 1. The system

Creators upload *Nanos* (short learning units). A Nano is drafted, submitted
for review, published by a moderator, archived, deleted. Readers search, rate,
comment and flag Nanos and chat with their creators. Every HTTP request is a
coroutine of its own with its own database session (`app/database.py:66-73`):
autoflush is on, objects do not expire on commit, the isolation level is
PostgreSQL's default READ COMMITTED, no SELECT takes a row lock and no table has
a version column. An UPDATE names the columns whose value differs from the
loaded one. This is where most of the hard behaviour comes from: **a handler
decides on rows that other requests change before it writes.**

| Component | State | Operations | Interaction | What makes it correct |
|---|---|---|---|---|
| Publishing workflow (`nanos/service.py`, `moderation/service.py`) | rows of `nanos`, `moderation_cases` | upload, status, metadata, delete, takedown, review, queue backfill | requests race on the two tables | status machine, only moderators publish, a Nano in review is in the queue, complete metadata, takedown hides |
| Feedback (`nanos/service.py:424-1109`, `moderation/service.py:639-772`) | `nano_ratings`, `nano_comments`, `nano_flags`, cases, `nanos.average_rating`/`rating_count` | create, update, moderate, review | shares cases with the workflow, the cache sits in the Nano's row | only approved text is visible, the cache equals the approved ratings |
| Search (`search/service.py`) | Meilisearch index, Redis cache | search, invalidate, rebuild | every mutation invalidates the cache after its commit; the index changes only by rebuild | a rebuilt index holds what is published, the cache does not stay older than the index |
| Sessions (`auth/service.py`, `auth/tokens.py`, `auth/middleware.py`) | one stored refresh token per user, blacklist | login, refresh, logout, password change, role change | token store; the role travels in the token | the stored token can be exchanged, one that was rotated or logged out stays refused |
| Token store (`redis_client.py`) | Redis, in-process fallback | set, get, delete, blacklist | Redis may be down for any single call | a revoked token stays revoked |
| Accounts (`auth/gdpr.py`, `admin/service.py`, lockout in `auth/service.py`) | `users` row | register, verify, lock, delete, cancel, role update | requests race on the row | one account per address, the lock matches the failures, what was deleted stays anonymous |
| Chat (`chat/service.py`) | sessions, messages, `last_message_at` | create or get, send (two commits), poll | two participants | one session per pair, polling misses nothing |
| Upload (`upload/*`) | MinIO objects, draft row | upload with retries and a timeout | thread outlives the timeout | every Nano has its object |
| Mail (`mail/transport.py`), rate limiter (`security/rate_limit.py`), audit (`audit/service.py`) | attempts; sliding window; `audit_logs` | send with retry; check; log | one event loop | accepted at most once; never more than the limit in any window, and who waits as told, and the second that was cut off, is served |
| Frontend session (`frontend/src/shared/api`) | tokens in storage, the refresh in flight | 401 interceptor | the backend's rotation | nobody is signed out who did not leave, every call ends |

`PROJECT.json` lists each component with its status and the hazards of the code
at their lines.

## 2. What is modelled

### NanoWorkflow (core)

`nano[n]` is the committed row of Nano `n` (status, which nullable required
fields are filled, `published_at` as NULL / within 24 hours / older,
`archived_at`). `case[n]` is its moderation case. `req[r]` is the transaction
of the request in slot `r`.

A handler is cut where other requests can act: after the SELECTs and checks
(`Load...`, the record is then `loaded`), after a flush that is followed by
another SELECT (`FlushSubmission`, `FlushReview`; `flushed`, the row lock is
held), and at the commit. What is pending is kept as a *write*, a record of the
columns the UPDATE will name; `"keep"` is a column left out because its value
equals the loaded one. So the model shows exactly the stale-read effects the
code has: a write that was decided on an old status, and a column that is not
written because it *was* already NULL.

| Action | Code |
|---|---|
| `CreateDraft` | `upload/service.py:21-110` |
| `LoadStatusUpdate`, `CommitStatusUpdate` | `update_nano_status`, target other than `pending_review` |
| `LoadStatusUpdate`, `FlushSubmission`, `CommitSubmission` | the same with `pending_review`: the status is flushed by the SELECT of `upsert_moderation_case`, then the case is inserted or reset |
| `LoadMetadataUpdate`, `CommitMetadataUpdate` | `update_nano_metadata` |
| `LoadDelete`, `CommitDelete` | `delete_nano` |
| `LoadTakedown`, `CommitTakedown` | `admin_takedown_nano` |
| `LoadReview`, `FlushReview` or `RefuseReview`, `CommitReview` | `review_moderation_case`: the case is flushed by the SELECT of the Nano |
| `LoadQueue`, `CommitQueue` | `_backfill_missing_pending_cases` |
| `InsertConflict` | the unique constraint on `(content_type, content_id)`; the handlers do not catch it |
| `DeadlockVictim`, `Crash`, `AgePublication` | PostgreSQL, the process, the clock |

Requests the code refuses change nothing and are no step. Row locks are
derived: `HoldsNano`, `HoldsCase`, `WaitsFor`, `Blocked`.

Left out of it: titles, categories, audit rows and cache invalidation (no
property here tells them apart), and the moderation of other content types.
The stale reads of the SELECT inside the moderation endpoints themselves are
kept. `Init` allows Nanos that were in review before cases existed
(`moderation/service.py:245-250`).

### Feedback

`item[i]` is the committed row of a rating, comment or flag (status, content: a
score, or the version of a text), `case[i]` its moderation case, `cache[n]` the
columns `rating_count` and `average_rating` of the Nano (hundredths), `published`
the public Nanos, `req[r]` the transaction of a request.

A request writes up to three rows, in an order that depends on the endpoint
(`Order`): creating or editing a rating flushes rating, Nano, case; a review
flushes case, rating, Nano; comments and flags have no cache; the endpoints under
`/nanos` that moderate know no case. `Flush` writes the next row, takes its lock
and makes the read that follows: the loaded content (`ReadItem`), the aggregate
of the approved ratings (`ReadCache`, committed rows and the one of its own) or
the case (`ReadCase`). `Commit` writes the last row and commits. A write is
`Changes(loaded, new)`, the columns that differ from the loaded row; `Apply` puts
it over the row that is there by then.

| Action | Code |
|---|---|
| `LoadCreate` | `create_nano_rating`, `create_nano_comment`, `create_nano_flag` |
| `LoadUpdate` | `update_nano_rating`, `update_nano_comment` |
| `LoadModerate` | `moderate_nano_rating`, `moderate_nano_comment` |
| `LoadReview` | `review_moderation_case` for feedback and flags |
| `LoadQueue` | `_backfill_missing_pending_cases` |
| `Flush`, `Commit` | the flushes and the commit of all of them |
| `RefuseDuplicate` | `IntegrityError`: 409 where it is caught, 500 where not |
| `DeadlockVictim`, `Crash`, `ChangeVisibility` | PostgreSQL, the process, the publishing workflow |

`Init` allows ratings and comments older than moderation cases, in any status,
with a correct cache. A review's SELECT of the Nano and its aggregate are one
step. Left out: who moderated and why (never read back), audit rows, the
cascading deletes of accounts.

### Sessions and SessionClient

One account's refresh token. `redis` and `fallback` are the two halves of the
token store (stored token, blacklist), `handler[h]` the request in slot `h`,
`account` what the row says, `hardship` whether Redis may fail and whether
requests overlap (chosen in `Init`, so that properties can say what they rest
on). Each call to Redis or the database is a step, because the event loop may
run another handler there. `Outcomes` gives every call to Redis its three ends:
answered, refused, executed with the answer lost. In the last two the code turns
to `_fallback_store`, and copies entries back (`Resync...`) when Redis answers.

| Action | Code |
|---|---|
| `Login`, `StoreToken` | `login`, after the row is committed; `store_refresh_token` |
| `Refresh`, `CheckBlacklist`, `ResyncRevoked`, `GetToken`, `ResyncToken`, `LoadUser`, `BlacklistToken`, `StoreToken` | `refresh_access_token`, call by call |
| `Logout`, `BlacklistToken`, `DeleteToken` | `logout_user`; the access token is passed as `""` |
| `RemoveUser`, `DeleteToken` | `DELETE /admin/users/{id}` after its commit |
| `Answer` | the response; only now a client knows the token |
| `ChangeAccount`, `Restart` | deletion requests and their expiry; `close_redis` or a crash |

`ended` is a history variable: the tokens whose end the store has to remember.
`TokenEnds` says which are left out, and this is the exact limit of what the code
guarantees: a blacklist entry that is in Redis alone is invisible during a later
outage, and then only the deletion of the stored token protects, which an
overlapping refresh may undo.

`SessionClient` extends it with one browser tab: the tokens kept in
`localStorage`, the refresh of a loading page (`AuthContext.tsx`), calls answered
401, the refresh they share (`inFlightRefreshPromise`), the retry, and logout
(`interceptors.ts`). The continuations of one promise run in one turn of the
browser's event loop and are one step. `patient` says whether every page shown
waits for the page's own refresh: the page of a Nano does not, and a call without
a token there starts a second refresh with the same token, which may sign the
user out. `NoSpuriousLogout` is stated for the pages that wait; Redis is up and the
network delays calls but fails none in this module.

### Accounts

`user[u]` is the row, `request[s]` the columns the request in slot `s` will name
in its UPDATE, computed from the row it loaded (`LoadRow`, `Changed`) and laid
over the row that is there at the commit (`CommitUpdate`). Times are kept as
whether they are over (`LockExpires`, `GraceEnds`). `failures` counts, outside of
the row, the failed logins since the last success; `overlaps` counts arrivals
during another request, so that a property can exclude them.

| Action | Code |
|---|---|
| `LoadRegister`, `CommitRegister` | `register_user`: the check of the address, the INSERT against the unique index |
| `LoadLogin` | `authenticate_user`, `record_failed_login`, and the reset by a success |
| `LoadVerify` | `verify_email_with_token` |
| `LoadOwnColumn` | `update_user_profile`, `change_user_password` |
| `LoadRequestDeletion`, `LoadCancelDeletion`, `LoadErase`, `CommitErase` | `auth/gdpr.py` |
| `LoadChangeRole`, `LoadAnonymize` | `admin/service.py` |
| `Abort` | a violated constraint, a row that is gone, a crash |

### Search

`index` (missing, without attributes, ready; and its documents), `cache` (the
answer to one query), `search[s]`, `change[e]` (a change after its commit: scan
the keys, delete those found), `rebuild` (the script, step by step:
`RebuildRead` the rows, `RebuildDrop`, `RebuildCreate`, `RebuildConfigure`,
`RebuildUpload`, `RebuildScan`, `RebuildDelete`). A rebuild may fail at every
step, an invalidation may fail and is swallowed, a fill may be lost.
`undisturbed` and `missed` are history variables that name the cases in which the
code promises nothing, an entry's `late` says that it was out of date already
when it was stored. The query to Meilisearch is a synchronous call inside the
coroutine and gives way to nobody, so it is one step with the lookup.

### Chat

`sessions` (named by who inserted the row), `panel[p]` with what it shows,
`message` in the order of `created_at`, `poll[p][k]` the polls in flight. A message
is `waiting` while its panel waits for the answer, and `late` when it was committed
after the panel had given it up: the panel may have sent another in the meantime,
which polls have seen, and then the late one is behind their cursor for ever.
`Punctual` says that no message is late; `ShownOnce` (its order) and
`EventuallyDelivered` are stated for it and fail without it.

| Action | Code |
|---|---|
| `LookForSession`, `InsertSession`, `ReselectSession` | `create_or_get_chat_session` and its handling of the unique constraint |
| `BeginSend`, `CommitMessage`, `StampSession`, `SendFails` | `send_message` with its two commits; an error at the server |
| `ShowSent`, `GiveUp` | `handleSendMessage`: the answer, or a timeout or a lost answer while the server goes on |
| `SendPoll`, `ReadPage`, `ShowPage`, `PollFails` | `list_messages`, `loadMessages` every three seconds |

### MailTransport, RateLimiter, UploadStorage

* `MailTransport`: `CallSucceeds`, `CallFails`, `SendMessage`, `Quit` are the SMTP
  calls of an attempt, `TryAgain` and `Conclude` the decision by class of error. A
  lost answer leaves open whether the server accepted the message.
* `RateLimiter`: `Accept` and `Refuse` are `check` for one key, atomic under its
  lock; `Tick` is the monotonic clock in fractions of a second, because the
  answer to a refused request is in whole ones, rounded down. `refusal.until` is
  the time the caller was told, no more: waiting so long does not suffice
  (the caller may be refused once more), waiting for the fraction of a second that
  was cut off as well does (`RetryAfterWithinASecond`).
* `UploadStorage`: `ReadFile`, `WaitTimesOut`, `WaitEnds`, `CommitDraft` are the
  request, `PutObject` and `StatObject` the thread, which goes on after the
  request gave up. `CommitDraft` is `NanoWorkflow`'s `CreateDraft` seen from here.

`ServicesMC` and `ServicesLiveMC` (with the browser, the search and the chat) put
these services side by side in one run: each behaviour works on the service that
the variable `service` names and leaves the others alone. They share no state, so nothing is lost by it. Two couplings between
them are modelled inside a module instead: `account` in `Sessions` takes the
changes `Accounts` makes to the row, and `nanoStatus` in `Search` the changes of
`NanoWorkflow`; both over-approximate their source.

### Abstract specifications

* `PublicationRecord`: which Nanos are public and since when. `NanoWorkflow`
  implements it for any interleaving (`PublicationRecorded`, checked and proved).
* `NanoLifecycle`: the status machine of `_validate_status_transition`.
  `NanoWorkflow` keeps to it, without overlap, in every step but the commit of
  a review (`LifecycleOutsideReview`), and not with it (finding).

## 3. Runs

| Run | Instance | Shows |
|---|---|---|
| `nano_concurrent` | 1 Nano, 2 requests in progress, creator and admin, 1 field, all endpoints, fairness | what holds for every interleaving, and that every request ends |
| `nano_sequential` | 2 Nanos, 1 request in progress | the promises that hold when requests do not overlap |
| `nano_stale_review` | 1 Nano, 1 request | review leaves the status machine (finding) |
| `nano_queue_race`, `nano_takedown_race` | 1 Nano, 2 requests | promises that overlap breaks (findings) |
| `feedback_concurrent` | 1 rating, 2 requests in progress, all endpoints, fairness | feedback in review has a case, only moderators show it, every request ends |
| `feedback_sequential` | 2 ratings, 1 flag, 2 contents, 1 request, all endpoints | the cache equals the approved ratings and its average is their mean, nothing unreviewed is visible, and only the moderation endpoints under `/nanos` part content from its case |
| `feedback_cache_race`, `feedback_unreviewed` | 2 requests | promises that overlap breaks (findings) |
| `services` | see below; 1.09 million states | the safety of sessions, accounts, search, chat, mail, limiter and uploads |
| `services_live` | see below; 248 thousand states, with fairness | pages that wait sign nobody out while Redis and the network work, and every call ends; a stale cached answer goes away; every message of a sender is delivered, none twice or out of order, with sends that fail or are given up, up to the first that is committed after it was given up |
| `search_takedown` | 1 Nano, 1 searcher, 2 changes, 2 rebuilds, nothing fails | what was taken down is still found (finding) |

**Bounds.** Rows of different Nanos meet only in the queue's backfill, so one Nano
is enough for the races and two for the queue. Two requests in progress show
every pairwise race and the two-party deadlock; each slot is reused without
limit, so a request may be followed by any sequence of others. One nullable
field is enough to tell complete from incomplete. Feedback needs two ratings for
the aggregate and two contents to tell a text from its edit; who waits for the
cache holds the content and waits for nothing else but its own case, so ratings
of one Nano add no cycle of waits to those of one rating. In these modules no
counter is bounded: the state space is finite as it is.

`services`: 2 handlers and `MaxTokens = 3` (a login and two rotations, or a login
and two refreshes that overlap); 2 ids, 1 address (two people register with it),
2 overlapping requests, `MaxLoginAttempts = 2` with `FailureBound = 3`, so that an
account fails once more after its lock expired, `OverlapBound = 1`; 2 Nanos, 1
searcher, 1 editor, `ChangeBound = 3`, `RebuildBound = 2`, so that a rebuild meets an
answer of the one before; 1 panel of the creator and 2 of the participant (three
that open the chat at once), `MessageBound = 1`; 3 mail and 3 upload attempts (the
retried, the last and the one between); 2 requests in 3 seconds of 2 ticks,
`Horizon = 14` ticks, which is more than two windows, `RefusalBound = 3`. The slots,
ids and panels are two pairs of model values, and the symmetry is over each pair:
the services never meet in a behaviour.

`services_live`: the creator sends, and a panel of the participant listens with 2
polls in flight, `PageSize = 1` and `MessageBound = 3`, so that it falls several pages
behind; what the sending panel polls and what follows a late commit is left out
(`AtChat`). 1 Nano, 2 changes and 2 rebuilds; a browser with 2 calls and 2 requests
at the server. Its `MaxTokens = 5` is the token kept from before, the rotation of the loading page and one rotation
for each of two calls that do not share one, with one to spare: with 4, two calls
of a page that waits for the session never meet. No symmetry, as liveness is checked.

Deadlock is checked in the runs of the first two modules. In the others
it is not: a mail, an upload and a browser session end, and bounded counters run
out.

**Fairness.** It is part of each module's specification, and nothing is assumed
of the start of requests, of crashes, of failures or of time beyond this:

* `NanoWorkflow`, `Feedback`: strong fairness of `Proceed(r)` for each request.
  The event loop resumes a handler whose query has returned, and PostgreSQL
  grants a row lock to its waiters in order, so a handler that is again and again
  able to go on does go on.
* `SessionClient`: weak fairness of `Respond(c)` and `Advance(h)`: the server works
  on a request it received and the network delivers the answer. The interceptor
  has no timeout of its own; without this assumption a call may wait for ever.
* `Search`: weak fairness of `CacheExpires`: entries are stored with SETEX.
* `Chat`: weak fairness of sending and answering polls (`setInterval`), strong
  fairness of `ShowPage`: polls may fail again and again, not every one.

## 4. Proofs

Every safety property that a run finds to hold, the action properties and the
type invariants included, has a theorem; only liveness is left to TLC. Seven
modules hold the proofs, one for each component (the three services that count
share `ServicesProofs`), and `Induction` what several of them need. Theorems about
requests that do not overlap say so. All results are for arbitrary sets of users,
slots and items and arbitrary bounds. The assumptions are the `ASSUME`s of the
modules: what the administrator's deletion writes is nobody's address
(`EmailsAssumption`), who may call which endpoint (`CallersAssumption`, `EndpointsAssumption`,
`FeedbackCallersAssumption`, `FeedbackEndpointsAssumption`, `ItemsAssumption`), that
the ratings are finitely many and scores are positive numbers (`ItemsAssumption`),
and that bounds are numbers (`AttemptsAssumption`, `MaxTokensAssumption`,
`SearchBoundsAssumption`, `ChatAssumption`, `MailAttemptsAssumption`,
`RateLimiterAssumption`, `UploadMaxRetriesAssumption`). Two of the last have content:
`UPLOAD_MAX_RETRIES = 0` would end the thread without storing anything, and the
limiter's constructor refuses a limit or a window that is not positive.

Hardly any property is inductive as it stands (`SearchTypeOK` is). What the others
need besides themselves:

* **`NanoWorkflowProofs`** (`TypeCorrect`, `TimestampsCorrect`,
  `PendingWritesCorrect`, `OnlyModeratorsPublishHolds`, `SubmittedHasCaseHolds`,
  `PublicationRecordedHolds`). `IInv == TypeOK /\ TimestampsMatchStatus /\
  PendingWritesAreSound`. A request that found `published_at` set leaves it out of
  its UPDATE, so the invariant has to say that such a request still finds it set
  when it commits. That is `PendingWritesAreSound`, and it is stable because no
  step clears a timestamp or removes a case (`Keeps`). Every action is brought
  into one of three shapes (`ReadStep`: only the transaction record changes;
  `RollbackStep`; `CommitStep`: the pending write is applied), each proved once.
  `RowsChange` says which steps change rows of `nanos` at all; the action
  properties and the refinement of `PublicationRecord` follow from it. What is
  only promised while requests do not overlap (`PublishedIsCompleteHolds`,
  `PendingHasOpenCaseHolds`, `PendingCaseIsResetHolds`, `TakedownHidesHolds`,
  `MetadataOnlyInDraftHolds`, `LifecycleOutsideReviewHolds`) assumes `OneAtATime`,
  that there is one slot, so that a request finds at its commit what it read
  before. `SequentialInv` says what that is: rows and cases suit each other
  (`Good`), and the pending write suits the row and the case it found (`Fits`,
  `ReviewFits`). `Fits` is what overlap breaks, as `nano_takedown_race` and
  `nano_queue_race` show.
* **`FeedbackProofs`** (`OnlyModeratorsShowHolds`, `ReviewHasCaseHolds`).
  `FeedbackInv` says of each transaction what its endpoint writes (`WritesSound`:
  an author's request writes no status but `pending`) and, at its last flush, that
  it inserts the case or has found it (`CaseProvided`).
  The promises kept without overlap (`CacheMatchesHolds`, `VisibleWasReviewedHolds`,
  `OnlyModerateSplitsHolds`, `AverageIsNearestHolds`, which covers the means of three
  and more ratings that the run has not) assume `Undisturbed`: one slot,
  with whatever endpoints. `UndisturbedInv` says what each request in progress is
  about to leave (`Fits`): an author's request pending content and a pending case,
  a review what it decided, and from the flush of the Nano on the aggregate of
  the rows as they will be (`CacheFits`). What a sum is does not matter there, only
  that it depends on the Nano's own ratings (`AggregateSame`). `FeedbackTypeHolds`
  does need that it is a number: `SumIsNat` shows, by induction on the size of the
  set, that the recursive function under `MapThenSumSet` exists and has numbers as
  values. `TypeInv` adds to the types that a request in progress writes only
  statuses of the kind of content it has loaded, so that whatever it is laid over
  stays a row of that kind.
* **`SessionsProofs`** (`EndedRefusedHolds`, `StoredUsableHolds`, `SessionTypeHolds`,
  `NoSpuriousLogoutHolds`). `HandlersInv`:
  tokens in the making are distinct and no client knows them. `EndedInv`: each
  ended token is `Remembered`, by the fallback blacklist, by Redis when there are
  no outages, or because it is in neither store and nobody will store it
  (`GoneFor`). A late refresh is caught by the blacklist in the first two cases and
  by the comparison in the third. `UsableInv` adds that only known tokens are
  blacklisted, so a token fresh from a rotation is not. For the types, tokens are
  numbered and the model has `MaxTokens` of them: `BudgetInv` says that one is left for
  every request that may still issue one, so that no rotation under way ever finds
  them used up.
  For the browser (`NoSpuriousLogoutHolds`) `CalmInv` describes a patient page whose
  user stays: all refreshes under way are one, by the page or by the promise its calls
  share (`RefreshCalm`); it presents the token the browser keeps, which is the stored
  one until the rotation revokes it (`Stored`, `InFlight`); the token it will bring is
  used by nobody yet (`Unused`); and a call that was retried carries an access token
  that has not expired (`CallSound`), so a second 401, which would sign the user out,
  cannot come.
* **`AccountsProofs`** (`OneAccountPerEmailHolds`, `AccountsTypeHolds`,
  `LockMatchesHolds`, `DeletedStaysHolds`). `AccountsInv`: what a request is about
  to write fits the columns, and only a registration brings an address in.
  `SequentialInv`, while nothing overlapped: an anonymous row is a deleted one, there is one request, and the row it
  will leave is sound, because the row it loaded is still there.
* **`SearchProofs`** (`RebuiltIndexHolds`, `CacheAgreesHolds`, `SearchTypeHolds`). `SearchInv`: until the
  upload the documents are in the rebuild's hands (`DocumentsCurrent`), and an
  entry the rebuild's scan did not see was stored after it, with the index as it
  stays (`EntryChecked`). Entries stored late, out of date already, are not part of the
  theorem; that they go away is only model-checked (`SearchEventuallyCurrent`).
* **`ChatProofs`** (`OneChatSessionHolds`, `ShownOnceHolds`). There is at most one row,
  and open panels show it. What a panel shows is distinct because `Merge` leaves out
  what is already there, whatever page a late poll brings. That it is in order for a
  single sender is harder: polls overlap, so a page may be older than what was shown
  since it was read. `Follows` says that what is shown has no gaps (`NoGap`: every
  committed message up to its last is there) and that each page in flight has none
  but what is shown already (`PollFollows`). So what a page still adds is newer
  than all that is shown. A single sender sends one message at a time
  (`OneAtATime`), so messages are committed in their order and gaps are not
  filled later; with two senders, or a message committed late, they are, which is the
  loss named in section 5. `Grows` is this step, and `RowProceeds` what it rests on: what
  is committed was waited for or is late.
* **`ServicesProofs`** (`RowHasObjectHolds`, `MailAcceptedOnceHolds`,
  `WindowBoundHolds`, `RetryAfterWithinASecondHolds`). Uploads: a thread whose result is
  the key verified the object and has ended (`KeyIsFinal`), and the request commits
  only then. Mail: nothing was accepted while the error met is one that is retried
  (`AcceptedIfNoError`). Limiter: what it keeps is the end of the log of all accepted
  requests, and what it dropped has left the window (`HitsEndLog`); a refused
  request is told to wait until less than a second before the oldest entry kept
  leaves it (`ToldEnough`); with that second the room is there.
* **`Induction`**: `LeastNumber` and `BoundedInduction`. The library's induction theorems
  take the property as an operator, which the provers cannot instantiate; these take
  the *set of numbers* that have it. They serve `Merge`, the sum of scores and the limiter's
  `Prune`.

Only model-checked: liveness (`EveryRequestEnds`, `EveryCallEnds`,
`SearchEventuallyCurrent`, `EventuallyDelivered`) under the fairness of section 3,
which is out of the prover's reach.

## 5. Findings

Disagreements between the code and what it says of itself, each with a TLC
counterexample: see `findings` in `PROJECT.json`.

* A review decides on a Nano whatever has become of it, also when no request
  overlaps (`nano_stale_review`).
* The decision is taken on a row that is not locked and not looked at again:
  `nano_takedown_race`, `nano_queue_race`, `feedback_unreviewed`.
* An aggregate is computed in the transaction of one rating and written over
  that of another: `feedback_cache_race`.
* A takedown, archiving or deletion invalidates the search cache but not the
  index, which only a script rebuilds: the next search finds the Nano again
  (`search_takedown`).

The other sequential promises fail under overlap for the same causes. With
`Requests = {r1, r2}` in the instance of `nano_sequential`, TLC finds a metadata
update that commits after the Nano left draft (`MetadataOnlyInDraft`) or that clears
a field of a published Nano (`PublishedIsComplete`), and a reset case that keeps a
decision (`PendingCaseIsReset`).

Behaviours of the models that a reader of the code should know of; only the first
three contradict a text:

* `POST /auth/logout` revokes the refresh token but not the access token, though its
  docstring (`auth/router.py:443`) says both and the comment below it knows better. A call
  under way is served after the logout was answered. No run is kept for it.
* Feedback can be decided on two endpoints, and the one under `/nanos`
  (`moderate_nano_rating`, `moderate_nano_comment`) does not touch the moderation
  case: without any overlap the queue goes on showing what was decided there, or
  content and case carry opposite decisions, although `moderation/service.py:17-19`
  calls the review "the authoritative decision point" with "no window of
  inconsistency". `OnlyModerateSplits` says where this comes from, and that it
  comes from nowhere else; no run is kept for the disagreement itself.
* The wait a refused caller is told is rounded down: waiting just so long is
  refused again and lengthens the wait, although the answer says "Try again in n
  seconds" (`chat/router.py:67`).
* A refresh that compared its token before a logout stores its new token after
  it; the browser drops it, the server keeps it until it expires. A crash between
  blacklisting the old token and storing the new one ends the session.
* A page that calls before the page's own refresh is over starts a second refresh
  with the same token; the loser signs the user out (`patient = FALSE`). So may
  two tabs.
* Overlapping failed logins count once. A password change revokes no token.
* Two requests that register one address at once: the second fails with an
  `IntegrityError` that is answered 500.
* `execute_account_deletion` has no caller in the repository.
* With two senders, a message that commits after a later one was polled is
  behind the cursor and never shown, and `last_message_at` may go back. With one
  sender the same happens to a message whose request timed out at the panel and
  is committed after the next one; sending it again posts it twice.
* A cancelled deletion that overlaps an administrator's deletion of the account
  makes the anonymous row active; its password is random.
* The audit entry of a status change is a transaction of its own and is lost by a
  crash between the two.

## 6. Plan

1. `NanoWorkflow`, `NanoLifecycle`, `PublicationRecord`. *Done*, with proofs of every
   safety property that a run finds to hold.
2. `Feedback`. *Done*, with proofs of every safety property.
3. `Search`, with the rebuild. *Done*, with proofs.
4. `Sessions` with its token store, `SessionClient`, `Accounts`. *Done*, with proofs of
   the server's side and of the browser's.
5. `Chat`, `UploadStorage`, `MailTransport`, `RateLimiter`. *Done*, with proofs.

Left: an abstract specification of the token store that `Sessions` refines; of the
properties stated here only liveness has no theorem.

## 7. Not modelled

* Access to Nanos (detail, download, lists of a creator): one query and a decision
  on the row it returned. Which rows are public is in `NanoWorkflow`.
* The audit log: rows are inserted, listed and deleted by age; no handler reads
  one back.
* Pages and translations of the frontend, migrations, seed data, deployment,
  metrics, headers and configuration: no protocol state.
* Pure checks of strings (passwords, ZIP files, content filter, mail templates).
* Parts of modelled components that keep no state of the protocol are named in
  the notes of `PROJECT.json`: exports, consents, a second tab, reset of the limiter.
