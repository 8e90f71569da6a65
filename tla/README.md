# Verification of the notebook API

TLA+ models, TLC runs and TLAPS proofs about the backend in `src/`: a FastAPI
service (Python, async SQLAlchemy over PostgreSQL) that stores notebooks, logs
users in by one-time password or Google, and generates code through an AI
provider.

## 1. The system

| Component | State | Operations | Talks to |
|---|---|---|---|
| Notebook persistence (`app/features/notebooks`) | table `notebooks`: owner, title, JSONB snapshot, revision, last_synced_at | create, list, get, rename, delete, sync | PostgreSQL; the user comes from Sessions |
| OTP login (`app/features/auth/service.py`) | tables `otp_challenges`, `users`, `sessions` | request_otp, verify_otp | PostgreSQL, the delivery gateway (SES, or one that only logs) |
| Sessions (`service.py`, `dependencies.py`, `cookies.py`) | `sessions.revoked_at`, `expires_at`, the cookie | resolve user, logout, /auth/session | every authenticated endpoint |
| Google OAuth (`service.py`, `integrations/google_oauth`) | `oauth_states`, `oauth_accounts`, `users`, `sessions`, state cookie | start, callback | Google, PostgreSQL |
| AI generation (`app/features/ai`, `integrations/ai`) | per request: last response and feedback of the service object | generate: screen, call, extract, check, repair once | Bedrock, `node --check`, `notebooks` (read) |
| Session factory (`app/db/session.py`) | one `AsyncSession` per request, a pool of connections | open, close (= roll back what is not committed, give the connection back) | PostgreSQL |
| Rate limiter (`auth/rate_limit.py`) | timestamps per key | check | nothing calls it outside the tests |
| Core, health, migrations | settings | start-up, constant answers, DDL | - |

The service runs as one process with one event loop. Handlers interleave at
every `await`: each database statement, each provider or mail call. What they
share is the database, at READ COMMITTED: a statement sees what is committed
when it starts, an UPDATE, DELETE or SELECT ... FOR UPDATE waits for the
transaction that has written or locked the row and then works on its newest
version, an INSERT waits for a transaction that has inserted the same unique
key. SQLAlchemy adds its unit of work: an UPDATE names only the columns whose
value differs from the one that was loaded; an UPDATE that matches no row
raises; a DELETE that matches no row only warns. A handler that is cancelled or
raises closes its session, which rolls back.

What is hard about it: decisions taken on rows read earlier without a lock
(rename, sync, request_otp), two flushes or four writes before one commit
(create, verify_otp), lock waits whose holder may vanish, effects outside the
transaction (mail), a connection held through the provider's calls, an answer chosen among
candidates that a parser accepts, retries and restarts. `PROJECT.json` lists each hazard at
its line with the properties that watch it.

## 2. Modules

| Module | What it is |
|---|---|
| `NotebookData` | rows, snapshots, requests; `align_snapshot` and the attribute assignments of create, rename and sync |
| `NotebookStore` | the notebook endpoints, statement by statement, with row locks, column-wise UPDATEs, failures and restarts; its properties and inductive invariant |
| `NotebookAtomic` | the service `docs/persistence.md` promises: every request acts at one instant |
| `NotebookSerial` | `NotebookStore` while writes to one notebook do not overlap; the refinement mapping to `NotebookAtomic` |
| `NotebookStoreProofs`, `NotebookSerialProofs` | the theorems about them |
| `OtpAuth` | request_otp and verify_otp with clock, locks, unique index, delivery gateway, failures and restarts; properties and inductive invariant |
| `OtpAtomic` | the login `docs/auth.md` promises: a challenge allows so many wrong codes and one right one, each in one step. `OtpAuth` implements it |
| `OtpAuthProofs`, `OtpCooldownProofs` | the theorems about `OtpAuth`; the second has the one about the cooldown |
| `GoogleOAuth` | start and callback with their three transactions, the calls to Google, unique constraints, failures and restarts; properties and inductive invariant |
| `GoogleAtomic` | the login `docs/auth.md` 7 promises: a state is spent once and logs in once, a subject is linked once, its user comes with the link. `GoogleOAuth` implements it |
| `GoogleOAuthProofs` | the theorems about `GoogleOAuth` |
| `Sessions` | a session from login to logout or expiry, as the requests that carry its cookie see it, and the pool of connections they share; properties and inductive invariant |
| `SessionsProofs` | the theorems about it |
| `CodeExtraction` | how JavaScript is found in a model's answer: pure operators on the kinds of its lines; at its end what they are to find, said without loops and lists |
| `AiGeneration` | one request of the AI endpoint: gates, two attempts, validator, final error; properties and inductive invariant |
| `CodeExtractionProofs`, `AiGenerationProofs` | the theorems about them |
| `MCNotebookStore`, `MCAiGeneration` | for TLC: a symmetry set; the texts the provider answers with |

How they compose. `NotebookSerial` extends `NotebookStore` and instantiates
`NotebookAtomic`; `OtpAuth` instantiates `OtpAtomic`, `GoogleOAuth`
`GoogleAtomic`; `AiGeneration` extends `CodeExtraction`. `OtpAuth` and
`GoogleOAuth` share the table `users`: each has the other's registration as a
step of its environment or as its own index. `Sessions` stands above the rest:
its `Login` is the commit of `OtpAuth` or `GoogleOAuth`, its `Work` the whole of
`NotebookStore` or `AiGeneration`, of which it uses that they end.

Definitions introduced with "Mutant:" are not part of any specification: each is
a plausible bug put in the place of a definition to see a property fail.

### NotebookStore and the code

A request is a slot of `Requests`; `pc` says at which `await` it stands.

| Action | Code |
|---|---|
| `Insert` | `NotebookService.create` up to its first flush and refresh: the row has the snapshot as the client sent it. The uuid is drawn here |
| `Get` | `get`, and `patch_notebook` without a title |
| `LookupOwned` | `get_owned` in rename and delete |
| `LookupSync` | `get_owned` and the comparison of `base_revision` in sync |
| `FlushUpdate` | `NotebookRepository.update` up to its flush. Its disjuncts: nothing differs; the revision overflows the column; the row is gone; the UPDATE |
| `FlushDelete` | `NotebookRepository.delete` |
| `Refresh` | `session.refresh`; the answer is built from what it reads |
| `Commit`, `Reply` | `session.commit`; the answer is sent |
| `Abort`, `Crash` | the handler is cancelled or its statement fails; the process is killed |

`pending[r]` is the uncommitted version of the row that r has written, `lock`
its row lock. `UpdateColumns` is the column-wise UPDATE. `list_summaries` reads
and answers without a decision, so it is no action. `created_at` and
`updated_at` are left out; `last_synced_at` is the Boolean `synced`, and a sync
always writes it because the instant is new every time. Tags, blocks and
metadata are one opaque `body`.

### OtpAuth and the code

| Action | Code |
|---|---|
| `RequestOtp` | `get_recent_active_challenge_for_email`, then 429 or go on. `at` is the transaction's start, which becomes `created_at` |
| `InsertChallenge` | `create_otp_challenge` |
| `SendOtp` | `send_otp`: SES delivers, or raises with or without having delivered; the logging gateway succeeds and delivers nothing |
| `VerifyOtp`, `LockChallenge` | `SELECT ... FOR UPDATE`, `_ensure_challenge_is_verifiable`, the comparison of the code, and the flush of a wrong code's count |
| `FindUser`, `RegisterUser` | `get_or_create_user`: a SELECT, then an INSERT under the unique index, whose IntegrityError nobody catches (500) |
| `ConsumeChallenge`, `InsertSession` | `consume_otp_challenge`; `create_session_for_user` up to its commit |
| `Commit`, `Outcome` | the three commits of the two endpoints (service.py:112 of request_otp, :257 of a wrong code, :142 of a login), and the answer each leads to |
| `Reply`, `Abort`, `Crash`, `Tick` | as above; the clock |

`gateway` is what `get_otp_delivery_gateway` hands out; the settings decide it
once (`GatewayFor`), so both kinds are initial states. With the logging gateway
success is answered and nothing is mailed: meant for development, where the
answer carries the code (`dev_otp`), and also what any environment does whose
SES_FROM_EMAIL is blank. So `AnsweredIsStoredAndSent` promises a mail of SES
only; that the challenge is stored it promises of both.

A code is right or wrong. The clocks of Python and PostgreSQL are taken to be
one. `sessions[ch]` counts the rows of `sessions` that the verification of `ch`
inserted; what happens to a session later is in `Sessions`.

`AccountOf` maps a challenge to its account in `OtpAtomic`: none before
its row is committed, otherwise the committed counts. So `InsertChallenge` to `Reply` are stutters
but for the one commit of each request: `Issue`, `Miss` or `Login`.

### GoogleOAuth and the code

| Action | Code |
|---|---|
| `Start`, `CommitStart` | `start_google_oauth`: the nonce and its row, the commit |
| `Callback` | `_validate_google_oauth_state` up to the SELECT: a state that is missing, forged, expired or not the cookie's is refused |
| `LockState`, `CommitState` | `SELECT ... FOR UPDATE`, the test of `consumed_at`, the commit that spends the state; after it, an error or no code in the query |
| `Exchange` | `exchange_code` and `fetch_user_info`: an identity, or a failure |
| `FindLink`, `FindUser` | the two SELECTs of `_resolve_user_for_google_identity`, and the test of the verified e-mail between them |
| `RegisterUser`, `InsertLink` | `create_user`, `create_oauth_account`; their IntegrityError is the rollback and `oauth_account_conflict` |
| `CommitLink`, `OpenSession` | the commit of user and link; `create_session_for_user` |
| `Expire`, `OtpRegisters` | a state's lifetime ends; verify_otp commits a user |

The clock is reduced to the set `expired`. The record's own expiry test
(service.py:317) can never refuse: it compares with the instant at which the
signed `iat` was already tested, and the record does not expire before the
`iat` does. So a state that expires while its callback waits for the row is
taken, and `LockState` has no test. The row lock and the two unique constraints
are the operators `StateFree`, `EmailFree` and `SubjectFree`, read off what the
open transactions have written. Users are never deleted, so a link always has
its user. An e-mail that is absent or blank counts as not verified, a subject
that is absent as a failed exchange.

The refinement mapping to `GoogleAtomic` keeps users and links as they are
committed, and `Stage` tells a state by its committed row and its session. The
steps that show are `CommitStart` (`Offer`), `CommitState` (`Spend`),
`CommitLink` (`LinkUser`), `OpenSession` (`LogIn`) and `OtpRegisters`
(`Register`). All others stutter, `Expire` too: what expires is only what
callbacks are still accepted.

### Sessions and the code

| Action | Code |
|---|---|
| `Login`, `Expire` | the commit of a login; `expires_at` passes |
| `Arrive`, `Connect` | a request with the cookie of a session, with one that nobody was given (`Unknown`) or with none; its first statement takes a connection |
| `ConnectTimesOut` | none came back within `pool_timeout`: an error |
| `Resolve` | `get_active_session_by_token_hash`: `resolve_user_from_session_token` for /auth/session and the protected endpoints, the start of `revoke_session_token` for logout |
| `Work` | what a protected endpoint does: it commits, which gives the connection back, or only reads and keeps it |
| `FlushRevoke`, `CommitRevoke` | `revoke_session` and its commit |
| `Reply`, `Abort`, `Crash` | as above; `get_db` closes the session |

The user of a session is one row that is never deleted, so its SELECT is part of
`Resolve`. A request has one session and one connection: FastAPI caches `get_db`
within a request. `PoolSize` is `pool_size + max_overflow` of SQLAlchemy
(`db/session.py` leaves both at their defaults). `late` are the requests that
arrived after a logout of their token was answered: the only ones a logout
promises anything about. A request that was resolved before goes on, and the
model lets it.

### CodeExtraction, AiGeneration and the code

A text is a sequence of lines, a line one of fourteen kinds: what the regular
expressions of `service.py` and JavaScript's grammar tell apart (the header of
`CodeExtraction` gives an example of each). `Parses` is `node --check` on such
texts: a fence line is the template literal of an empty string tagged by the
next one, so text between two fence lines is inside a template literal.
`FencedCandidates`, `MixedBlock` and `Candidates` are `_iter_fenced_candidates`,
`_extract_mixed_code_block` with its loop variables as functions of the turn,
and `extract_code_candidates`. `PreferredFences` lists the six languages in the
order of PREFERRED_FENCE_LANGS, the empty one included, and `Rank` is the place in
it: a fence of an earlier language is tried first, wherever it stands. One more
kind of fence names a language that is not listed. A candidate that occurs twice is tried once in
the code; trying it twice answers the same.

| Action | Code |
|---|---|
| `Arrive` | the body fits `AiCodeGenerateRequest`, or is refused by the handler in `main.py` |
| `PassGates` | `generate_code` from the uuid to the first call; `GateError` has the order of its gates |
| `CallProvider` | `gateway.generate` and the mapping of its exceptions; `Gateway`, `RuntimeStatus` and `MissingFields` say which gateway `dependencies.py` builds. One call is one `generate`: what the SDK retries below it (provider.py:165) is inside |
| `ProcessAttempt` | `_process_provider_attempt` and what `generate_code` makes of it: `AnswerWith`, `Repair` or `GiveUp` |
| `Reply`, `Abort` | the answer is sent; the client is gone, the database or the temporary file fails |

`subprocess.run` blocks the event loop, so an attempt is processed in one step.
The validator may be absent or time out on any candidate: `unchecked`. The
service object is built anew for each request (`Idle`), so one request at a time
shows all; what requests share is in `Sessions`. A stored snapshot that does not
validate raises a ValueError nobody catches: the answer `internal` (500).

## 3. Runs

`tlc -config X.cfg M` in this directory. Sizes are distinct states.

| Run | Shows | Bounds |
|---|---|---|
| notebook_safety (94 282) | whatever the interleaving: a committed row carries its own id; revision 1 iff never synced; a successful sync answers base + 1; an acknowledged delete is a delete; only the owner's commits change a row; deleted rows stay deleted; a rename leaves revision and last_synced_at; an answer is the committed row; every request ends; the inductive invariant | 2 users, 1 notebook, 2 titles, 1 body, 2 requests, revisions up to 3 |
| notebook_serial (30 290) | without overlapping writes the code implements `NotebookAtomic`, and a sync replaces only its base, titles agree, a rename keeps the contents | 2 users, 1 notebook, 2 titles, 2 bodies, 2 requests, revisions up to 3 |
| lost_sync, titles, rename_body | with overlapping writes each of those three fails | as small as shows it |
| otp_safety (263 316) | the two endpoints implement `OtpAtomic`; one session per challenge and only whole logins; every wrong code counted up to the limit; success is answered for stored challenges only, and with SES their codes went out; while requests for an e-mail do not overlap the cooldown holds; every request ends: no deadlock between the challenge's row lock and the index of `users`; the inductive invariant | 1 e-mail, 2 challenges, 2 requests, 2 attempts, 2 instants, either gateway |
| otp_cooldown | two overlapping request_otp break it | 2 challenges, 2 requests |
| google_login (334 028) | start and callback implement `GoogleAtomic`; one session per state; a successful callback is logged in as the one linked user; no user without a way in; a conflict is answered only when the user is there or the subject linked; every request ends; the inductive invariant | 2 states, 2 subjects, 2 e-mails, 2 requests beside logins by OTP |
| google_conflict | a conflict is answered to an identity that has no link | the same |
| sessions (168 439) | an answered logout is final; an empty pool fills again; every request ends; the inductive invariant | 1 token and an unknown one, 3 requests, 2 connections |
| ai_generation (45 722) | the provider is called for admissible requests only; the scan finds the longest run of code; of the usable fenced blocks the one in the first language wins, and the first in that language; no usable code is lost; the error names the last failure; the answer tells whether its code was extracted, and extracted code has no fences and no prose; every request ends; the inductive invariant | every request and setting; all texts of up to 3 lines, two fenced blocks, every pair of languages, two runs of code |
| ai_plain_code | an answer with its markdown fences | the same |

Why the bounds are enough. A notebook shares nothing with another (one row, one
lock), so one notebook shows all interference. Every hazard listed is a race of
two: the one that decided on what it read, and the one that writes between; the
slots serve any number of requests one after the other. The theorems hold for
any number at a time. Three revisions allow two syncs and the overflow after the last. Two titles are
needed to tell whose title a row has, two bodies for the same of contents. The
bound on uuids makes a create or a request_otp that finds none free not arrive;
everything else still runs. For OTP, two challenges of one e-mail are what meet
at the index of `users`; two attempts let a wrong code be counted and the limit
be reached by a request that waited for the lock; the clock reaches the expiry
of a challenge while it is verified. The cooldown is 0, which still forbids two
challenges of one instant and allows two of successive ones, both active (the
first is inserted an instant after its transaction started): the comparison at
its boundary, on either side.
For Google, every race is of two parties: two callbacks, or one and a login by
OTP, which is there besides the two requests. Two subjects and two e-mails let
them share either without the other. For sessions, a third request is the one
that waits: two logouts hold both connections, one of them waits for the
other's row lock. Tokens share only the pool, so one is enough. For the AI
endpoint, the validator gives a different answer to each candidate, three
lines make a fenced block, and two blocks or two runs of code are what the
choice among them is between. The order of the languages is one of pairs, so every
pair of the seven fences in either order shows it, with blocks that parse and
blocks that do not; widths are chosen so that a run of few long lines
can beat one of many short ones.

Symmetry (requests, titles, users) is used in notebook_serial only, where
only safety is checked: no specification orders or names an element of these
sets.

Deadlock is checked in all runs: a request can always arrive.

The titles, rename_body, lost_sync, otp_cooldown, google_conflict and
ai_plain_code runs each show a difference between a document and the code.
`PROJECT.json` quotes both sides. Five come from a decision on rows that are
read without a lock and written later. The sixth comes from trying the whole
response, markdown fences included, when the code in the fences was refused
(by `node`, or because `node` gave no verdict): a pair of fence lines is valid
JavaScript whatever is between them.

## 4. Fairness

`NotebookStore`: WF of Refresh, Commit and Reply, since the event loop resumes
a coroutine when its statement has returned; SF of Flush, since a row lock is
granted to waiters in the order they queued, so a waiter that is again and again
not blocked is served. `OtpAuth`: WF of the steps that wait for nobody (the
gateway answers or raises), SF of those that wait for a lock. `GoogleOAuth`: the
same (httpx has a timeout of 10 s, so a call to Google answers or raises).
`Sessions`: WF of a request's steps, which includes that the pool answers or
times out and that an endpoint's work ends, as `NotebookStore` and
`AiGeneration` show; SF of the UPDATE that waits for a row lock.
`AiGeneration`: WF of the handler's steps: the SDK has connect and read
timeouts and a bounded number of retries, `node` has five seconds. Nothing is
assumed of arrivals, aborts, restarts or the clock. Safety needs no fairness.

## 5. Proofs

Checked by `tlapm`, for any sets of users, notebooks, requests, e-mails,
challenges, states, subjects, tokens and texts and any values of the limits.
Assumed are only the named assumptions of the modules: MaxRevision and PoolSize
are positive integers, the settings are integers (`core/config.py` puts no
bound on them; AI_BEDROCK_TIMEOUT_SECONDS is a float there, of which only whether
it is positive is ever tested), texts are sequences of kinds of lines and a blank
line has no width, the sentinels are not values.

*NotebookStore.* The properties are not inductive: that an answer is the
committed row needs that the row lock keeps others from the row between Refresh
and Commit; that deleted rows stay deleted needs that an update has a committed
row under its lock; that revision and last_synced_at agree needs the same of
every loaded and pending version, because a column-wise UPDATE mixes two of
them. `IInv` states these: types (TypeOK), calls (CallInv), uuids (IssuedInv, CreateInv), locks
and pending versions (LockInv, PendingInv, UpdateInv), owners (OwnerInv),
versions (VersionInv), and what sync, rename, delete and the answer carry
(SyncInv, RenameInv, DeleteInv, AnswerInv). `NextSteps` reduces the steps to ten
shapes; one lemma per part shows that each shape preserves it. All nine
safety and action properties of notebook_safety follow for every size.

*NotebookSerial.* `SerialIsAtomic`: every step of the handlers is a step of the
atomic service or a stutter. Its invariant `UndisturbedInv` says that a request
past its checks works on the committed row as it loaded it, so what it commits
is its effect on that row. The three promises that overlapping requests break
follow from it: `SerialTitlesMatch`, `SerialSyncsHold`, `SerialRenamesHold`.

*OtpAuth.* `IInv` adds to the properties that a challenge is locked exactly
while it is verified, that under the lock the committed row is as the checks
found it and the row at hand is that row with the request's own change, that a
login under way has a user, committed or its own, that a uuid has no row
before the one commit of its request, and that with SES a challenge about to be
stored has its code out. From it: `OneLogin`, `AnsweredHolds`,
`ClosedIsFinal`, `WrongCodesCount`, and `OtpIsAtomic`: a step that commits is
`Issue`, `Miss` or `Login` of `OtpAtomic` on the committed challenge, because the
lock kept that as the checks found it; every other step leaves users and
accounts alone.

*The cooldown.* `CooldownHolds`: []NoOverlap => []ActiveChallengesAreSpaced. What
a request found when it looked for a recent challenge stays true until its
commit (CooldownInv), because nobody else brings a challenge of its e-mail,
verifications keep the dates of the row they lock (DatesInv), and the clock only
makes challenges expire. So the throttle of `docs/auth.md` 5.1 holds for any
settings until two requests overlap, and overlap is its only breach. The proof
has one lemma for what is new among the active challenges (ActiveStep) and one
for who is new among the requests (RequestingStep).

*GoogleOAuth.* `IInv` adds that a state past its row lock is in the hands of one
callback which has not opened its session (StateInv), that an uncommitted user
belongs to one transaction which links it next (UserInv), and that a subject is
linked by one transaction at a time and, before the session, is linked to the
user at hand (LinkInv, LinkingInv). From it: `OneLogin`, `LinkedLogin`,
`NobodyStranded`. `ConflictsHaveCauses` needs no more: whoever loses at one of
the two unique constraints has lost to a committed user or link. `GoogleIsAtomic`
adds that a nonce has no row before its start commits, and no other start has
drawn it (NonceInv): each of the five visible actions is then one step of
`GoogleAtomic`, since a subject that is linked is in no other transaction, and a
callback that opens a session has a link and a spent, unused state.

*Sessions.* That a logout is final for everyone who arrives after its answer is
not inductive: it needs that a logout about to be answered leaves its token
inactive (AnswerInv), that no token becomes active again, because a login draws
a new one (LogoutRevokes), that a row is locked exactly while a logout has
written it (LockInv), and that a request which arrived late carries a token
whose logout was answered (LateInv). PoolInv counts connections: the ones out
are at most PoolSize, and a request works with one. From it: `LogoutHolds`.

*CodeExtraction.* Five theorems say what the extraction finds in a text of any
length. The loop of `MixedBlock` is a pair of recursive functions on 0 .. n.
Induction over it is done by facts about sets: a set of naturals has a least
element, so one that has 0 and is closed under + 1 is all of 0 .. n; from that,
that such a function exists (`LoopExists`), and the loop's invariants: `start`
is the first line of the run that is open, `best` the first longest run of those
that are closed. Hence `MixedBlockIsLongestRun`. The fenced blocks are strictly
ordered by `Precedes`, so each has a place in the list and every place a block.
`RankIsPreference` shows that the places `Rank` computes are the order of the
languages. So when fenced blocks parse, there is one that no other comes before, in
the order of the languages and then of the text, and the first candidate that
parses is its contents (`FirstGoodIsFirstFence`). When no candidate parses, nothing does that could have been
offered (`NothingGoodIsNothingUsable`); candidates look like code exactly when
the text does (`LooksAreKept`); what is extracted has no fence and no prose
(`ExtractedIsPlain`).

*AiGeneration.* `IInv` says that past the gates the request is admissible
(GatesInv), that there is one call per attempt (CallsInv) and that an answer's
code parses and says how many repairs it took (AnswerInv). `GatesHold`: the
provider is called for no request that a gate refuses. What `Min` chooses is
proved to be a candidate since < is well-founded on the naturals, and that
every candidate is a text from the definitions of `FencedCandidates`,
`MixedBlock` and `Trim`. The invariant `Verdict` ties an answer to
the text it came from: it is a candidate that parses, the first of them unless
the validator failed, and a failure means that none does. With the theorems of `CodeExtractionProofs` it gives
`LongestRunHolds`, `FirstFenceHolds`, `NothingIsLost`, `ErrorIsNamed` and
`ExtractionHolds`.

Only model-checked: liveness (EveryRequestEnds, PoolRecovers), since fairness
and ENABLED are out of the prover's reach. Not provable because they fail:
TitleMatchesSnapshot, SyncReplacesOnlyItsBase, RenameKeepsBody and
ActiveChallengesAreSpaced when requests overlap (they are proved when requests
do not), ConflictIsALink and CodeIsPlain (of which ConflictsHaveCauses and
ExtractionHolds prove what is left).

## 6. Not modelled, and the plan

1. An abstract specification of identities (an e-mail has one user, a subject
   one link) that OTP login and Google login together implement. `OtpAtomic` and
   `GoogleAtomic` are its two halves, each proved to be implemented.
2. The composition of `Sessions` with one protected endpoint in full, to say
   what a request may still do whose session is revoked after it was resolved.
   No document promises anything about it.
3. `timeout_retry`: a client that repeats a sync whose answer it lost.

Not modelled: the rate limiter (`auth/rate_limit.py`), since nothing but its
tests refers to it; the SES and logging gateways beyond what request_otp
sees of them; logging, security headers, the error envelope's layout, cookies'
attributes; the constant answers of the health endpoints; migrations (DDL; the
constraints they create are modelled); hashing of codes and tokens (taken to be
injective); the text of mails, prompts and repair feedback. `subprocess.run` and
the SES call block the event loop for a while: that is latency, which the models
do not measure.
