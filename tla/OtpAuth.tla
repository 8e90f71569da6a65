------------------------------- MODULE OtpAuth ------------------------------
(***************************************************************************)
(* Login by one-time password: request_otp and verify_otp of AuthService   *)
(* (src/app/features/auth/service.py) over PostgreSQL (READ COMMITTED).    *)
(*                                                                         *)
(* request_otp looks for a recent active challenge, inserts a new one,     *)
(* hands its code to the gateway that delivers it, or only logs, and       *)
(* commits.  verify_otp takes the row lock of the challenge (SELECT ...    *)
(* FOR UPDATE) and, under that lock, either counts a wrong code or finds   *)
(* or inserts the user, consumes the challenge, inserts a session and      *)
(* commits it all.  A transaction that does not reach its commit is rolled *)
(* back.  Codes are only right or wrong; the clock of the server and that  *)
(* of the database are one.                                                *)
(***************************************************************************)
EXTENDS Integers, FiniteSets

CONSTANTS
    Emails,         \* normalised e-mail addresses
    Challenges,     \* the uuids that uuid4 may draw for challenges
    Requests,       \* request slots: the handlers in flight at one time
    MaxAttempts,    \* AUTH_OTP_MAX_ATTEMPTS
    Ttl,            \* AUTH_OTP_TTL_SECONDS, in ticks of the clock
    Cooldown,       \* AUTH_OTP_REQUEST_COOLDOWN_SECONDS, in ticks
    MaxTime,        \* the clock stops here: a bound of the model
    Absent,         \* no row
    None            \* no request, no lock holder

\* The settings are declared `int` in core/config.py, with no lower bound.
ASSUME SettingsAssumption ==
    /\ MaxAttempts \in Int
    /\ Ttl \in Int
    /\ Cooldown \in Int
    /\ MaxTime \in Nat

VARIABLES
    now,            \* the clock
    challenges,     \* the committed rows of `otp_challenges`
    issued,         \* the uuids drawn for challenges
    users,          \* the e-mails that have a committed row in `users`
    sessions,       \* per challenge: how many rows of `sessions` it opened
    gateway,        \* the one that get_otp_delivery_gateway hands out
    mailed,         \* the challenges whose code the gateway has delivered
    challengeLock,  \* per challenge: the request that holds its row lock
    emailLock,      \* per e-mail: the request with an uncommitted `users` row
    pc,             \* per request: where it waits
    call,           \* per request: its arguments
    challenge,      \* per request: the ORM object in its session
    result          \* per request: the status it will answer

store == <<challenges, users, sessions>>
mail  == <<gateway, mailed>>
locks == <<challengeLock, emailLock>>
vars  == <<now, store, issued, mail, locks, pc, call, challenge, result>>

Times == 0 .. MaxTime

Challenge == [email : Emails, created : Times, expires : Int,
              attempts : Nat, consumed : BOOLEAN]

\* `at` is the start of the transaction, which is what now() gives the column
\* created_at.  `right` says whether the code sent is the one drawn.
RequestCalls == [op : {"request"}, email : Emails, ch : Challenges, at : Times]
VerifyCalls  == [op : {"verify"}, ch : Challenges, right : BOOLEAN]
Calls == RequestCalls \cup VerifyCalls

\* What the rest of the system sees of a challenge.
Account == [email : Emails, attempts : Nat, consumed : BOOLEAN, sessions : Nat]

\* No sentinel is a value of the set it is added to.
ASSUME SentinelAssumption ==
    /\ Absent \notin Challenge \cup Account
    /\ None \notin Calls \cup Requests

Refusals == {"not_found", "consumed", "expired", "limit"}
Statuses == {"none", "ok", "invalid", "rate_limited", "error"} \cup Refusals

Requesting == {"insert", "send", "store"}
Verifying  == {"count", "user", "register", "consume", "session", "login"}

TypeOK ==
    /\ now \in Times
    /\ challenges \in [Challenges -> Challenge \cup {Absent}]
    /\ issued \in SUBSET Challenges
    /\ users \in SUBSET Emails
    /\ sessions \in [Challenges -> Nat]
    /\ gateway \in {"ses", "logging"}
    /\ mailed \in SUBSET Challenges
    /\ challengeLock \in [Challenges -> Requests \cup {None}]
    /\ emailLock \in [Emails -> Requests \cup {None}]
    /\ pc \in [Requests -> {"idle", "lock", "reply"} \cup Requesting \cup Verifying]
    /\ call \in [Requests -> Calls \cup {None}]
    /\ challenge \in [Requests -> Challenge \cup {Absent}]
    /\ result \in [Requests -> Statuses]

\* get_otp_delivery_gateway: `dev` is auth_dev_otp_enabled, `ses` is
\* ses_email_enabled, SES_FROM_EMAIL being set.
GatewayFor(dev, ses) == IF dev \/ ~ ses THEN "logging" ELSE "ses"

\* The settings are read once, so the gateway is the same for every request.
Init ==
    /\ now = 0
    /\ challenges = [ch \in Challenges |-> Absent]
    /\ issued = {}
    /\ users = {}
    /\ sessions = [ch \in Challenges |-> 0]
    /\ gateway \in { GatewayFor(dev, ses) : dev, ses \in BOOLEAN }
    /\ mailed = {}
    /\ challengeLock = [ch \in Challenges |-> None]
    /\ emailLock = [e \in Emails |-> None]
    /\ pc = [r \in Requests |-> "idle"]
    /\ call = [r \in Requests |-> None]
    /\ challenge = [r \in Requests |-> Absent]
    /\ result = [r \in Requests |-> "none"]

-----------------------------------------------------------------------------
Goto(r, next) == pc' = [pc EXCEPT ![r] = next]

\* A request has arrived; it goes on to `next`, or answers `res` at once.
Open(r, c, next, res) ==
    /\ pc[r] = "idle"
    /\ Goto(r, next)
    /\ call' = [call EXCEPT ![r] = c]
    /\ result' = [result EXCEPT ![r] = res]

\* The transaction of r ends: its locks are freed.
Release(r) ==
    /\ challengeLock' = [ch \in Challenges |->
            IF challengeLock[ch] = r THEN None ELSE challengeLock[ch]]
    /\ emailLock' = [e \in Emails |->
            IF emailLock[e] = r THEN None ELSE emailLock[e]]

\* An exception leaves the handler: rollback, and `res` is answered.
Refuse(r, res) ==
    /\ Goto(r, "reply")
    /\ result' = [result EXCEPT ![r] = res]
    /\ Release(r)
    /\ UNCHANGED <<now, store, issued, call, challenge>>

-----------------------------------------------------------------------------
\* The challenges of e that a right code would still consume, by their dates.
Active(e) ==
    { ch \in Challenges : /\ challenges[ch] # Absent
                          /\ challenges[ch].email = e
                          /\ ~ challenges[ch].consumed
                          /\ challenges[ch].expires > now }

\* Mutant: a challenge exactly as old as the cooldown is not recent.
RecentActiveAfter(e) ==
    { ch \in Active(e) : challenges[ch].created > now - Cooldown }

\* get_recent_active_challenge_for_email.
RecentActive(e) ==
    { ch \in Active(e) : challenges[ch].created >= now - Cooldown }

\* POST /auth/request-otp, its first statement.  A request that is refused
\* holds the challenge it found, any other the uuid its own will be given.
RequestOtp(r, e) ==
    /\ \/ /\ RecentActive(e) # {}
          /\ \E ch \in RecentActive(e) :
                Open(r, [op |-> "request", email |-> e, ch |-> ch, at |-> now],
                     "reply", "rate_limited")
          /\ UNCHANGED issued
       \/ /\ RecentActive(e) = {}
          /\ \E ch \in Challenges \ issued :
                /\ issued' = issued \cup {ch}
                /\ Open(r, [op |-> "request", email |-> e, ch |-> ch, at |-> now],
                        "insert", "none")
    /\ UNCHANGED <<now, store, mail, locks, challenge>>

\* The row of a challenge inserted now by a transaction that started `at`.
NewChallenge(email, at) ==
    [email |-> email, created |-> at, expires |-> now + Ttl,
     attempts |-> 0, consumed |-> FALSE]

\* create_otp_challenge.
InsertChallenge(r) ==
    /\ pc[r] = "insert"
    /\ challenge' = [challenge EXCEPT ![r] = NewChallenge(call[r].email, call[r].at)]
    /\ Goto(r, "send")
    /\ UNCHANGED <<now, store, issued, mail, locks, call, result>>

\* Mutant: the failure of the gateway is logged and forgotten.
SendOtpBestEffort(r) ==
    /\ pc[r] = "send"
    /\ mailed' \in IF gateway = "ses" THEN {mailed, mailed \cup {call[r].ch}}
                                      ELSE {mailed}
    /\ Goto(r, "store")
    /\ UNCHANGED <<now, store, issued, gateway, locks, call, challenge, result>>

\* SES delivers the code, or raises, whether it was delivered or not.  The other
\* gateway writes a line to the log, without the code, and is content.
SendOtp(r) ==
    /\ pc[r] = "send"
    /\ \/ /\ mailed' = IF gateway = "ses" THEN mailed \cup {call[r].ch} ELSE mailed
          /\ Goto(r, "store")
          /\ UNCHANGED <<now, store, issued, locks, call, challenge, result>>
       \/ /\ gateway = "ses"
          /\ mailed' \in {mailed, mailed \cup {call[r].ch}}
          /\ Refuse(r, "error")
    /\ UNCHANGED gateway

-----------------------------------------------------------------------------
\* POST /auth/verify-otp: SELECT ... FOR UPDATE finds no committed row, or
\* queues for the lock of the one it finds.
VerifyOtp(r, c) ==
    /\ IF challenges[c.ch] = Absent THEN Open(r, c, "reply", "not_found")
                                    ELSE Open(r, c, "lock", "none")
    /\ UNCHANGED <<now, store, issued, mail, locks, challenge>>

\* Mutant: used-up attempts are not tested.
RefusalByDate(row) ==
    IF row.consumed THEN "consumed"
    ELSE IF row.expires <= now THEN "expired"
    ELSE "none"

\* _ensure_challenge_is_verifiable, in the order of its tests; "none" when
\* the challenge may be verified.
Refusal(row) ==
    IF row.consumed THEN "consumed"
    ELSE IF row.expires <= now THEN "expired"
    ELSE IF row.attempts >= MaxAttempts THEN "limit"
    ELSE "none"

\* Mutant: the SELECT is not FOR UPDATE.
CanLockAlways(ch) == TRUE

\* PostgreSQL grants the lock of a row that no transaction holds.
CanLock(ch) == challengeLock[ch] = None

\* The lock is granted, and the row is read as it is then.  A wrong code is
\* counted, a right one goes on to the user.
LockChallenge(r) ==
    LET ch  == call[r].ch
        row == challenges[ch]
    IN
    /\ pc[r] = "lock"
    /\ CanLock(ch)
    /\ \/ /\ Refusal(row) # "none"
          /\ Refuse(r, Refusal(row))
          /\ UNCHANGED mail
       \/ /\ Refusal(row) = "none"
          /\ challengeLock' = [challengeLock EXCEPT ![ch] = r]
          /\ IF call[r].right
             THEN /\ challenge' = [challenge EXCEPT ![r] = row]
                  /\ Goto(r, "user")
             ELSE /\ challenge' = [challenge EXCEPT ![r] =
                                      [row EXCEPT !.attempts = @ + 1]]
                  /\ Goto(r, "count")
          /\ UNCHANGED <<now, store, issued, mail, emailLock, call, result>>

\* get_user_by_email: only committed rows are seen.
FindUser(r) ==
    /\ pc[r] = "user"
    /\ Goto(r, IF challenge[r].email \in users THEN "consume" ELSE "register")
    /\ UNCHANGED <<now, store, issued, mail, locks, call, challenge, result>>

\* create_user: the unique index on `email` makes the INSERT wait for a
\* transaction that inserts the same e-mail, and fail if that one committed.
RegisterUser(r) ==
    LET e == challenge[r].email IN
    /\ pc[r] = "register"
    /\ emailLock[e] = None
    /\ \/ /\ e \in users
          /\ Refuse(r, "error")
          /\ UNCHANGED mail
       \/ /\ e \notin users
          /\ emailLock' = [emailLock EXCEPT ![e] = r]
          /\ Goto(r, "consume")
          /\ UNCHANGED <<now, store, issued, mail, challengeLock, call,
                         challenge, result>>

\* consume_otp_challenge.
ConsumeChallenge(r) ==
    /\ pc[r] = "consume"
    /\ challenge' = [challenge EXCEPT ![r].consumed = TRUE]
    /\ Goto(r, "session")
    /\ UNCHANGED <<now, store, issued, mail, locks, call, result>>

\* create_session_for_user up to its commit.
InsertSession(r) ==
    /\ pc[r] = "session"
    /\ Goto(r, "login")
    /\ UNCHANGED <<now, store, issued, mail, locks, call, challenge, result>>

-----------------------------------------------------------------------------
\* What the request that commits will answer: the limit is named by the code
\* that reaches it.
Outcome(r) ==
    IF pc[r] # "count" THEN "ok"
    ELSE IF challenge[r].attempts >= MaxAttempts THEN "limit"
    ELSE "invalid"

\* The commits of request_otp, of a wrong code and of a login: everything the
\* transaction wrote, at once.
Commit(r) ==
    LET ch == call[r].ch IN
    /\ pc[r] \in {"store", "count", "login"}
    /\ challenges' = [challenges EXCEPT ![ch] = challenge[r]]
    /\ users' = users \cup { e \in Emails : emailLock[e] = r }
    /\ sessions' = [sessions EXCEPT ![ch] = IF pc[r] = "login" THEN @ + 1 ELSE @]
    /\ Release(r)
    /\ Goto(r, "reply")
    /\ result' = [result EXCEPT ![r] = Outcome(r)]
    /\ UNCHANGED <<now, issued, mail, call, challenge>>

\* Mutant: the session of a cancelled request is not closed.
ForgetUnclosed(rs) ==
    /\ pc' = [r \in Requests |-> IF r \in rs THEN "idle" ELSE pc[r]]
    /\ call' = [r \in Requests |-> IF r \in rs THEN None ELSE call[r]]
    /\ UNCHANGED <<now, store, issued, mail, locks, challenge, result>>

\* The slots in `rs` forget their requests, transactions rolled back.
Forget(rs) ==
    /\ pc' = [r \in Requests |-> IF r \in rs THEN "idle" ELSE pc[r]]
    /\ call' = [r \in Requests |-> IF r \in rs THEN None ELSE call[r]]
    /\ challenge' = [r \in Requests |-> IF r \in rs THEN Absent ELSE challenge[r]]
    /\ result' = [r \in Requests |-> IF r \in rs THEN "none" ELSE result[r]]
    /\ challengeLock' = [ch \in Challenges |->
            IF challengeLock[ch] \in rs THEN None ELSE challengeLock[ch]]
    /\ emailLock' = [e \in Emails |->
            IF emailLock[e] \in rs THEN None ELSE emailLock[e]]
    /\ UNCHANGED <<now, store, issued, mail>>

\* The answer is sent; whether it arrives is not the server's to know.
Reply(r) == pc[r] = "reply" /\ Forget({r})

\* The client disconnects, the database refuses a statement or its connection
\* is lost: the handler is cancelled at an await and its session closed.
Abort(r) == pc[r] \notin {"idle", "reply"} /\ Forget({r})

\* The single server process is killed: every transaction is rolled back.
Crash == (\E r \in Requests : pc[r] # "idle") /\ Forget(Requests)

Tick ==
    /\ now < MaxTime
    /\ now' = now + 1
    /\ UNCHANGED <<store, issued, mail, locks, pc, call, challenge, result>>

\* What a request does by itself, and what it does once a lock is free.
Proceed(r) ==
    \/ InsertChallenge(r)
    \/ SendOtp(r)
    \/ FindUser(r)
    \/ ConsumeChallenge(r)
    \/ InsertSession(r)
    \/ Commit(r)
    \/ Reply(r)

Wait(r) == LockChallenge(r) \/ RegisterUser(r)

Next ==
    \/ \E r \in Requests : \/ \E e \in Emails : RequestOtp(r, e)
                           \/ \E c \in VerifyCalls : VerifyOtp(r, c)
                           \/ Proceed(r)
                           \/ Wait(r)
                           \/ Abort(r)
    \/ Crash
    \/ Tick

\* The event loop resumes every coroutine whose call returned, the gateway
\* answers or raises, and PostgreSQL grants a lock to its waiters in turn.
Fairness == \A r \in Requests : WF_vars(Proceed(r)) /\ SF_vars(Wait(r))

Spec == Init /\ [][Next]_vars /\ Fairness

-----------------------------------------------------------------------------
\* The step in which the transaction of r commits, from pc `at`.
Commits(r, at) == pc[r] = at /\ pc'[r] = "reply"

\* A challenge opens one session, exactly when it is consumed, for an e-mail
\* that then has a user: logins are neither doubled by two requests that
\* carry the right code nor halved by a failure between the four writes.
LoginsAreWhole ==
    \A ch \in Challenges :
        sessions[ch] # 0 \/ (challenges[ch] # Absent /\ challenges[ch].consumed)
        => /\ sessions[ch] = 1
           /\ challenges[ch] # Absent
           /\ challenges[ch].consumed
           /\ challenges[ch].email \in users

\* Wrong codes sent at the same time are all counted: the commit of one adds
\* one to the count as it is at that commit, and never passes the limit.
CountsByOne ==
    \A r \in Requests :
        Commits(r, "count") =>
            /\ challenges'[call[r].ch].attempts = challenges[call[r].ch].attempts + 1
            /\ challenges'[call[r].ch].attempts <= MaxAttempts

WrongCodesAreCounted == [][CountsByOne]_vars

\* A challenge that was consumed, or whose attempts are used up, is never
\* changed again: no login and no count was under way past the checks.  (OtpAtomic
\* says so of what it knows of a challenge.)
KeepsClosed ==
    \A ch \in Challenges :
        ( /\ challenges[ch] # Absent
          /\ challenges[ch].consumed \/ challenges[ch].attempts >= MaxAttempts )
        => challenges'[ch] = challenges[ch]

ClosedStaysClosed == [][KeepsClosed]_vars

\* A request_otp answered with success leaves a challenge that verify_otp finds,
\* for the e-mail it was asked for; where codes go by mail, the code of that
\* challenge went out before, whatever failed in between.  Where they do not
\* (development, or no SES_FROM_EMAIL), success says nothing of a mail.
AnsweredIsStoredAndSent ==
    \A r \in Requests :
        (pc[r] = "reply" /\ result[r] = "ok" /\ call[r].op = "request") =>
            /\ challenges[call[r].ch] # Absent
            /\ challenges[call[r].ch].email = call[r].email
            /\ gateway = "ses" => call[r].ch \in mailed

\* A request that arrived is eventually over: waiting for a challenge and,
\* holding it, for an e-mail never closes a circle.
EveryRequestEnds ==
    \A r \in Requests : pc[r] # "idle" ~> pc[r] = "idle"

-----------------------------------------------------------------------------
AccountOf(ch) ==
    IF challenges[ch] = Absent THEN Absent
    ELSE [email |-> challenges[ch].email, attempts |-> challenges[ch].attempts,
          consumed |-> challenges[ch].consumed, sessions |-> sessions[ch]]

Book == [ch \in Challenges |-> AccountOf(ch)]

Atomic == INSTANCE OtpAtomic WITH users <- users, book <- Book

\* However many requests verify a challenge at a time, and wherever they fail,
\* they act as if each were one atomic step: a wrong code that is counted, or a
\* login that is whole.
ImplementsAtomicOtp == Atomic!ASpec

-----------------------------------------------------------------------------
\* docs/auth.md 5.1: repeated requests for an e-mail are throttled, so two
\* challenges that are both active were not created within the cooldown of
\* each other.
ActiveChallengesAreSpaced ==
    \A e \in Emails : \A a, b \in Active(e) :
        challenges[a].created >= challenges[b].created =>
            \/ a = b
            \/ challenges[a].created - challenges[b].created > Cooldown

\* No two requests are past the look for a recent challenge for one e-mail: what
\* a client gets that waits for an answer of POST /auth/request-otp before it
\* asks again, and what everyone would get under a lock on the e-mail.
NoOverlap ==
    \A r1, r2 \in Requests :
        ( /\ pc[r1] \in Requesting
          /\ pc[r2] \in Requesting
          /\ call[r1].email = call[r2].email ) => r1 = r2

\* Overlap is all that breaks the throttle: while there is none it holds,
\* however requests fail, challenges are verified and restarts come between.
CooldownWithoutOverlap == []NoOverlap => []ActiveChallengesAreSpaced

-----------------------------------------------------------------------------
(***************************************************************************)
(* The inductive invariant behind the safety properties, part by part.     *)
(***************************************************************************)

\* A request in flight has the arguments of its endpoint, and a row at hand
\* once it has inserted or locked one; the row it locks is committed.
CallInv ==
    \A r \in Requests :
        /\ pc[r] \in Requesting => call[r] \in RequestCalls
        /\ pc[r] \in {"lock"} \cup Verifying =>
              call[r] \in VerifyCalls /\ challenges[call[r].ch] # Absent
        /\ pc[r] = "reply" => call[r] \in Calls
        /\ pc[r] \in {"send", "store"} \cup Verifying => challenge[r] \in Challenge

\* A uuid names no row before the commit of the one request that drew it.
IssuedInv ==
    /\ \A ch \in Challenges : challenges[ch] # Absent => ch \in issued
    /\ \A r \in Requests :
          pc[r] \in Requesting =>
              /\ call[r].ch \in issued
              /\ challenges[call[r].ch] = Absent
              /\ \A q \in Requests \ {r} :
                    pc[q] \in Requesting => call[q].ch # call[r].ch

\* A challenge is locked exactly while a request verifies it.
LockInv ==
    /\ \A ch \in Challenges, r \in Requests :
          challengeLock[ch] = r => pc[r] \in Verifying /\ call[r].ch = ch
    /\ \A r \in Requests :
          pc[r] \in Verifying => challengeLock[call[r].ch] = r

LoggingIn == {"consume", "session", "login"}

\* A login under way has a user: a committed one, or its own.
EmailInv ==
    /\ \A e \in Emails, r \in Requests :
          emailLock[e] = r => pc[r] \in LoggingIn /\ challenge[r].email = e
    /\ \A r \in Requests :
          pc[r] \in LoggingIn =>
              \/ challenge[r].email \in users
              \/ emailLock[challenge[r].email] = r

\* Under the lock, the row at hand is the committed one with the request's own
\* change, and the committed one is as the checks found it.
RowInv ==
    \A r \in Requests :
        LET row == challenges[call[r].ch] IN
        /\ pc[r] \in Verifying =>
              /\ ~ row.consumed
              /\ row.attempts < MaxAttempts
              /\ challenge[r].email = row.email
        /\ pc[r] = "count" => /\ ~ challenge[r].consumed
                              /\ challenge[r].attempts = row.attempts + 1
        /\ pc[r] \in Verifying \ {"count"} =>
              challenge[r].attempts = row.attempts
        /\ pc[r] \in {"session", "login"} => challenge[r].consumed

\* A challenge on its way to its first commit is new, and mailed before it if
\* codes go by mail.
FreshInv ==
    \A r \in Requests :
        /\ pc[r] \in {"send", "store"} => /\ challenge[r].email = call[r].email
                                          /\ challenge[r].attempts = 0
                                          /\ ~ challenge[r].consumed
        /\ (pc[r] = "store" /\ gateway = "ses") => call[r].ch \in mailed

IInv ==
    /\ TypeOK
    /\ CallInv
    /\ IssuedInv
    /\ LockInv
    /\ EmailInv
    /\ RowInv
    /\ FreshInv
    /\ LoginsAreWhole
    /\ AnsweredIsStoredAndSent

=============================================================================
