----------------------------- MODULE GoogleOAuth ----------------------------
(***************************************************************************)
(* Login with Google: start_google_oauth and handle_google_callback of     *)
(* AuthService (src/app/features/auth/service.py) over PostgreSQL (READ    *)
(* COMMITTED).                                                             *)
(*                                                                         *)
(* A start stores the nonce of a signed state.  A callback spends it in a  *)
(* first transaction (SELECT ... FOR UPDATE, consumed_at, COMMIT), calls   *)
(* Google without a transaction, finds or creates the user and the link to *)
(* it in a second one, and opens a session in a third.  What an open       *)
(* transaction has inserted is a lock on the unique index: the operators   *)
(* StateFree, EmailFree and SubjectFree say when another may pass.         *)
(***************************************************************************)
EXTENDS Naturals

CONSTANTS
    Nonces,     \* the nonces that token_urlsafe may draw
    Subjects,   \* provider_subject: Google's ids of its accounts
    Emails,     \* normalised e-mail addresses
    Requests,   \* request slots: the handlers in flight at one time
    None        \* no nonce, no identity, no user

\* What fetch_user_info yields.  An e-mail that is absent or blank counts as
\* one that is not verified.
Identities == [subject : Subjects, email : Emails, verified : BOOLEAN]

\* No sentinel is a value of the set it is added to.
ASSUME SentinelAssumption == None \notin Nonces \cup Emails \cup Identities

VARIABLES
    stored,     \* the nonces with a committed row in `oauth_states`
    expired,    \* the nonces whose lifetime is over
    consumed,   \* the nonces whose committed row has consumed_at
    users,      \* the e-mails that have a committed row in `users`
    byOtp,      \* those of them that verify_otp has inserted
    links,      \* the committed rows of `oauth_accounts`
    sessions,   \* per nonce: how many rows of `sessions` it opened
    pc,         \* per request: where it waits
    nonce,      \* per request: the nonce drawn, or that of its state
    identity,   \* per request: what Google answered
    user,       \* per request: the user at hand, by e-mail
    newUser,    \* the requests with an uncommitted `users` row
    result      \* per request: the outcome it redirects with

states == <<stored, expired, consumed>>
store  == <<users, byOtp, links, sessions>>
vars   == <<states, store, pc, nonce, identity, user, newUser, result>>

Link == [subject : Subjects, email : Emails]

Results == {"none", "started", "ok", "invalid", "expired", "provider_error",
            "exchange_failed", "unverified", "conflict"}

\* A request that may insert a link, and one that has spent its state.
Linking  == {"lookup", "register", "link", "store"}
Spending == {"exchange", "find", "session"} \cup Linking

TypeOK ==
    /\ stored \in SUBSET Nonces
    /\ expired \in SUBSET Nonces
    /\ consumed \in SUBSET Nonces
    /\ users \in SUBSET Emails
    /\ byOtp \in SUBSET Emails
    /\ links \in SUBSET Link
    /\ sessions \in [Nonces -> Nat]
    /\ pc \in [Requests -> {"idle", "start", "lock", "consume", "reply"} \cup Spending]
    /\ nonce \in [Requests -> Nonces \cup {None}]
    /\ identity \in [Requests -> Identities \cup {None}]
    /\ user \in [Requests -> Emails \cup {None}]
    /\ newUser \in SUBSET Requests
    /\ result \in [Requests -> Results]

Init ==
    /\ stored = {} /\ expired = {} /\ consumed = {}
    /\ users = {} /\ byOtp = {} /\ links = {}
    /\ sessions = [n \in Nonces |-> 0]
    /\ pc = [r \in Requests |-> "idle"]
    /\ nonce = [r \in Requests |-> None]
    /\ identity = [r \in Requests |-> None]
    /\ user = [r \in Requests |-> None]
    /\ newUser = {}
    /\ result = [r \in Requests |-> "none"]

-----------------------------------------------------------------------------
Goto(r, next) == pc' = [pc EXCEPT ![r] = next]

\* A request with nonce n has arrived; it goes on to `next`, or answers `res`.
Open(r, n, next, res) ==
    /\ pc[r] = "idle"
    /\ Goto(r, next)
    /\ nonce' = [nonce EXCEPT ![r] = n]
    /\ result' = [result EXCEPT ![r] = res]
    /\ UNCHANGED <<store, identity, user, newUser>>

\* The handler redirects with `res`; what it has not committed is rolled back.
Answer(r, res) ==
    /\ Goto(r, "reply")
    /\ result' = [result EXCEPT ![r] = res]
    /\ newUser' = newUser \ {r}

-----------------------------------------------------------------------------
\* GET /auth/google/start: a fresh nonce is drawn and its row inserted.
Start(r, n) ==
    /\ n \notin stored
    /\ \A q \in Requests : pc[q] = "start" => nonce[q] # n
    /\ Open(r, n, "start", "none")
    /\ UNCHANGED states

CommitStart(r) ==
    /\ pc[r] = "start"
    /\ stored' = stored \cup {nonce[r]}
    /\ Answer(r, "started")
    /\ UNCHANGED <<expired, consumed, store, nonce, identity, user>>

\* The lifetime of a state ends.
Expire(n) ==
    /\ n \in stored \ expired
    /\ expired' = expired \cup {n}
    /\ UNCHANGED <<stored, consumed, store, pc, nonce, identity, user, newUser,
                   result>>

\* GET /auth/google/callback with the state of nonce n, or with one that is
\* missing, forged or not that of the cookie.  The clock is read here, once:
\* a state that expires while the callback waits for its row is still taken.
Callback(r, n) ==
    /\ n \in stored
    /\ \/ Open(r, n, "reply", "invalid")
       \/ n \in expired /\ Open(r, n, "reply", "expired")
       \/ n \notin expired /\ Open(r, n, "lock", "none")
    /\ UNCHANGED states

\* Mutant: the SELECT of the state is not FOR UPDATE.
StateFreeAlways(n) == TRUE

\* No open transaction has the row lock of the state.
StateFree(n) == \A r \in Requests : ~ (pc[r] = "consume" /\ nonce[r] = n)

\* The row lock is granted, and the row is read as it is then.
LockState(r) ==
    /\ pc[r] = "lock"
    /\ StateFree(nonce[r])
    /\ IF nonce[r] \in consumed
       THEN Answer(r, "invalid")
       ELSE Goto(r, "consume") /\ UNCHANGED <<newUser, result>>
    /\ UNCHANGED <<states, store, nonce, identity, user>>

\* Mutant: that the state is spent is not committed.
CommitStateUnsaved(r) ==
    /\ pc[r] = "consume"
    /\ \/ Goto(r, "exchange") /\ UNCHANGED <<newUser, result>>
       \/ \E res \in {"provider_error", "exchange_failed"} : Answer(r, res)
    /\ UNCHANGED <<states, store, nonce, identity, user>>

\* The state is spent for good, before anything else is known: the query may
\* carry an error, or no code.
CommitState(r) ==
    /\ pc[r] = "consume"
    /\ consumed' = consumed \cup {nonce[r]}
    /\ \/ Goto(r, "exchange") /\ UNCHANGED <<newUser, result>>
       \/ \E res \in {"provider_error", "exchange_failed"} : Answer(r, res)
    /\ UNCHANGED <<stored, expired, store, nonce, identity, user>>

\* Google exchanges the code and names the account, or either call fails.
Exchange(r) ==
    /\ pc[r] = "exchange"
    /\ \/ /\ \E id \in Identities : identity' = [identity EXCEPT ![r] = id]
          /\ Goto(r, "find")
          /\ UNCHANGED <<newUser, result>>
       \/ /\ Answer(r, "exchange_failed")
          /\ UNCHANGED identity
    /\ UNCHANGED <<states, store, nonce, user>>

-----------------------------------------------------------------------------
\* The users that the committed links of subject s lead to.
LinkedUsers(s) == { e \in Emails : [subject |-> s, email |-> e] \in links }

\* get_oauth_account_by_provider_subject; without a link, only a verified
\* e-mail goes on.
FindLink(r) ==
    LET id == identity[r] IN
    /\ pc[r] = "find"
    /\ \/ /\ \E e \in LinkedUsers(id.subject) : user' = [user EXCEPT ![r] = e]
          /\ Goto(r, "session")
          /\ UNCHANGED <<newUser, result>>
       \/ /\ LinkedUsers(id.subject) = {} /\ ~ id.verified
          /\ Answer(r, "unverified")
          /\ UNCHANGED user
       \/ /\ LinkedUsers(id.subject) = {} /\ id.verified
          /\ user' = [user EXCEPT ![r] = id.email]
          /\ Goto(r, "lookup")
          /\ UNCHANGED <<newUser, result>>
    /\ UNCHANGED <<states, store, nonce, identity>>

\* get_user_by_email: only committed rows are seen.
FindUser(r) ==
    /\ pc[r] = "lookup"
    /\ Goto(r, IF user[r] \in users THEN "link" ELSE "register")
    /\ UNCHANGED <<states, store, nonce, identity, user, newUser, result>>

\* No open transaction has inserted the e-mail.
EmailFree(e) == \A r \in newUser : user[r] # e

\* Mutant: the new user is committed on its own.
RegisterUserAtOnce(r) ==
    /\ pc[r] = "register"
    /\ EmailFree(user[r])
    /\ user[r] \notin users
    /\ users' = users \cup {user[r]}
    /\ Goto(r, "link")
    /\ UNCHANGED <<states, byOtp, links, sessions, nonce, identity, user, newUser, result>>

\* Mutant: an e-mail that another transaction has inserted is a conflict, before
\* that one commits.
RegisterUserNoWait(r) ==
    /\ pc[r] = "register"
    /\ IF user[r] \in users \/ ~ EmailFree(user[r])
       THEN Answer(r, "conflict")
       ELSE /\ newUser' = newUser \cup {r}
            /\ Goto(r, "link")
            /\ UNCHANGED result
    /\ UNCHANGED <<states, store, nonce, identity, user>>

\* create_user: an e-mail that was committed meanwhile is an IntegrityError.
RegisterUser(r) ==
    /\ pc[r] = "register"
    /\ EmailFree(user[r])
    /\ IF user[r] \in users
       THEN Answer(r, "conflict")
       ELSE /\ newUser' = newUser \cup {r}
            /\ Goto(r, "link")
            /\ UNCHANGED result
    /\ UNCHANGED <<states, store, nonce, identity, user>>

\* No open transaction has inserted a link of the subject.
SubjectFree(s) ==
    \A r \in Requests : ~ (pc[r] = "store" /\ identity[r].subject = s)

\* Mutant: a link that was committed meanwhile is taken for the user's own.
InsertLinkUnlessLinked(r) ==
    /\ pc[r] = "link"
    /\ SubjectFree(identity[r].subject)
    /\ Goto(r, IF LinkedUsers(identity[r].subject) # {} THEN "session" ELSE "store")
    /\ UNCHANGED <<states, store, nonce, identity, user, newUser, result>>

\* Mutant: on an IntegrityError the handler starts over without a rollback.
InsertLinkAgain(r) ==
    /\ pc[r] = "link"
    /\ SubjectFree(identity[r].subject)
    /\ Goto(r, IF LinkedUsers(identity[r].subject) # {} THEN "lookup" ELSE "store")
    /\ UNCHANGED <<states, store, nonce, identity, user, newUser, result>>

\* create_oauth_account: a link that was committed meanwhile is an
\* IntegrityError, and a user inserted before it is rolled back with it.
InsertLink(r) ==
    /\ pc[r] = "link"
    /\ SubjectFree(identity[r].subject)
    /\ IF LinkedUsers(identity[r].subject) # {}
       THEN Answer(r, "conflict")
       ELSE Goto(r, "store") /\ UNCHANGED <<newUser, result>>
    /\ UNCHANGED <<states, store, nonce, identity, user>>

\* The user, if it is new, and the link are committed together.
CommitLink(r) ==
    /\ pc[r] = "store"
    /\ links' = links \cup {[subject |-> identity[r].subject, email |-> user[r]]}
    /\ users' = IF r \in newUser THEN users \cup {user[r]} ELSE users
    /\ newUser' = newUser \ {r}
    /\ Goto(r, "session")
    /\ UNCHANGED <<states, byOtp, sessions, nonce, identity, user, result>>

\* create_session_for_user: its INSERT, which nobody sees, and its COMMIT.
OpenSession(r) ==
    /\ pc[r] = "session"
    /\ sessions' = [sessions EXCEPT ![nonce[r]] = @ + 1]
    /\ Answer(r, "ok")
    /\ UNCHANGED <<states, users, byOtp, links, nonce, identity, user>>

-----------------------------------------------------------------------------
\* Mutant: the session of a cancelled request is not closed.
ForgetUnclosed(rs) ==
    /\ pc' = [r \in Requests |-> IF r \in rs THEN "idle" ELSE pc[r]]
    /\ result' = [r \in Requests |-> IF r \in rs THEN "none" ELSE result[r]]
    /\ UNCHANGED <<states, store, nonce, identity, user, newUser>>

\* The slots in `rs` forget their requests, transactions rolled back.
Forget(rs) ==
    /\ pc' = [r \in Requests |-> IF r \in rs THEN "idle" ELSE pc[r]]
    /\ nonce' = [r \in Requests |-> IF r \in rs THEN None ELSE nonce[r]]
    /\ identity' = [r \in Requests |-> IF r \in rs THEN None ELSE identity[r]]
    /\ user' = [r \in Requests |-> IF r \in rs THEN None ELSE user[r]]
    /\ newUser' = newUser \ rs
    /\ result' = [r \in Requests |-> IF r \in rs THEN "none" ELSE result[r]]
    /\ UNCHANGED <<states, store>>

\* The redirect is sent; whether it arrives is not the server's to know.
Reply(r) == pc[r] = "reply" /\ Forget({r})

\* The client disconnects, the database refuses a statement or its connection
\* is lost: the handler is cancelled at an await and its session closed.
Abort(r) == pc[r] \notin {"idle", "reply"} /\ Forget({r})

\* The single server process is killed: every transaction is rolled back.
Crash == (\E r \in Requests : pc[r] # "idle") /\ Forget(Requests)

\* verify_otp, in another handler, commits a new user (module OtpAuth).
OtpRegisters(e) ==
    /\ e \notin users
    /\ EmailFree(e)
    /\ users' = users \cup {e}
    /\ byOtp' = byOtp \cup {e}
    /\ UNCHANGED <<states, links, sessions, pc, nonce, identity, user, newUser,
                   result>>

\* What a request does by itself, and what it does once a lock is free.
Proceed(r) ==
    \/ CommitStart(r)
    \/ CommitState(r)
    \/ Exchange(r)
    \/ FindLink(r)
    \/ FindUser(r)
    \/ CommitLink(r)
    \/ OpenSession(r)
    \/ Reply(r)

Wait(r) == LockState(r) \/ RegisterUser(r) \/ InsertLink(r)

Next ==
    \/ \E r \in Requests : \/ \E n \in Nonces : Start(r, n) \/ Callback(r, n)
                           \/ Proceed(r)
                           \/ Wait(r)
                           \/ Abort(r)
    \/ \E n \in Nonces : Expire(n)
    \/ \E e \in Emails : OtpRegisters(e)
    \/ Crash

\* The event loop resumes every coroutine whose call returned, httpx answers
\* or times out, and PostgreSQL grants a lock to its waiters in turn.
Fairness == \A r \in Requests : WF_vars(Proceed(r)) /\ SF_vars(Wait(r))

Spec == Init /\ [][Next]_vars /\ Fairness

-----------------------------------------------------------------------------
\* A state opens at most one session, and only after it was spent: two
\* callbacks that carry the same state do not both log in, even when both
\* found it unspent before they queued for its row.
OneLoginPerState ==
    \A n \in Nonces : sessions[n] # 0 => sessions[n] = 1 /\ n \in consumed

\* A callback that redirects with success is logged in as the one user whom
\* the links give for the subject Google named, also when another callback
\* or an OTP login was creating the link or the user at the same time.
LoginIsLinked ==
    \A r \in Requests :
        pc[r] = "reply" /\ result[r] = "ok" =>
            /\ LinkedUsers(identity[r].subject) = {user[r]}
            /\ user[r] \in users

\* Every user can log in again the way it came: it was registered by OTP or
\* has a link, so a link that fails leaves no user behind.
NoStrandedUser ==
    \A e \in users : e \in byOtp \/ \E l \in links : l.email = e

\* A conflict is never the doing of a callback that failed itself: whoever is
\* answered one has a link by now, or an e-mail whose user is there, so that the
\* login succeeds when it is repeated.
ConflictHasACause ==
    \A r \in Requests :
        pc[r] = "reply" /\ result[r] = "conflict" =>
            user[r] \in users \/ LinkedUsers(identity[r].subject) # {}

\* How far a state has come, as the committed rows tell it.
Stage(n) == IF sessions[n] > 0 THEN "used"
            ELSE IF n \in consumed THEN "spent"
            ELSE IF n \in stored THEN "open"
            ELSE "unknown"

Atomic == INSTANCE GoogleAtomic WITH
            users <- users,
            byOtp <- byOtp,
            owner <- [s \in Subjects |-> LinkedUsers(s)],
            state <- [n \in Nonces |-> Stage(n)]

\* Whatever callbacks, starts and OTP logins run at a time, and wherever they
\* fail, what they leave behind comes about in atomic steps: a state is spent
\* before it logs in, a subject is linked once, its user comes with the link.
ImplementsAtomicGoogle == Atomic!ASpec

\* A request that arrived is eventually over: waiting for a state, an e-mail
\* and a subject never closes a circle.
EveryRequestEnds ==
    \A r \in Requests : pc[r] # "idle" ~> pc[r] = "idle"

\* docs/auth.md 7.2, linking policy: a verified e-mail with no link must reuse
\* the existing user.  So a conflict is only answered to a subject that has a
\* link; an e-mail registered between the lookup and the INSERT breaks this.
ConflictIsALink ==
    \A r \in Requests :
        pc[r] = "reply" /\ result[r] = "conflict" =>
            LinkedUsers(identity[r].subject) # {}

-----------------------------------------------------------------------------
(***************************************************************************)
(* The inductive invariant behind the safety properties, part by part.     *)
(***************************************************************************)

\* A nonce names no row before the commit of the start that drew it, and a
\* callback queues for a row that is there.
NonceInv ==
    /\ consumed \subseteq stored
    /\ \A r \in Requests :
          /\ pc[r] = "start" =>
                /\ nonce[r] \notin stored
                /\ \A q \in Requests \ {r} : pc[q] = "start" => nonce[q] # nonce[r]
          /\ pc[r] \in {"lock", "consume"} => nonce[r] \in stored

\* A state is spent by one callback, which holds it alone from the row lock
\* on and has not opened its session yet.
StateInv ==
    \A r \in Requests :
        /\ pc[r] \in {"start", "lock", "consume"} \cup Spending => nonce[r] \in Nonces
        /\ pc[r] = "consume" =>
              /\ nonce[r] \notin consumed
              /\ \A q \in Requests \ {r} : pc[q] = "consume" => nonce[q] # nonce[r]
        /\ pc[r] \in Spending =>
              /\ nonce[r] \in consumed
              /\ sessions[nonce[r]] = 0
              /\ \A q \in Requests \ {r} : pc[q] \in Spending => nonce[q] # nonce[r]

\* Past Google's answer a request has an identity, and past the lookup of the
\* link a user.
IdentityInv ==
    \A r \in Requests :
        /\ pc[r] \in {"find", "session"} \cup Linking => identity[r] \in Identities
        /\ pc[r] = "reply" /\ result[r] \in {"ok", "conflict"} =>
              identity[r] \in Identities
        /\ pc[r] \in {"session"} \cup Linking => user[r] \in Emails

\* A new user is inserted by one open transaction, which has it linked next.
UserInv ==
    /\ \A r \in newUser :
          /\ pc[r] \in {"link", "store"}
          /\ user[r] \notin users
          /\ \A q \in newUser \ {r} : user[q] # user[r]
    /\ \A r \in Requests :
          pc[r] \in {"link", "store"} => r \in newUser \/ user[r] \in users

\* A subject is linked to one user, who exists.
LinkInv ==
    /\ \A l, k \in links : l.subject = k.subject => l = k
    /\ \A l \in links : l.email \in users

\* One open transaction at a time links a subject, and a callback that goes on
\* to its session has its subject linked.
LinkingInv ==
    \A r \in Requests :
        /\ pc[r] = "store" =>
              /\ LinkedUsers(identity[r].subject) = {}
              /\ \A q \in Requests \ {r} :
                    pc[q] = "store" => identity[q].subject # identity[r].subject
        /\ pc[r] = "session" =>
              [subject |-> identity[r].subject, email |-> user[r]] \in links

IInv ==
    /\ TypeOK
    /\ NonceInv
    /\ StateInv
    /\ IdentityInv
    /\ UserInv
    /\ LinkInv
    /\ LinkingInv
    /\ OneLoginPerState
    /\ LoginIsLinked
    /\ NoStrandedUser
    /\ ConflictHasACause

=============================================================================
