------------------------------ MODULE Sessions ------------------------------
(***************************************************************************)
(* What every request with a session cookie does before and beside its own *)
(* work: GET /auth/session, POST /auth/logout, and the endpoints behind    *)
(* get_current_user (src/app/features/auth/dependencies.py), over one row  *)
(* of `sessions` per token and the connection pool of db/session.py.       *)
(*                                                                         *)
(* A request takes a connection at its first statement, and waits for one  *)
(* while the pool is empty.  It gives the connection back when it commits  *)
(* or when its database session is closed, with its answer: an endpoint    *)
(* that only reads keeps it while it works, the AI endpoint through both   *)
(* calls of the provider.  Nobody sends a token before a login drew it: a  *)
(* cookie that was made up is Unknown.                                     *)
(***************************************************************************)
EXTENDS Integers, FiniteSets

CONSTANTS
    Tokens,     \* the session tokens a login may draw
    Requests,   \* request slots: the handlers in flight at one time
    PoolSize,   \* pool_size + max_overflow of the engine
    Unknown,    \* a cookie that is no token: forged, or of another database
    None        \* no cookie, no request, no lock holder

ASSUME PoolAssumption == PoolSize \in Nat \ {0}

VARIABLES
    session,    \* per token: its committed row of `sessions`
    expired,    \* the tokens whose row has passed its expires_at
    rowLock,    \* per token: the request with an uncommitted UPDATE of its row
    pool,       \* the requests that have a connection checked out
    pc,         \* per request: where it waits
    call,       \* per request: its endpoint and cookie
    user,       \* per request: it was resolved to a user
    loggedOut,  \* the tokens that some logout was answered for
    late        \* the requests that arrived when their token was in loggedOut

rows    == <<session, expired, rowLock>>
history == <<loggedOut, late>>
vars    == <<rows, pool, pc, call, user, history>>

Calls == [op : {"session", "logout", "protected"}, token : Tokens \cup {Unknown, None}]

ASSUME SentinelAssumption ==
    /\ None \notin Calls \cup Requests \cup Tokens \cup {Unknown}
    /\ Unknown \notin Tokens

Steps == {"resolve", "flush", "commit", "work"}

TypeOK ==
    /\ session \in [Tokens -> {"none", "live", "revoked"}]
    /\ expired \in SUBSET Tokens
    /\ rowLock \in [Tokens -> Requests \cup {None}]
    /\ pool \in SUBSET Requests /\ IsFiniteSet(pool)
    /\ pc \in [Requests -> {"idle", "connect", "reply"} \cup Steps]
    /\ call \in [Requests -> Calls \cup {None}]
    /\ user \in [Requests -> BOOLEAN]
    /\ loggedOut \in SUBSET Tokens
    /\ late \in SUBSET Requests

Init ==
    /\ session = [t \in Tokens |-> "none"]
    /\ expired = {}
    /\ rowLock = [t \in Tokens |-> None]
    /\ pool = {}
    /\ pc = [r \in Requests |-> "idle"]
    /\ call = [r \in Requests |-> None]
    /\ user = [r \in Requests |-> FALSE]
    /\ loggedOut = {}
    /\ late = {}

Goto(r, next) == pc' = [pc EXCEPT ![r] = next]

-----------------------------------------------------------------------------
\* A login commits a session: OtpAuth and GoogleOAuth say when.
Login(t) ==
    /\ session[t] = "none"
    /\ session' = [session EXCEPT ![t] = "live"]
    /\ UNCHANGED <<expired, rowLock, pool, pc, call, user, history>>

Expire(t) ==
    /\ session[t] # "none" /\ t \notin expired
    /\ expired' = expired \cup {t}
    /\ UNCHANGED <<session, rowLock, pool, pc, call, user, history>>

\* The row that get_active_session_by_token_hash finds.
Active(t) == t \in Tokens /\ session[t] = "live" /\ t \notin expired

\* A request arrives.  Without a cookie it needs no statement: it is anonymous.
Arrive(r, c) ==
    /\ pc[r] = "idle"
    /\ c.token \in Tokens => session[c.token] # "none"
    /\ Goto(r, IF c.token = None THEN "reply" ELSE "connect")
    /\ call' = [call EXCEPT ![r] = c]
    /\ late' = IF c.token \in loggedOut THEN late \cup {r} ELSE late
    /\ UNCHANGED <<rows, pool, user, loggedOut>>

\* Mutant: the overflow is one larger than it is said to be.
HasRoomForOneMore == Cardinality(pool) <= PoolSize

HasRoom == Cardinality(pool) < PoolSize

\* The first statement of the request checks a connection out.
Connect(r) ==
    /\ pc[r] = "connect"
    /\ HasRoom
    /\ pool' = pool \cup {r}
    /\ Goto(r, "resolve")
    /\ UNCHANGED <<rows, call, user, history>>

\* Mutant: a logout finds its row with FOR UPDATE in a database session of its
\* own, and its UPDATE waits for that one.
ResolveForUpdate(r) ==
    LET c == call[r] IN
    /\ pc[r] = "resolve"
    /\ IF ~ Active(c.token)
       THEN Goto(r, "reply") /\ UNCHANGED <<user, rowLock>>
       ELSE IF c.op = "logout"
            THEN /\ rowLock[c.token] = None
                 /\ rowLock' = [rowLock EXCEPT ![c.token] = r]
                 /\ Goto(r, "flush") /\ UNCHANGED user
            ELSE /\ Goto(r, IF c.op = "protected" THEN "work" ELSE "reply")
                 /\ user' = [user EXCEPT ![r] = TRUE]
                 /\ UNCHANGED rowLock
    /\ UNCHANGED <<session, expired, pool, call, history>>

\* resolve_user_from_session_token, or the first statement of
\* revoke_session_token.  A protected endpoint refuses who has no user.
Resolve(r) ==
    LET c == call[r] IN
    /\ pc[r] = "resolve"
    /\ IF ~ Active(c.token)
       THEN Goto(r, "reply") /\ UNCHANGED user
       ELSE IF c.op = "logout"
            THEN Goto(r, "flush") /\ UNCHANGED user
            ELSE /\ Goto(r, IF c.op = "protected" THEN "work" ELSE "reply")
                 /\ user' = [user EXCEPT ![r] = TRUE]
    /\ UNCHANGED <<rows, pool, call, history>>

\* The protected endpoint does its work: it commits, or only reads.
Work(r) ==
    /\ pc[r] = "work"
    /\ pool' \in {pool, pool \ {r}}
    /\ Goto(r, "reply")
    /\ UNCHANGED <<rows, call, user, history>>

\* revoke_session: the UPDATE by primary key waits for the lock of the row and
\* writes whatever another logout wrote before.
FlushRevoke(r) ==
    /\ pc[r] = "flush"
    /\ rowLock[call[r].token] = None
    /\ rowLock' = [rowLock EXCEPT ![call[r].token] = r]
    /\ Goto(r, "commit")
    /\ UNCHANGED <<session, expired, pool, call, user, history>>

\* Mutant: logout is answered without a commit.
CommitNothing(r) ==
    /\ pc[r] = "commit"
    /\ rowLock' = [rowLock EXCEPT ![call[r].token] = None]
    /\ pool' = pool \ {r}
    /\ Goto(r, "reply")
    /\ UNCHANGED <<session, expired, call, user, history>>

CommitRevoke(r) ==
    /\ pc[r] = "commit"
    /\ session' = [session EXCEPT ![call[r].token] = "revoked"]
    /\ rowLock' = [rowLock EXCEPT ![call[r].token] = None]
    /\ pool' = pool \ {r}
    /\ Goto(r, "reply")
    /\ UNCHANGED <<expired, call, user, history>>

\* The slots in `rs` forget their requests: get_db closes their sessions, which
\* rolls back and gives the connection back.
Forget(rs) ==
    /\ pc' = [r \in Requests |-> IF r \in rs THEN "idle" ELSE pc[r]]
    /\ call' = [r \in Requests |-> IF r \in rs THEN None ELSE call[r]]
    /\ user' = [r \in Requests |-> user[r] /\ r \notin rs]
    /\ late' = late \ rs
    /\ pool' = pool \ rs
    /\ rowLock' = [t \in Tokens |-> IF rowLock[t] \in rs THEN None ELSE rowLock[t]]
    /\ UNCHANGED <<session, expired>>

\* No connection came back in the 30 seconds of pool_timeout: an error is answered.
ConnectTimesOut(r) ==
    /\ pc[r] = "connect"
    /\ ~ HasRoom
    /\ Forget({r})
    /\ UNCHANGED loggedOut

\* The answer is sent.  A logout says logged_out whether it revoked anything.
Reply(r) ==
    /\ pc[r] = "reply"
    /\ loggedOut' = IF /\ call[r].op = "logout"
                       /\ call[r].token \in Tokens
                    THEN loggedOut \cup {call[r].token} ELSE loggedOut
    /\ Forget({r})

\* Mutant: the database session of a request that was cancelled is not closed.
AbortUnclosed(r) ==
    /\ pc[r] \in {"connect"} \cup Steps
    /\ Goto(r, "idle")
    /\ call' = [call EXCEPT ![r] = None]
    /\ user' = [user EXCEPT ![r] = FALSE]
    /\ late' = late \ {r}
    /\ UNCHANGED <<rows, pool, loggedOut>>

\* The client disconnects or a statement fails, at an await.
Abort(r) ==
    /\ pc[r] \in {"connect"} \cup Steps
    /\ Forget({r})
    /\ UNCHANGED loggedOut

\* The server process is killed, its pool with it.
Crash ==
    /\ \E r \in Requests : pc[r] # "idle"
    /\ Forget(Requests)
    /\ UNCHANGED loggedOut

Proceed(r) == \/ Connect(r) \/ ConnectTimesOut(r)
              \/ Resolve(r) \/ Work(r) \/ CommitRevoke(r) \/ Reply(r)

Next ==
    \/ \E t \in Tokens : Login(t) \/ Expire(t)
    \/ \E r \in Requests : \/ \E c \in Calls : Arrive(r, c)
                           \/ Proceed(r)
                           \/ FlushRevoke(r)
                           \/ Abort(r)
    \/ Crash

\* The event loop resumes whom the pool or the database answers, the work of an
\* endpoint ends (AiGeneration, NotebookStore), and PostgreSQL grants a row lock
\* to its waiters in turn.
Fairness == \A r \in Requests : WF_vars(Proceed(r)) /\ SF_vars(FlushRevoke(r))

Spec == Init /\ [][Next]_vars /\ Fairness

-----------------------------------------------------------------------------
\* docs/auth.md:421: logout invalidates the future use of the session.  Once a
\* logout is answered, no request that arrives with its token gets a user,
\* whatever other requests had already resolved it, failed or were killed.
LogoutIsFinal == \A r \in late : ~ user[r]

\* What makes it so: a token whose logout was answered is no longer active.
LogoutRevokes == \A t \in loggedOut : session[t] # "none" /\ ~ Active(t)

\* An empty pool fills again: no request keeps its connection for good, not
\* one that waits for a row lock or for the provider, failed or was killed.
PoolRecovers == Cardinality(pool) = PoolSize ~> Cardinality(pool) < PoolSize

\* A request that arrived is eventually over: none waits for a connection or a
\* row lock in a circle.
EveryRequestEnds == \A r \in Requests : pc[r] # "idle" ~> pc[r] = "idle"

-----------------------------------------------------------------------------
(***************************************************************************)
(* The inductive invariant.                                                *)
(***************************************************************************)

\* A request in flight has a call, with a token that some login drew if with any,
\* and only one that was resolved has a user or revokes a session.
CallInv ==
    \A r \in Requests :
        /\ pc[r] # "idle" => call[r] \in Calls
        /\ pc[r] \in {"connect"} \cup Steps =>
              call[r].token # None
        /\ (pc[r] # "idle" /\ call[r].token \in Tokens) =>
              session[call[r].token] # "none"
        /\ pc[r] \in {"flush", "commit"} =>
              call[r].op = "logout" /\ call[r].token \in Tokens
        /\ pc[r] = "work" => call[r].op = "protected"
        /\ user[r] => pc[r] \in {"work", "reply"}

\* The connections out are those of requests that work with them.
PoolInv ==
    /\ Cardinality(pool) <= PoolSize
    /\ \A r \in Requests : /\ pc[r] \in Steps => r \in pool
                           /\ r \in pool => pc[r] \in Steps \cup {"reply"}

\* A row is locked exactly while a logout has an uncommitted UPDATE of it.
LockInv ==
    \A r \in Requests, t \in Tokens :
        rowLock[t] = r <=> pc[r] = "commit" /\ call[r].token = t

\* A logout about to be answered leaves its token inactive.
AnswerInv ==
    \A r \in Requests :
        (pc[r] = "reply" /\ call[r].op = "logout") => ~ Active(call[r].token)

\* A late request has a token whose logout was answered.
LateInv ==
    \A r \in late : pc[r] # "idle" /\ call[r].token \in loggedOut

IInv ==
    /\ TypeOK
    /\ CallInv
    /\ PoolInv
    /\ LockInv
    /\ AnswerInv
    /\ LateInv
    /\ LogoutRevokes
    /\ LogoutIsFinal

=============================================================================
