---------------------------- MODULE SessionsProofs ---------------------------
(***************************************************************************)
(* Theorems about Sessions, for any tokens, any number of requests and any *)
(* size of the pool: IInv of that module is inductive, and LogoutIsFinal   *)
(* is a conjunct of it.  There is one lemma for each kind of step.         *)
(***************************************************************************)
EXTENDS Sessions, FiniteSetTheorems, TLAPS

\* A pool with room has a size below the bound when one more gets a connection.
LEMMA OneMoreFits ==
  ASSUME IsFiniteSet(pool), HasRoom, NEW r
  PROVE  /\ IsFiniteSet(pool \cup {r})
         /\ Cardinality(pool \cup {r}) <= PoolSize
<1>1. Cardinality(pool) \in Nat
  BY FS_CardinalityType
<1>2. /\ IsFiniteSet(pool \cup {r})
      /\ Cardinality(pool \cup {r}) \in {Cardinality(pool), Cardinality(pool) + 1}
  BY FS_AddElement, Zenon
<1> QED BY <1>1, <1>2, PoolAssumption DEF HasRoom

\* A pool that gets connections back does not grow.
LEMMA FewerFit ==
  ASSUME IsFiniteSet(pool), Cardinality(pool) <= PoolSize, NEW rs
  PROVE  /\ IsFiniteSet(pool \ rs)
         /\ Cardinality(pool \ rs) <= PoolSize
<1>1. /\ IsFiniteSet(pool \ rs)
      /\ Cardinality(pool \ rs) <= Cardinality(pool)
  BY FS_Subset
<1>2. Cardinality(pool) \in Nat /\ Cardinality(pool \ rs) \in Nat
  BY <1>1, FS_CardinalityType
<1> QED BY <1>1, <1>2, PoolAssumption

\* No request is under way, and no token was drawn.
LEMMA InitInvariant == Init => IInv
<1>1. IsFiniteSet({}) /\ Cardinality({}) = 0
  BY FS_EmptySet
<1> QED BY <1>1, PoolAssumption, SentinelAssumption
        DEF Init, IInv, TypeOK, CallInv, PoolInv, LockInv, AnswerInv, LateInv,
            LogoutRevokes, LogoutIsFinal, Steps

-----------------------------------------------------------------------------
\* A login opens a session, or one expires.
LEMMA OutsideKeeps ==
  ASSUME IInv, NEW t \in Tokens, Login(t) \/ Expire(t)
  PROVE  IInv'
<1>1. TypeOK'
  BY SentinelAssumption DEF IInv, TypeOK, Login, Expire, Goto, rows, history,
       CallInv, Steps
<1>2. CallInv'
  BY SentinelAssumption DEF IInv, TypeOK, Login, Expire, Goto, rows, history,
       CallInv, Calls, Steps
<1>3. PoolInv'
  BY SentinelAssumption DEF IInv, TypeOK, Login, Expire, Goto, rows, history,
       PoolInv, Steps
<1>4. LockInv'
  BY SentinelAssumption DEF IInv, TypeOK, Login, Expire, Goto, rows, history,
       LockInv, CallInv, Steps
<1>5. AnswerInv'
  BY SentinelAssumption DEF IInv, TypeOK, Login, Expire, Goto, rows, history,
       AnswerInv, CallInv, Calls, Active, Steps
<1>6. LateInv' /\ LogoutRevokes'
  BY SentinelAssumption DEF IInv, TypeOK, Login, Expire, Goto, rows, history,
       LateInv, LogoutRevokes, AnswerInv, CallInv, Calls, Active, Steps
<1>7. LogoutIsFinal'
  BY SentinelAssumption DEF IInv, TypeOK, Login, Expire, Goto, rows, history,
       LogoutIsFinal, LateInv, LogoutRevokes, CallInv, Active, Steps
<1> QED BY <1>1, <1>2, <1>3, <1>4, <1>5, <1>6, <1>7 DEF IInv

\* A request arrives.
LEMMA ArriveKeeps ==
  ASSUME IInv, NEW r \in Requests, NEW c \in Calls, Arrive(r, c)
  PROVE  IInv'
<1>1. TypeOK'
  BY SentinelAssumption DEF IInv, TypeOK, Arrive, Goto, rows, history, CallInv,
       Steps
<1>2. CallInv'
  BY SentinelAssumption DEF IInv, TypeOK, Arrive, Goto, rows, history, CallInv,
       Calls, Steps
<1>3. PoolInv'
  BY SentinelAssumption DEF IInv, TypeOK, Arrive, Goto, rows, history, PoolInv,
       Steps
<1>4. LockInv'
  BY SentinelAssumption DEF IInv, TypeOK, Arrive, Goto, rows, history, LockInv,
       CallInv, Steps
<1>5. AnswerInv'
  BY SentinelAssumption DEF IInv, TypeOK, Arrive, Goto, rows, history,
       AnswerInv, CallInv, Calls, Active, Steps
<1>6. LateInv' /\ LogoutRevokes'
  BY SentinelAssumption DEF IInv, TypeOK, Arrive, Goto, rows, history, LateInv,
       LogoutRevokes, AnswerInv, CallInv, Calls, Active, Steps
<1>7. LogoutIsFinal'
  BY SentinelAssumption DEF IInv, TypeOK, Arrive, Goto, rows, history,
       LogoutIsFinal, LateInv, LogoutRevokes, CallInv, Active, Steps
<1> QED BY <1>1, <1>2, <1>3, <1>4, <1>5, <1>6, <1>7 DEF IInv

\* A request gets a connection.
LEMMA ConnectKeeps ==
  ASSUME IInv, NEW r \in Requests, Connect(r)
  PROVE  IInv'
<1>a. IsFiniteSet(pool') /\ Cardinality(pool') <= PoolSize
  BY OneMoreFits DEF IInv, TypeOK, PoolInv, Connect
<1>1. TypeOK'
  BY <1>a, SentinelAssumption DEF IInv, TypeOK, Connect, Goto, rows, history,
       CallInv, Steps
<1>2. CallInv'
  BY SentinelAssumption DEF IInv, TypeOK, Connect, Goto, rows, history,
       CallInv, Calls, Steps
<1>3. PoolInv'
  BY <1>a, SentinelAssumption DEF IInv, TypeOK, Connect, Goto, rows, history,
       PoolInv, Steps
<1>4. LockInv'
  BY SentinelAssumption DEF IInv, TypeOK, Connect, Goto, rows, history,
       LockInv, CallInv, Steps
<1>5. AnswerInv'
  BY SentinelAssumption DEF IInv, TypeOK, Connect, Goto, rows, history,
       AnswerInv, CallInv, Calls, Active, Steps
<1>6. LateInv' /\ LogoutRevokes'
  BY SentinelAssumption DEF IInv, TypeOK, Connect, Goto, rows, history,
       LateInv, LogoutRevokes, AnswerInv, CallInv, Calls, Active, Steps
<1>7. LogoutIsFinal'
  BY SentinelAssumption DEF IInv, TypeOK, Connect, Goto, rows, history,
       LogoutIsFinal, LateInv, LogoutRevokes, CallInv, Active, Steps
<1> QED BY <1>1, <1>2, <1>3, <1>4, <1>5, <1>6, <1>7 DEF IInv

\* A request looks its session up.
LEMMA ResolveKeeps ==
  ASSUME IInv, NEW r \in Requests, Resolve(r)
  PROVE  IInv'
<1>1. TypeOK'
  BY SentinelAssumption DEF IInv, TypeOK, Resolve, Goto, rows, history,
       CallInv, Steps
<1>2. CallInv'
  <2>1. call[r] \in Calls /\ call[r].token # None
    BY DEF IInv, CallInv, Resolve, Steps
  <2>2. pc'[r] \in {"flush"} => call[r].op = "logout" /\ call[r].token \in Tokens
    BY DEF IInv, TypeOK, Resolve, Goto, Active
  <2>3. /\ pc'[r] \in {"reply", "flush", "work"}
        /\ pc'[r] = "work" => call[r].op = "protected"
        /\ user'[r] => user[r] \/ pc'[r] \in {"work", "reply"}
        /\ call' = call /\ session' = session
        /\ \A q \in Requests \ {r} : pc'[q] = pc[q] /\ user'[q] = user[q]
    BY <2>1 DEF IInv, TypeOK, Resolve, Goto, rows, Calls
  <2>4. pc[r] = "resolve" /\ (user[r] => FALSE)
    BY DEF IInv, CallInv, Resolve
  <2> QED BY <2>1, <2>2, <2>3, <2>4 DEF IInv, CallInv, Steps
<1>3. PoolInv'
  BY SentinelAssumption DEF IInv, TypeOK, Resolve, Goto, rows, history,
       PoolInv, Steps
<1>4. LockInv'
  BY SentinelAssumption DEF IInv, TypeOK, Resolve, Goto, rows, history,
       LockInv, CallInv, Steps
<1>5. AnswerInv'
  BY SentinelAssumption DEF IInv, TypeOK, Resolve, Goto, rows, history,
       AnswerInv, CallInv, Calls, Active, Steps
<1>6. LateInv' /\ LogoutRevokes'
  BY SentinelAssumption DEF IInv, TypeOK, Resolve, Goto, rows, history,
       LateInv, LogoutRevokes, AnswerInv, CallInv, Calls, Active, Steps
<1>7. LogoutIsFinal'
  BY SentinelAssumption DEF IInv, TypeOK, Resolve, Goto, rows, history,
       LogoutIsFinal, LateInv, LogoutRevokes, CallInv, Active, Steps
<1> QED BY <1>1, <1>2, <1>3, <1>4, <1>5, <1>6, <1>7 DEF IInv

\* A protected endpoint works.
LEMMA WorkKeeps ==
  ASSUME IInv, NEW r \in Requests, Work(r)
  PROVE  IInv'
<1>a. IsFiniteSet(pool') /\ Cardinality(pool') <= PoolSize
  BY FewerFit DEF IInv, TypeOK, PoolInv, Work
<1>1. TypeOK'
  BY <1>a, SentinelAssumption DEF IInv, TypeOK, Work, Goto, rows, history,
       CallInv, Steps
<1>2. CallInv'
  BY SentinelAssumption DEF IInv, TypeOK, Work, Goto, rows, history, CallInv,
       Calls, Steps
<1>3. PoolInv'
  BY <1>a, SentinelAssumption DEF IInv, TypeOK, Work, Goto, rows, history,
       PoolInv, Steps
<1>4. LockInv'
  BY SentinelAssumption DEF IInv, TypeOK, Work, Goto, rows, history, LockInv,
       CallInv, Steps
<1>5. AnswerInv'
  BY SentinelAssumption DEF IInv, TypeOK, Work, Goto, rows, history, AnswerInv,
       CallInv, Calls, Active, Steps
<1>6. LateInv' /\ LogoutRevokes'
  BY SentinelAssumption DEF IInv, TypeOK, Work, Goto, rows, history, LateInv,
       LogoutRevokes, AnswerInv, CallInv, Calls, Active, Steps
<1>7. LogoutIsFinal'
  BY SentinelAssumption DEF IInv, TypeOK, Work, Goto, rows, history,
       LogoutIsFinal, LateInv, LogoutRevokes, CallInv, Active, Steps
<1> QED BY <1>1, <1>2, <1>3, <1>4, <1>5, <1>6, <1>7 DEF IInv

\* A logout gets the lock of its row.
LEMMA FlushRevokeKeeps ==
  ASSUME IInv, NEW r \in Requests, FlushRevoke(r)
  PROVE  IInv'
<1>1. TypeOK'
  BY SentinelAssumption DEF IInv, TypeOK, FlushRevoke, Goto, rows, history,
       CallInv, Steps
<1>2. CallInv'
  BY SentinelAssumption DEF IInv, TypeOK, FlushRevoke, Goto, rows, history,
       CallInv, Calls, Steps
<1>3. PoolInv'
  BY SentinelAssumption DEF IInv, TypeOK, FlushRevoke, Goto, rows, history,
       PoolInv, Steps
<1>4. LockInv'
  BY SentinelAssumption DEF IInv, TypeOK, FlushRevoke, Goto, rows, history,
       LockInv, CallInv, Steps
<1>5. AnswerInv'
  BY SentinelAssumption DEF IInv, TypeOK, FlushRevoke, Goto, rows, history,
       AnswerInv, CallInv, Calls, Active, Steps
<1>6. LateInv' /\ LogoutRevokes'
  BY SentinelAssumption DEF IInv, TypeOK, FlushRevoke, Goto, rows, history,
       LateInv, LogoutRevokes, AnswerInv, CallInv, Calls, Active, Steps
<1>7. LogoutIsFinal'
  BY SentinelAssumption DEF IInv, TypeOK, FlushRevoke, Goto, rows, history,
       LogoutIsFinal, LateInv, LogoutRevokes, CallInv, Active, Steps
<1> QED BY <1>1, <1>2, <1>3, <1>4, <1>5, <1>6, <1>7 DEF IInv

\* A logout commits.
LEMMA CommitRevokeKeeps ==
  ASSUME IInv, NEW r \in Requests, CommitRevoke(r)
  PROVE  IInv'
<1>a. IsFiniteSet(pool') /\ Cardinality(pool') <= PoolSize
  BY FewerFit DEF IInv, TypeOK, PoolInv, CommitRevoke
<1>1. TypeOK'
  BY <1>a, SentinelAssumption DEF IInv, TypeOK, CommitRevoke, Goto, rows,
       history, CallInv, Steps
<1>2. CallInv'
  BY SentinelAssumption DEF IInv, TypeOK, CommitRevoke, Goto, rows, history,
       CallInv, Calls, Steps
<1>3. PoolInv'
  BY <1>a, SentinelAssumption DEF IInv, TypeOK, CommitRevoke, Goto, rows,
       history, PoolInv, Steps
<1>4. LockInv'
  BY SentinelAssumption DEF IInv, TypeOK, CommitRevoke, Goto, rows, history,
       LockInv, CallInv, Steps
<1>5. AnswerInv'
  BY SentinelAssumption DEF IInv, TypeOK, CommitRevoke, Goto, rows, history,
       AnswerInv, CallInv, Calls, Active, Steps
<1>6. LateInv' /\ LogoutRevokes'
  BY SentinelAssumption DEF IInv, TypeOK, CommitRevoke, Goto, rows, history,
       LateInv, LogoutRevokes, AnswerInv, CallInv, Calls, Active, Steps
<1>7. LogoutIsFinal'
  BY SentinelAssumption DEF IInv, TypeOK, CommitRevoke, Goto, rows, history,
       LogoutIsFinal, LateInv, LogoutRevokes, CallInv, Active, Steps
<1> QED BY <1>1, <1>2, <1>3, <1>4, <1>5, <1>6, <1>7 DEF IInv

\* An answer is sent.
LEMMA ReplyKeeps ==
  ASSUME IInv, NEW r \in Requests, Reply(r)
  PROVE  IInv'
<1>a. IsFiniteSet(pool') /\ Cardinality(pool') <= PoolSize
  BY FewerFit DEF IInv, TypeOK, PoolInv, Reply, Forget
<1>b. loggedOut' \in SUBSET Tokens
  BY DEF IInv, TypeOK, CallInv, Calls, Reply
<1>c. Forget({r})
  BY DEF Reply
<1>1. TypeOK'
  BY <1>a, <1>b, <1>c DEF IInv, TypeOK, Forget
<1>2. CallInv'
  BY SentinelAssumption DEF IInv, TypeOK, Reply, Forget, Goto, rows, history,
       CallInv, Calls, Steps
<1>3. PoolInv'
  BY <1>a, SentinelAssumption DEF IInv, TypeOK, Reply, Forget, Goto, rows,
       history, PoolInv, Steps
<1>4. LockInv'
  BY SentinelAssumption DEF IInv, TypeOK, Reply, Forget, Goto, rows, history,
       LockInv, CallInv, Steps
<1>5. AnswerInv'
  BY SentinelAssumption DEF IInv, TypeOK, Reply, Forget, Goto, rows, history,
       AnswerInv, CallInv, Calls, Active, Steps
<1>6. LateInv' /\ LogoutRevokes'
  BY SentinelAssumption DEF IInv, TypeOK, Reply, Forget, Goto, rows, history,
       LateInv, LogoutRevokes, AnswerInv, CallInv, Calls, Active, Steps
<1>7. LogoutIsFinal'
  BY SentinelAssumption DEF IInv, TypeOK, Reply, Forget, Goto, rows, history,
       LogoutIsFinal, LateInv, LogoutRevokes, CallInv, Active, Steps
<1> QED BY <1>1, <1>2, <1>3, <1>4, <1>5, <1>6, <1>7 DEF IInv

\* Requests fail or are killed.
LEMMA ForgetKeeps ==
  ASSUME IInv, NEW rs \in SUBSET Requests, Forget(rs), UNCHANGED loggedOut
  PROVE  IInv'
<1>a. IsFiniteSet(pool') /\ Cardinality(pool') <= PoolSize
  BY FewerFit DEF IInv, TypeOK, PoolInv, Forget
<1>1. TypeOK'
  BY <1>a, SentinelAssumption DEF IInv, TypeOK, Forget, Goto, rows, history,
       CallInv, Steps
<1>2. CallInv'
  BY SentinelAssumption DEF IInv, TypeOK, Forget, Goto, rows, history, CallInv,
       Calls, Steps
<1>3. PoolInv'
  BY <1>a, SentinelAssumption DEF IInv, TypeOK, Forget, Goto, rows, history,
       PoolInv, Steps
<1>4. LockInv'
  BY SentinelAssumption DEF IInv, TypeOK, Forget, Goto, rows, history, LockInv,
       CallInv, Steps
<1>5. AnswerInv'
  BY SentinelAssumption DEF IInv, TypeOK, Forget, Goto, rows, history,
       AnswerInv, CallInv, Calls, Active, Steps
<1>6. LateInv' /\ LogoutRevokes'
  BY SentinelAssumption DEF IInv, TypeOK, Forget, Goto, rows, history, LateInv,
       LogoutRevokes, AnswerInv, CallInv, Calls, Active, Steps
<1>7. LogoutIsFinal'
  BY SentinelAssumption DEF IInv, TypeOK, Forget, Goto, rows, history,
       LogoutIsFinal, LateInv, LogoutRevokes, CallInv, Active, Steps
<1> QED BY <1>1, <1>2, <1>3, <1>4, <1>5, <1>6, <1>7 DEF IInv

-----------------------------------------------------------------------------
\* Each action, and a step that changes nothing, keeps the invariant.
LEMMA NextInvariant == IInv /\ [Next]_vars => IInv'
<1> SUFFICES ASSUME IInv, [Next]_vars
             PROVE  IInv'
  OBVIOUS
<1>1. CASE UNCHANGED vars
  BY <1>1 DEF IInv, TypeOK, CallInv, PoolInv, LockInv, AnswerInv, LateInv,
              LogoutRevokes, LogoutIsFinal, Active, vars, rows, history
<1>2. ASSUME NEW t \in Tokens, Login(t) \/ Expire(t)
      PROVE  IInv'
  BY <1>2, OutsideKeeps
<1>3. ASSUME NEW r \in Requests, NEW c \in Calls, Arrive(r, c)
      PROVE  IInv'
  BY <1>3, ArriveKeeps
<1>4. ASSUME NEW r \in Requests, Proceed(r)
      PROVE  IInv'
  BY <1>4, ConnectKeeps, ResolveKeeps, WorkKeeps, CommitRevokeKeeps, ReplyKeeps,
     ForgetKeeps DEF Proceed, ConnectTimesOut
<1>5. ASSUME NEW r \in Requests, FlushRevoke(r)
      PROVE  IInv'
  BY <1>5, FlushRevokeKeeps
<1>6. ASSUME NEW r \in Requests, Abort(r)
      PROVE  IInv'
  BY <1>6, ForgetKeeps DEF Abort
<1>7. CASE Crash
  BY <1>7, ForgetKeeps DEF Crash
<1> QED BY <1>1, <1>2, <1>3, <1>4, <1>5, <1>6, <1>7 DEF Next

\* The invariant holds in every behaviour.
THEOREM InvariantHolds == Spec => []IInv
BY InitInvariant, NextInvariant, PTL DEF Spec

\* Once a logout is answered, no request that arrives with its token is
\* resolved to a user, whatever requests had resolved it before, whatever
\* other logouts were under way, and whatever failed or restarted.
THEOREM LogoutHolds == Spec => []LogoutIsFinal
<1>1. IInv => LogoutIsFinal
  BY DEF IInv
<1> QED BY <1>1, InvariantHolds, PTL

=============================================================================
